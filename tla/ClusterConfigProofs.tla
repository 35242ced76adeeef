------------------------- MODULE ClusterConfigProofs -------------------------
(***************************************************************************)
(* What a node keeps of the cluster configuration, for any configurations, *)
(* contracts and secrets, any messages, calls and crashes.                 *)
(***************************************************************************)
EXTENDS ClusterConfig, SequenceTheorems, TLAPS

-----------------------------------------------------------------------------
(* The inductive invariants behind NoRunnerLost, InForceLanded and         *)
(* NoRollback                                                              *)

(* A runner that reads a configuration without its contract is on its way   *)
(* out, whether it failed already or not                                   *)
RunnersOnTheirWay ==
    \A c \in Oracle :
        \/ runners[c] = "dead"
        \/ runners[c] = "live" /\ c \notin ContractsOf[config]
        => \E i \in DOMAIN tasks : c \notin ContractsOf[tasks[i].cfg]

OraclesDie == \A c \in Contract \ Oracle : runners[c] # "dead"

(* Every envelope that somebody keeps, or that is under way *)
Envelopes ==
    ({orchestrator.current, orchestrator.pending, pending}
        \cup {inbox[i].current : i \in DOMAIN inbox}
        \cup {inbox[i].pending : i \in DOMAIN inbox}
        \cup {tasks[i].rest : i \in DOMAIN tasks}) \ {None}

(* The operators update the configuration that landed last *)
OperatorsInOrder ==
    /\ orchestrator.pending # None => orchestrator.pending.cfg = orchestrator.current.cfg + 1
    /\ orchestrator.current.cfg \in landed
    /\ \A k \in landed : k <= Latest

(* What they signed later is not an older configuration *)
SignedInOrder ==
    /\ \A e \in Envelopes : /\ e.nonce <= lastNonce
                            /\ e.cfg \in landed \/ e.cfg = Latest
    /\ \A e, f \in Envelopes : e.nonce <= f.nonce => e.cfg <= f.cfg

(* The configurations that the node got as current, or set, landed *)
KnownLanded ==
    /\ \A i \in DOMAIN inbox : inbox[i].current.cfg \in landed
    /\ \A i \in DOMAIN tasks : tasks[i].cfg \in landed
    /\ InForceLanded

(* The nonce of a pending configuration is stored with it *)
PendingGuarded ==
    /\ pendingFile = pending
    /\ pending # None => pending.nonce <= nonce.pending

(* The worker is at the latest update, and nothing older gets pending *)
WorkerIsLatest ==
    worker.pc # "idle" =>
        /\ worker.cfg = Latest
        /\ worker.pc = "submit" /\ pending # None => pending.cfg = worker.cfg
        /\ \A e \in Envelopes : e.nonce >= nonce.pending => e.cfg >= worker.cfg

Inv == /\ OperatorsInOrder
       /\ SignedInOrder
       /\ KnownLanded
       /\ PendingGuarded
       /\ WorkerIsLatest

(* Calls that do not overlap: an import ends before another configuration   *)
(* is set                                                                  *)
ImportsEndInOrder == Secret \subseteq {MaxConfig} \/ MaxTasks <= 1

(* A stored nonce keeps out what is older than what it was stored with *)
NoncesGuard ==
    /\ \A e \in Envelopes : e.nonce >= nonce.config => e.cfg >= configFile
    /\ \A e \in Envelopes, i \in DOMAIN tasks :
           e.nonce >= tasks[i].nonce => e.cfg >= tasks[i].cfg

(* Calls end in the order they began, as far as it matters *)
TasksInOrder ==
    /\ \A i \in DOMAIN tasks : tasks[i].cfg >= configFile
    /\ \A i, j \in DOMAIN tasks :
           i # j => tasks[i].cfg \in Secret \/ tasks[j].cfg \in Secret
    /\ Len(tasks) <= MaxTasks


-----------------------------------------------------------------------------
(* Sequences *)

LEMMA AppendShape ==
  ASSUME NEW S, NEW s \in Seq(S), NEW e \in S
  PROVE  /\ Append(s, e) \in Seq(S)
         /\ Len(s) \in Nat /\ Len(Append(s, e)) = Len(s) + 1
         /\ DOMAIN s = 1..Len(s)
         /\ DOMAIN Append(s, e) = 1..Len(s) + 1
         /\ \A i \in 1..Len(s) : Append(s, e)[i] = s[i]
         /\ Append(s, e)[Len(s) + 1] = e
OBVIOUS

LEMMA TailShape ==
  ASSUME NEW S, NEW s \in Seq(S), s # <<>>
  PROVE  /\ Head(s) \in S /\ Tail(s) \in Seq(S)
         /\ 1 \in DOMAIN s /\ Head(s) = s[1]
         /\ \A i \in DOMAIN Tail(s) : i + 1 \in DOMAIN s /\ Tail(s)[i] = s[i + 1]
OBVIOUS

(* Where the i-th call of the others is when one has ended *)
LEMMA RemoveShape ==
  ASSUME NEW S, NEW s \in Seq(S), NEW i \in DOMAIN s
  PROVE  /\ RemoveAt(s, i) \in Seq(S)
         /\ Len(s) \in Nat /\ Len(RemoveAt(s, i)) = Len(s) - 1
         /\ DOMAIN RemoveAt(s, i) = 1..Len(s) - 1
         /\ \A j \in 1..Len(s) - 1 : RemoveAt(s, i)[j] = IF j < i THEN s[j] ELSE s[j + 1]
<1>1. Len(s) \in Nat /\ i \in 1..Len(s) /\ \A j \in 1..Len(s) : s[j] \in S
  OBVIOUS
<1> DEFINE a == SubSeq(s, 1, i - 1)
<1> DEFINE b == SubSeq(s, i + 1, Len(s))
<1>2. /\ a \in Seq(S) /\ Len(a) = i - 1
      /\ \A j \in 1..i - 1 : a[j] = s[j]
  BY <1>1, SubSeqProperties
<1>3. /\ b \in Seq(S) /\ Len(b) = Len(s) - i
      /\ \A j \in 1..Len(s) - i : b[j] = s[i + j]
  <2>1. i + 1 \in Int /\ Len(s) \in Int /\ \A j \in i + 1..Len(s) : s[j] \in S
    BY <1>1
  <2>2. /\ b \in Seq(S)
        /\ Len(b) = IF i + 1 <= Len(s) THEN Len(s) - (i + 1) + 1 ELSE 0
        /\ \A j \in 1..Len(s) - (i + 1) + 1 : b[j] = s[i + 1 + j - 1]
    BY <2>1, SubSeqProperties
  <2>3. Len(b) = Len(s) - i /\ Len(s) - (i + 1) + 1 = Len(s) - i
    BY <1>1, <2>2
  <2>4. \A j \in 1..Len(s) - i : i + 1 + j - 1 = i + j
    BY <1>1
  <2> QED BY <2>2, <2>3, <2>4
<1> HIDE DEF a, b
<1>4. a \o b \in Seq(S) /\ Len(a \o b) = Len(s) - 1
      /\ \A j \in 1..Len(s) - 1 : (a \o b)[j] = IF j <= i - 1 THEN a[j] ELSE b[j - (i - 1)]
  <2>1. /\ a \o b \in Seq(S) /\ Len(a \o b) = Len(a) + Len(b)
        /\ \A j \in 1..Len(a) + Len(b) :
             (a \o b)[j] = IF j <= Len(a) THEN a[j] ELSE b[j - Len(a)]
    BY <1>2, <1>3, ConcatProperties
  <2>2. Len(a) + Len(b) = Len(s) - 1
    BY <1>1, <1>2, <1>3
  <2> QED BY <1>2, <2>1, <2>2
<1>5. \A j \in 1..Len(s) - 1 : (a \o b)[j] = IF j < i THEN s[j] ELSE s[j + 1]
  <2> SUFFICES ASSUME NEW j \in 1..Len(s) - 1
               PROVE  (a \o b)[j] = IF j < i THEN s[j] ELSE s[j + 1]
    OBVIOUS
  <2>1. CASE j < i
    BY <1>1, <1>2, <1>4, <2>1
  <2>2. CASE ~(j < i)
    <3>1. j - (i - 1) \in 1..Len(s) - i /\ i + (j - (i - 1)) = j + 1
      BY <1>1, <2>2
    <3>2. (a \o b)[j] = b[j - (i - 1)]
      BY <1>1, <1>4, <2>2
    <3>3. b[j - (i - 1)] = s[j + 1]
      BY <1>3, <3>1
    <3> QED BY <2>2, <3>2, <3>3
  <2> QED BY <2>1, <2>2
<1>6. RemoveAt(s, i) = a \o b
  BY DEF RemoveAt, a, b
<1> QED BY <1>1, <1>4, <1>5, <1>6

(* The calls that are left are others than the one that ended. *)
LEMMA RemovedOthers ==
  ASSUME NEW S, NEW s \in Seq(S), NEW i \in DOMAIN s
  PROVE  /\ \A j \in DOMAIN RemoveAt(s, i) :
              \E k \in DOMAIN s : k # i /\ RemoveAt(s, i)[j] = s[k]
         /\ \A k \in DOMAIN s : k # i =>
              \E j \in DOMAIN RemoveAt(s, i) : RemoveAt(s, i)[j] = s[k]
         /\ \A j, l \in DOMAIN RemoveAt(s, i) : j # l =>
              \E k, m \in DOMAIN s : /\ k # i /\ m # i /\ k # m
                                     /\ RemoveAt(s, i)[j] = s[k]
                                     /\ RemoveAt(s, i)[l] = s[m]
<1>1. /\ Len(s) \in Nat /\ i \in 1..Len(s) /\ DOMAIN s = 1..Len(s)
      /\ DOMAIN RemoveAt(s, i) = 1..Len(s) - 1
      /\ \A j \in 1..Len(s) - 1 : RemoveAt(s, i)[j] = IF j < i THEN s[j] ELSE s[j + 1]
  BY RemoveShape
<1> DEFINE at(j) == IF j < i THEN j ELSE j + 1
<1>2. \A j \in 1..Len(s) - 1 : at(j) \in DOMAIN s /\ at(j) # i /\ RemoveAt(s, i)[j] = s[at(j)]
  BY <1>1
<1>3. \A j, l \in 1..Len(s) - 1 : j # l => at(j) # at(l)
  BY <1>1
<1>4. ASSUME NEW k \in DOMAIN s, k # i
      PROVE  \E j \in DOMAIN RemoveAt(s, i) : RemoveAt(s, i)[j] = s[k]
  <2>1. k \in 1..Len(s) /\ k # i
    BY <1>1, <1>4
  <2>2. CASE k < i
    BY <1>1, <2>1, <2>2
  <2>3. CASE k > i
    <3>1. k - 1 \in 1..Len(s) - 1 /\ ~(k - 1 < i) /\ (k - 1) + 1 = k
      BY <1>1, <2>1, <2>3
    <3> QED BY <1>1, <3>1
  <2> QED BY <1>1, <2>1, <2>2, <2>3
<1>5. \A j, l \in DOMAIN RemoveAt(s, i) : j # l =>
        \E k, m \in DOMAIN s : /\ k # i /\ m # i /\ k # m
                               /\ RemoveAt(s, i)[j] = s[k]
                               /\ RemoveAt(s, i)[l] = s[m]
  <2> HIDE DEF at
  <2> SUFFICES ASSUME NEW j \in DOMAIN RemoveAt(s, i), NEW l \in DOMAIN RemoveAt(s, i),
                      j # l
               PROVE  \E k, m \in DOMAIN s : /\ k # i /\ m # i /\ k # m
                                             /\ RemoveAt(s, i)[j] = s[k]
                                             /\ RemoveAt(s, i)[l] = s[m]
    OBVIOUS
  <2>1. DOMAIN RemoveAt(s, i) = 1..Len(s) - 1
    BY <1>1
  <2>2. j \in 1..Len(s) - 1 /\ l \in 1..Len(s) - 1
    BY <2>1
  <2>3. at(j) # at(l)
    BY <1>3, <2>2
  <2> QED BY <1>2, <2>2, <2>3
<1> HIDE DEF at
<1> QED BY <1>1, <1>2, <1>4, <1>5

-----------------------------------------------------------------------------
(* The pending configuration *)

LEMMA LaterType ==
  ASSUME NEW a \in Int, NEW b \in Int
  PROVE  /\ Later(a, b) \in {a, b} /\ Later(a, b) >= a /\ Later(a, b) >= b
BY DEF Later

(* What becomes of the pending configuration: it stays, is cleared, or the  *)
(* envelope of the message is taken.                                       *)
LEMMA HandlePendingShape ==
  ASSUME TypeOK, PendingGuarded,
         NEW envelope \in Envelope \cup {None}, NEW c, NEW nonces,
         nonces \in [config : 1..MaxNonce, pending : 0..MaxNonce],
         nonces.pending = nonce.pending,
         HandlePending(envelope, c, nonces)
  PROVE  /\ nonce' \in [config : 1..MaxNonce, pending : 0..MaxNonce]
         /\ nonce'.config = nonces.config
         /\ nonce'.pending >= nonce.pending
         /\ pending' \in Envelope \cup {None} /\ pendingFile' = pending'
         /\ PendingGuarded'
         /\ \/ pending' = None \/ pending' = pending
            \/ /\ pending' = envelope /\ envelope # None
               /\ envelope.nonce >= nonce.pending
               /\ pending # None => pending.cfg = envelope.cfg
<1>1. CASE envelope = None
  BY <1>1 DEF HandlePending, ClearPending, PendingGuarded, TypeOK
<1>2. CASE /\ envelope # None
           /\ ~(IsVerified(envelope, nonce.pending) /\ IsAcceptable(envelope, c))
  BY <1>2 DEF HandlePending, TakePending, PendingGuarded, TypeOK
<1>3. CASE /\ envelope # None
           /\ IsVerified(envelope, nonce.pending) /\ IsAcceptable(envelope, c)
  <2>1. /\ pending' = envelope /\ pendingFile' = envelope
        /\ nonce' = [nonces EXCEPT !.pending = Later(envelope.nonce, @)]
        /\ envelope.nonce >= nonce.pending
        /\ pending # None => pending.cfg = envelope.cfg
    BY <1>3 DEF HandlePending, TakePending, IsVerified, IsAcceptable
  <2>2. envelope \in Envelope /\ envelope.nonce \in 1..MaxNonce
        /\ nonces.pending \in 0..MaxNonce
    BY <1>3 DEF Envelope
  <2> DEFINE later == Later(envelope.nonce, nonces.pending)
  <2>3. later \in {envelope.nonce, nonces.pending} /\ later >= nonces.pending
        /\ later >= envelope.nonce
    BY <2>2, LaterType
  <2>4. later \in 0..MaxNonce
    BY <2>2, <2>3, LimitAssumption
  <2>5. nonce' = [nonces EXCEPT !.pending = later]
    BY <2>1
  <2> HIDE DEF later
  <2>6. nonce'.config = nonces.config /\ nonce'.pending = later
        /\ nonce' \in [config : 1..MaxNonce, pending : 0..MaxNonce]
    BY <2>4, <2>5
  <2> QED BY <1>3, <2>1, <2>2, <2>3, <2>6 DEF PendingGuarded
<1> QED BY <1>1, <1>2, <1>3

-----------------------------------------------------------------------------
(* Type correctness *)

State == {"none", "stopped", "live", "dead"}

LEMMA RunnersShape ==
  ASSUME TypeOK, NEW k \in Config, NEW contracts
  PROVE  /\ SetContracts(contracts) \in [Contract -> State]
         /\ \A known \in [Contract -> State] : \A some :
                Started(known, some) \in [Contract -> State]
         /\ RunnersOf(k) \in [Contract -> State]
BY DEF TypeOK, SetContracts, Started, RunnersOf, State

LEMMA TaskAt ==
  ASSUME TypeOK, NEW i \in DOMAIN tasks
  PROVE  /\ tasks[i] \in Task /\ tasks[i].cfg \in Config
         /\ tasks[i].nonce \in 1..MaxNonce
         /\ tasks[i].rest \in Envelope \cup {None}
         /\ tasks[i].by \in {"handler", "worker"}
  <1>1. tasks[i] \in Task
    BY DEF TypeOK
  <1> QED BY <1>1 DEF Task

LEMMA HeadShape ==
  ASSUME TypeOK, inbox # <<>>
  PROVE  /\ Head(inbox) \in Message
         /\ Head(inbox).current \in Envelope
         /\ Head(inbox).current.cfg \in Config
         /\ Head(inbox).current.nonce \in 1..MaxNonce
         /\ Head(inbox).pending \in Envelope \cup {None}
         /\ Tail(inbox) \in Seq(Message)
<1>1. Head(inbox) \in Message /\ Tail(inbox) \in Seq(Message)
  BY TailShape DEF TypeOK
<1> QED BY <1>1 DEF Message, Envelope

(* What a call of setConfig starts with *)
LEMMA HandleShape ==
  ASSUME TypeOK, PendingGuarded, Handle
  PROVE  LET msg == Head(inbox) IN
         /\ inbox # <<>> /\ inbox' = Tail(inbox)
         /\ UNCHANGED <<orchestrator, lastNonce, landed, applied, runners, worker, up,
                        crashes, configFile>>
         /\ \/ /\ msg.current.nonce >= nonce.config
               /\ config' = msg.current.cfg
               /\ UNCHANGED <<pending, nonce, pendingFile>>
               /\ Runs /\ Len(tasks) < MaxTasks
               /\ \E task \in Task :
                     /\ tasks' = Append(tasks, task)
                     /\ task.cfg = msg.current.cfg /\ task.rest = msg.pending
                     /\ task.nonce >= msg.current.nonce
            \/ /\ UNCHANGED <<config, tasks>>
               /\ HandlePending(msg.pending, config, nonce)
<1> DEFINE msg == Head(inbox)
<1> DEFINE task == [cfg |-> msg.current.cfg, by |-> "handler", rest |-> msg.pending,
                    nonce |-> Later(msg.current.nonce, nonce.config)]
<1>1. inbox # <<>>
  BY DEF Handle
<1>2. /\ msg.current.cfg \in Config
      /\ msg.current.nonce \in 1..MaxNonce
      /\ msg.pending \in Envelope \cup {None}
  BY <1>1, HeadShape
<1>3. nonce.config \in 1..MaxNonce
  BY DEF TypeOK
<1>4. Later(msg.current.nonce, nonce.config) \in 1..MaxNonce
      /\ Later(msg.current.nonce, nonce.config) >= msg.current.nonce
  BY <1>2, <1>3, LaterType
<1>5. task \in Task /\ task.cfg = msg.current.cfg /\ task.rest = msg.pending
      /\ task.nonce >= msg.current.nonce
  BY <1>2, <1>4 DEF Task
<1>6. CASE IsVerified(msg.current, nonce.config) /\ tasks' = Append(tasks, task)
           /\ config' = msg.current.cfg /\ Len(tasks) < MaxTasks
           /\ UNCHANGED <<pending, disk>>
  <2> HIDE DEF task
  <2> QED BY <1>1, <1>5, <1>6 DEF Handle, disk, outside, IsVerified
<1>7. CASE HandlePending(msg.pending, config, nonce)
           /\ UNCHANGED <<config, tasks, configFile>>
  BY <1>1, <1>7 DEF Handle, outside
<1> QED BY <1>6, <1>7 DEF Handle

(* How a call of setConfig ends *)
LEMMA FinishShape ==
  ASSUME TypeOK, PendingGuarded, NEW i \in DOMAIN tasks, FinishSetConfig(i)
  PROVE  /\ UNCHANGED <<orchestrator, lastNonce, landed, inbox, config, up, crashes>>
         /\ tasks' = RemoveAt(tasks, i)
         /\ applied' = tasks[i].cfg /\ configFile' = tasks[i].cfg
         /\ nonce' \in [config : 1..MaxNonce, pending : 0..MaxNonce]
         /\ nonce'.config = tasks[i].nonce
         /\ nonce'.pending >= nonce.pending
         /\ pending' \in Envelope \cup {None} /\ pendingFile' = pending'
         /\ PendingGuarded'
         /\ worker' = worker \/ (worker' = IdleWorker /\ pending' = None)
         /\ \/ pending' = None \/ pending' = pending
            \/ /\ pending' = tasks[i].rest /\ tasks[i].rest # None
               /\ tasks[i].rest.nonce >= nonce.pending
               /\ pending # None => pending.cfg = tasks[i].rest.cfg
<1> DEFINE nonces == [nonce EXCEPT !.config = NonceOf(tasks[i])]
<1>1. /\ nonces \in [config : 1..MaxNonce, pending : 0..MaxNonce]
      /\ nonces.pending = nonce.pending /\ nonces.config = tasks[i].nonce
  BY TaskAt DEF TypeOK, NonceOf
<1>2. /\ UNCHANGED <<orchestrator, lastNonce, landed, inbox, config, up, crashes>>
      /\ tasks' = RemoveAt(tasks, i)
      /\ applied' = tasks[i].cfg /\ configFile' = tasks[i].cfg
  BY DEF FinishSetConfig, outside
<1>3. CASE HandlePending(tasks[i].rest, config, nonces) /\ UNCHANGED worker
  <2>1. tasks[i].rest \in Envelope \cup {None}
    BY TaskAt
  <2> HIDE DEF nonces
  <2> QED BY <1>1, <1>2, <1>3, <2>1, HandlePendingShape
<1>4. CASE ClearPending /\ nonce' = nonces /\ worker' = IdleWorker
  <2>1. nonces.pending >= nonce.pending
    BY <1>1 DEF TypeOK
  <2> HIDE DEF nonces
  <2> QED BY <1>1, <1>2, <1>4, <2>1 DEF ClearPending, PendingGuarded
<1> QED BY <1>3, <1>4 DEF FinishSetConfig

(* The worker's update becomes a call. *)
LEMMA ApplyShape ==
  ASSUME TypeOK, PendingGuarded, ApplyPendingUpdate
  PROVE  /\ UNCHANGED <<orchestrator, lastNonce, landed, inbox, applied, runners, pending,
                        nonce, configFile, pendingFile, up, crashes>>
         /\ worker.pc = "submit" /\ worker.cfg \in landed
         /\ \/ /\ pending # None /\ Runs /\ Len(tasks) < MaxTasks
               /\ config' = pending.cfg
               /\ worker' = [worker EXCEPT !.pc = "apply"]
               /\ \E task \in Task :
                     /\ tasks' = Append(tasks, task)
                     /\ task.cfg = pending.cfg /\ task.rest = None
                     /\ task.nonce >= pending.nonce
            \/ UNCHANGED <<config, tasks>> /\ worker' = IdleWorker
<1> DEFINE task == [cfg |-> pending.cfg, by |-> "worker", rest |-> None,
                    nonce |-> nonce.pending]
<1>1. pending # None => task \in Task /\ task.cfg = pending.cfg /\ task.rest = None
                        /\ task.nonce >= pending.nonce
  BY DEF TypeOK, PendingGuarded, Task, Envelope
<1>2. /\ UNCHANGED <<orchestrator, lastNonce, landed, inbox, applied, runners, pending,
                     nonce, configFile, pendingFile, up, crashes>>
      /\ worker.pc = "submit" /\ worker.cfg \in landed
  BY DEF ApplyPendingUpdate, outside, disk, IsSubmitted
<1>3. \/ /\ pending # None /\ Runs /\ Len(tasks) < MaxTasks
         /\ config' = pending.cfg
         /\ worker' = [worker EXCEPT !.pc = "apply"]
         /\ tasks' = Append(tasks, task)
      \/ UNCHANGED <<config, tasks>> /\ worker' = IdleWorker
  BY DEF ApplyPendingUpdate
<1> HIDE DEF task
<1> QED BY <1>1, <1>2, <1>3

(* A process that begins again *)
LEMMA CrashShape ==
  ASSUME TypeOK, PendingGuarded, CrashStep
  PROVE  /\ UNCHANGED <<orchestrator, lastNonce, landed, pendingFile>>
         /\ tasks' = <<>> /\ inbox' = <<>> /\ worker' = IdleWorker
         /\ pending' = pending
         /\ config' = configFile' /\ applied' = configFile' /\ runners' = RunnersOf(configFile')
         /\ up' \in BOOLEAN /\ crashes' = crashes + 1
         /\ \/ UNCHANGED <<configFile, nonce>>
            \/ \E i \in DOMAIN tasks :
                  /\ configFile' = configFile \/ configFile' = tasks[i].cfg
                  /\ nonce' = [nonce EXCEPT !.config = tasks[i].nonce]
<1>1. CASE Crash
  BY <1>1 DEF Crash, Boot, outside, disk, PendingGuarded
<1>2. ASSUME NEW i \in DOMAIN tasks, CrashInSetConfig(i) \/ CrashAfterSetConfig(i)
      PROVE  /\ UNCHANGED <<orchestrator, lastNonce, landed, pendingFile>>
             /\ tasks' = <<>> /\ inbox' = <<>> /\ worker' = IdleWorker
             /\ pending' = pending
             /\ config' = configFile' /\ applied' = configFile'
             /\ runners' = RunnersOf(configFile')
             /\ up' \in BOOLEAN /\ crashes' = crashes + 1
             /\ configFile' = configFile \/ configFile' = tasks[i].cfg
             /\ nonce' = [nonce EXCEPT !.config = tasks[i].nonce]
  <2>1. CASE CrashInSetConfig(i)
    BY <2>1 DEF CrashInSetConfig, Boot, outside, PendingGuarded, NonceOf
  <2>2. CASE CrashAfterSetConfig(i)
    <3>1. configFile' = tasks[i].cfg /\ Boot(tasks[i].cfg, pendingFile)
          /\ UNCHANGED <<outside, pendingFile>>
          /\ nonce' = [nonce EXCEPT !.config = tasks[i].nonce]
      BY <2>2 DEF CrashAfterSetConfig, NonceOf
    <3> QED BY <3>1 DEF Boot, outside, PendingGuarded
  <2> QED BY <1>2, <2>1, <2>2
<1> QED BY <1>1, <1>2 DEF CrashStep

LEMMA CrashUnchanged ==
  ASSUME CrashStep
  PROVE  UNCHANGED <<orchestrator, lastNonce, landed>>
BY DEF CrashStep, Crash, CrashInSetConfig, CrashAfterSetConfig, outside

LEMMA TypeStep ==
  ASSUME TypeOK, PendingGuarded, [Next]_vars
  PROVE  TypeOK' /\ PendingGuarded'
<1>1. CASE Propose
  <2>1. /\ orchestrator.current \in Envelope /\ orchestrator.current.cfg \in Int
        /\ orchestrator.current.cfg >= 0 /\ lastNonce \in 1..MaxNonce
    BY LimitAssumption DEF TypeOK, Message, Envelope, Config
  <2>2. /\ orchestrator.current.cfg + 1 \in Config
        /\ lastNonce + 1 \in 1..MaxNonce
    BY <1>1, <2>1, LimitAssumption DEF Propose, Config
  <2> DEFINE next == [cfg |-> orchestrator.current.cfg + 1, nonce |-> lastNonce + 1]
  <2>3. next \in Envelope
    BY <2>2 DEF Envelope
  <2>4. /\ lastNonce' = lastNonce + 1
        /\ orchestrator' = [orchestrator EXCEPT !.pending = next]
        /\ UNCHANGED <<landed, inbox, config, applied, runners, pending, tasks, worker,
                       up, nonce, configFile, pendingFile, crashes>>
    BY <1>1 DEF Propose, memory, disk
  <2> HIDE DEF next
  <2>5. orchestrator' \in Message
    BY <2>3, <2>4 DEF TypeOK, Message
  <2> QED BY <2>2, <2>4, <2>5 DEF TypeOK, PendingGuarded
<1>2. CASE Land
  <2>1. orchestrator.pending.cfg \in Config
    BY <1>2 DEF Land, TypeOK, Message, Envelope
  <2> QED BY <1>2, <2>1 DEF Land, memory, disk, TypeOK, PendingGuarded
<1>3. CASE Promote
  <2>1. [current |-> orchestrator.pending, pending |-> None] \in Message
    BY <1>3 DEF Promote, TypeOK, Message
  <2> QED BY <1>3, <2>1 DEF Promote, memory, disk, TypeOK, PendingGuarded
<1>4. CASE Send
  <2>1. inbox' \in Seq(Message)
    BY <1>4, AppendShape DEF Send, TypeOK
  <2> QED BY <1>4, <2>1 DEF Send, outside, memory, disk, TypeOK, PendingGuarded
<1>5. CASE Handle
  <2>1. /\ inbox' \in Seq(Message)
        /\ UNCHANGED <<orchestrator, lastNonce, landed, applied, runners, worker, up,
                       crashes, configFile>>
    BY <1>5, HandleShape, HeadShape
  <2>2. Head(inbox).current.cfg \in Config /\ Head(inbox).pending \in Envelope \cup {None}
    BY <1>5, HeadShape, HandleShape
  <2>3. CASE /\ config' = Head(inbox).current.cfg
             /\ UNCHANGED <<pending, nonce, pendingFile>>
             /\ \E task \in Task : tasks' = Append(tasks, task)
    <3>1. tasks' \in Seq(Task)
      BY <2>3, AppendShape DEF TypeOK
    <3> QED BY <2>1, <2>2, <2>3, <3>1 DEF TypeOK, PendingGuarded
  <2>4. CASE /\ UNCHANGED <<config, tasks>>
             /\ HandlePending(Head(inbox).pending, config, nonce)
    <3>1. nonce \in [config : 1..MaxNonce, pending : 0..MaxNonce]
      BY DEF TypeOK
    <3>2. /\ nonce' \in [config : 1..MaxNonce, pending : 0..MaxNonce]
          /\ pending' \in Envelope \cup {None} /\ pendingFile' = pending'
          /\ PendingGuarded'
      BY <2>2, <2>4, <3>1, HandlePendingShape
    <3> QED BY <2>1, <2>4, <3>2 DEF TypeOK
  <2> QED BY <1>5, <2>3, <2>4, HandleShape
<1>6. ASSUME NEW i \in DOMAIN tasks, FinishSetConfig(i)
      PROVE  TypeOK' /\ PendingGuarded'
  <2>1. /\ UNCHANGED <<orchestrator, lastNonce, landed, inbox, config, up, crashes>>
        /\ tasks' = RemoveAt(tasks, i)
        /\ applied' = tasks[i].cfg /\ configFile' = tasks[i].cfg
        /\ nonce' \in [config : 1..MaxNonce, pending : 0..MaxNonce]
        /\ pending' \in Envelope \cup {None} /\ pendingFile' = pending'
        /\ PendingGuarded'
        /\ worker' = worker \/ worker' = IdleWorker
    BY <1>6, FinishShape
  <2>2. runners' \in [Contract -> {"none", "stopped", "live", "dead"}]
    <3>1. SetContracts(ContractsOf[tasks[i].cfg]) \in [Contract -> State]
      BY TaskAt, RunnersShape
    <3>2. Started(SetContracts(ContractsOf[tasks[i].cfg]), Contract) \in [Contract -> State]
      BY TaskAt, <3>1, RunnersShape
    <3> QED BY <1>6, <3>2 DEF FinishSetConfig, State
  <2>3. tasks' \in Seq(Task) /\ tasks[i].cfg \in Config
    BY <2>1, TaskAt, RemoveShape DEF TypeOK
  <2>4. IdleWorker \in [pc : {"idle", "submit", "apply"}, base : Config, cfg : Config]
    BY LimitAssumption DEF IdleWorker, Config
  <2> QED BY <2>1, <2>2, <2>3, <2>4 DEF TypeOK
<1>7. ASSUME NEW i \in DOMAIN tasks, SetConfigThrows(i)
      PROVE  TypeOK' /\ PendingGuarded'
  <2>1. runners' \in [Contract -> {"none", "stopped", "live", "dead"}]
    <3>1. SetContracts(ContractsOf[tasks[i].cfg]) \in [Contract -> State]
      BY TaskAt, RunnersShape
    <3>2. PICK first : runners' = Started(SetContracts(ContractsOf[tasks[i].cfg]), first)
      BY <1>7 DEF SetConfigThrows
    <3>3. Started(SetContracts(ContractsOf[tasks[i].cfg]), first) \in [Contract -> State]
      BY TaskAt, <3>1, RunnersShape
    <3> QED BY <3>2, <3>3 DEF State
  <2>2. tasks' \in Seq(Task) /\ tasks[i].cfg \in Config
    BY <1>7, TaskAt, RemoveShape DEF SetConfigThrows, TypeOK
  <2>3. IdleWorker \in [pc : {"idle", "submit", "apply"}, base : Config, cfg : Config]
    BY LimitAssumption DEF IdleWorker, Config
  <2> QED BY <1>7, <2>1, <2>2, <2>3 DEF SetConfigThrows, outside, disk, TypeOK, PendingGuarded
<1>8. ASSUME NEW c \in Contract, LoseRunner(c)
      PROVE  TypeOK' /\ PendingGuarded'
  BY <1>8 DEF LoseRunner, outside, disk, TypeOK, PendingGuarded
<1>9. CASE StartWorker
  <2>1. [pc |-> "submit", base |-> config, cfg |-> pending.cfg]
          \in [pc : {"idle", "submit", "apply"}, base : Config, cfg : Config]
    BY <1>9 DEF StartWorker, TypeOK, Envelope
  <2> QED BY <1>9, <2>1 DEF StartWorker, outside, disk, TypeOK, PendingGuarded
<1>10. CASE ApplyPendingUpdate
  <2>1. UNCHANGED <<orchestrator, lastNonce, landed, inbox, applied, runners, pending,
                    nonce, configFile, pendingFile, up, crashes>>
    BY <1>10, ApplyShape
  <2>2. CASE /\ pending # None /\ config' = pending.cfg
             /\ worker' = [worker EXCEPT !.pc = "apply"]
             /\ \E task \in Task : tasks' = Append(tasks, task)
    <3>1. tasks' \in Seq(Task)
      BY <2>2, AppendShape DEF TypeOK
    <3>2. worker' \in [pc : {"idle", "submit", "apply"}, base : Config, cfg : Config]
      BY <2>2 DEF TypeOK
    <3>3. pending.cfg \in Config
      BY <2>2 DEF TypeOK, Envelope
    <3> QED BY <2>1, <2>2, <3>1, <3>2, <3>3 DEF TypeOK, PendingGuarded
  <2>3. CASE UNCHANGED <<config, tasks>> /\ worker' = IdleWorker
    <3>1. IdleWorker \in [pc : {"idle", "submit", "apply"}, base : Config, cfg : Config]
      BY LimitAssumption DEF IdleWorker, Config
    <3> QED BY <2>1, <2>3, <3>1 DEF TypeOK, PendingGuarded
  <2> QED BY <1>10, <2>2, <2>3, ApplyShape
<1>11. CASE WorkerFails
  <2>1. IdleWorker \in [pc : {"idle", "submit", "apply"}, base : Config, cfg : Config]
    BY LimitAssumption DEF IdleWorker, Config
  <2> QED BY <1>11, <2>1 DEF WorkerFails, outside, disk, TypeOK, PendingGuarded
<1>12. CASE CrashStep
  <2>1. /\ UNCHANGED <<orchestrator, lastNonce, landed, pendingFile>>
        /\ tasks' = <<>> /\ inbox' = <<>> /\ worker' = IdleWorker
        /\ pending' = pending
        /\ config' = configFile' /\ applied' = configFile' /\ runners' = RunnersOf(configFile')
        /\ up' \in BOOLEAN /\ crashes' = crashes + 1
    BY <1>12, CrashShape
  <2>2. /\ configFile' \in Config
        /\ nonce' \in [config : 1..MaxNonce, pending : 0..MaxNonce]
        /\ nonce'.pending = nonce.pending
    <3>1. CASE UNCHANGED <<configFile, nonce>>
      BY <3>1 DEF TypeOK
    <3>2. ASSUME NEW i \in DOMAIN tasks,
                 configFile' = configFile \/ configFile' = tasks[i].cfg,
                 nonce' = [nonce EXCEPT !.config = tasks[i].nonce]
          PROVE  /\ configFile' \in Config
                 /\ nonce' \in [config : 1..MaxNonce, pending : 0..MaxNonce]
                 /\ nonce'.pending = nonce.pending
      BY <3>2, TaskAt DEF TypeOK
    <3> QED BY <1>12, <3>1, <3>2, CrashShape
  <2>3. IdleWorker \in [pc : {"idle", "submit", "apply"}, base : Config, cfg : Config]
    BY LimitAssumption DEF IdleWorker, Config
  <2>4. RunnersOf(configFile') \in [Contract -> {"none", "stopped", "live", "dead"}]
    BY <2>2, RunnersShape DEF State
  <2>5. tasks' \in Seq(Task) /\ inbox' \in Seq(Message)
    BY <2>1
  <2> QED BY <2>1, <2>2, <2>3, <2>4, <2>5 DEF TypeOK, PendingGuarded
<1>13. CASE UNCHANGED vars
  BY <1>13 DEF vars, TypeOK, PendingGuarded
<1> QED
  BY <1>1, <1>2, <1>3, <1>4, <1>5, <1>6, <1>7, <1>8, <1>9, <1>10, <1>11, <1>12, <1>13
  DEF Next, ClusterStep, WorkerStep

LEMMA TypeGuarded == Spec => [](TypeOK /\ PendingGuarded)
<1>1. Init => TypeOK /\ PendingGuarded
  <2> SUFFICES ASSUME Init PROVE TypeOK /\ PendingGuarded
    OBVIOUS
  <2>1. 0 \in Config /\ 1 \in 1..MaxNonce
    BY LimitAssumption DEF Config
  <2>2. [cfg |-> 0, nonce |-> 1] \in Envelope
    BY <2>1 DEF Envelope
  <2>3. orchestrator \in Message
    BY <2>2 DEF Init, Message
  <2>4. runners \in [Contract -> {"none", "stopped", "live", "dead"}]
    BY DEF Init, RunnersOf
  <2>5. IdleWorker \in [pc : {"idle", "submit", "apply"}, base : Config, cfg : Config]
    BY <2>1 DEF IdleWorker
  <2>6. nonce \in [config : 1..MaxNonce, pending : 0..MaxNonce]
    BY <2>1, LimitAssumption DEF Init
  <2>7. lastNonce \in 1..MaxNonce /\ landed \subseteq Config /\ inbox \in Seq(Message)
        /\ config \in Config /\ applied \in Config /\ configFile \in Config
        /\ tasks \in Seq(Task) /\ up \in BOOLEAN /\ crashes \in Nat
        /\ worker = IdleWorker /\ pending = None /\ pendingFile = None
    BY <2>1 DEF Init
  <2> QED BY <2>3, <2>4, <2>5, <2>6, <2>7 DEF TypeOK, PendingGuarded
<1> QED BY <1>1, TypeStep, PTL DEF Spec

(* The variables keep their types. *)
THEOREM TypeCorrect == Spec => []TypeOK
BY TypeGuarded, PTL

-----------------------------------------------------------------------------
(* Runners *)

(* A new call is the one that removes what its configuration leaves out. *)
LEMMA RunnersAtCall ==
  ASSUME TypeOK, RunnersOnTheirWay, OraclesDie,
         NEW task \in Task, tasks' = Append(tasks, task), task.cfg = config',
         runners' = runners
  PROVE  RunnersOnTheirWay' /\ OraclesDie'
<1>1. /\ Len(tasks) \in Nat /\ DOMAIN tasks = 1..Len(tasks)
      /\ DOMAIN tasks' = 1..Len(tasks) + 1
      /\ \A i \in 1..Len(tasks) : tasks'[i] = tasks[i]
      /\ tasks'[Len(tasks) + 1] = task
  <2>1. tasks \in Seq(Task)
    BY DEF TypeOK
  <2> QED BY <2>1, AppendShape
<1>2. ASSUME NEW c \in Oracle,
             runners[c] = "dead" \/ (runners[c] = "live" /\ c \notin ContractsOf[config'])
      PROVE  \E i \in DOMAIN tasks' : c \notin ContractsOf[tasks'[i].cfg]
  <2>1. CASE runners[c] = "dead"
    <3>1. PICK i \in DOMAIN tasks : c \notin ContractsOf[tasks[i].cfg]
      BY <2>1 DEF RunnersOnTheirWay
    <3>2. i \in DOMAIN tasks' /\ tasks'[i] = tasks[i]
      BY <1>1
    <3> QED BY <3>1, <3>2
  <2>2. CASE c \notin ContractsOf[config']
    <3>1. Len(tasks) + 1 \in DOMAIN tasks'
      BY <1>1
    <3> QED BY <1>1, <2>2, <3>1
  <2> QED BY <1>2, <2>1, <2>2
<1> QED BY <1>2 DEF RunnersOnTheirWay, OraclesDie

(* A call that ends, or throws while it starts the first runners, starts   *)
(* none that reads a configuration without its contract.                   *)
LEMMA RunnersAtEnd ==
  ASSUME TypeOK, RunnersOnTheirWay, OraclesDie, NEW i \in DOMAIN tasks,
         NEW known, known = SetContracts(ContractsOf[tasks[i].cfg]),
         NEW first, first \cap Unstartable(known) = {}, first \subseteq Contract,
         runners' = Started(known, first),
         tasks' = RemoveAt(tasks, i), config' = config
  PROVE  RunnersOnTheirWay' /\ OraclesDie'
<1>1. \A c \in Contract :
        runners'[c] = IF c \in first /\ known[c] = "stopped" THEN "live" ELSE known[c]
  BY DEF Started
<1>2. \A c \in Contract :
        /\ known[c] = "dead" => c \in ContractsOf[tasks[i].cfg] /\ runners[c] = "dead"
        /\ known[c] = "live" => c \in ContractsOf[tasks[i].cfg] /\ runners[c] = "live"
  BY DEF SetContracts
<1>3. ASSUME NEW c \in Oracle,
             runners'[c] = "dead" \/ (runners'[c] = "live" /\ c \notin ContractsOf[config])
      PROVE  \E j \in DOMAIN tasks' : c \notin ContractsOf[tasks'[j].cfg]
  <2>1. c \in Contract
    BY LimitAssumption
  <2>2. ~(c \in first /\ known[c] = "stopped" /\ c \notin ContractsOf[config])
    BY DEF Unstartable
  <2>3. known[c] = "dead" \/ (known[c] = "live" /\ c \notin ContractsOf[config])
    BY <1>1, <1>3, <2>1, <2>2
  <2>4. /\ c \in ContractsOf[tasks[i].cfg]
        /\ runners[c] = "dead" \/ (runners[c] = "live" /\ c \notin ContractsOf[config])
    BY <1>2, <2>1, <2>3
  <2>5. PICK k \in DOMAIN tasks : c \notin ContractsOf[tasks[k].cfg]
    BY <2>4 DEF RunnersOnTheirWay
  <2>6. k # i /\ tasks \in Seq(Task)
    BY <2>4, <2>5 DEF TypeOK
  <2>7. PICK j \in DOMAIN RemoveAt(tasks, i) : RemoveAt(tasks, i)[j] = tasks[k]
    BY <2>6, RemovedOthers
  <2> QED BY <2>5, <2>7
<1>4. ASSUME NEW c \in Contract \ Oracle
      PROVE  runners'[c] # "dead"
  BY <1>1, <1>2 DEF OraclesDie
<1> QED BY <1>3, <1>4 DEF RunnersOnTheirWay, OraclesDie

LEMMA RunnersStep ==
  ASSUME TypeOK, PendingGuarded, RunnersOnTheirWay, OraclesDie, [Next]_vars
  PROVE  RunnersOnTheirWay' /\ OraclesDie'
<1>1. ASSUME UNCHANGED <<config, tasks, runners>>
      PROVE  RunnersOnTheirWay' /\ OraclesDie'
  BY <1>1 DEF RunnersOnTheirWay, OraclesDie
<1>2. CASE ClusterStep \/ Send \/ StartWorker \/ WorkerFails \/ UNCHANGED vars
  <2>1. UNCHANGED <<config, tasks, runners>>
    BY <1>2 DEF ClusterStep, Propose, Land, Promote, Send, StartWorker, WorkerFails,
                memory, vars
  <2> QED BY <1>1, <2>1
<1>3. CASE Handle
  <2>1. runners' = runners
    BY <1>3 DEF Handle
  <2>2. ASSUME NEW task \in Task, tasks' = Append(tasks, task), task.cfg = config'
        PROVE  RunnersOnTheirWay' /\ OraclesDie'
    BY <2>1, <2>2, RunnersAtCall
  <2> QED BY <1>1, <1>3, <2>1, <2>2, HandleShape
<1>4. CASE ApplyPendingUpdate
  <2>1. runners' = runners
    BY <1>4 DEF ApplyPendingUpdate
  <2>2. ASSUME NEW task \in Task, tasks' = Append(tasks, task), task.cfg = config'
        PROVE  RunnersOnTheirWay' /\ OraclesDie'
    BY <2>1, <2>2, RunnersAtCall
  <2> QED BY <1>1, <1>4, <2>1, <2>2, ApplyShape
<1>5. ASSUME NEW i \in DOMAIN tasks, FinishSetConfig(i)
      PROVE  RunnersOnTheirWay' /\ OraclesDie'
  <2>1. PICK known : known = SetContracts(ContractsOf[tasks[i].cfg])
    OBVIOUS
  <2>2. /\ Unstartable(known) = {} /\ runners' = Started(known, Contract)
        /\ tasks' = RemoveAt(tasks, i) /\ config' = config
    BY <1>5, <2>1 DEF FinishSetConfig
  <2> QED BY <2>1, <2>2, RunnersAtEnd
<1>6. ASSUME NEW i \in DOMAIN tasks, SetConfigThrows(i)
      PROVE  RunnersOnTheirWay' /\ OraclesDie'
  <2>1. PICK known : known = SetContracts(ContractsOf[tasks[i].cfg])
    OBVIOUS
  <2>2. /\ \E first \in SUBSET (Contract \ Unstartable(known)) :
              runners' = Started(known, first)
        /\ tasks' = RemoveAt(tasks, i) /\ config' = config
    BY <1>6, <2>1 DEF SetConfigThrows
  <2>3. PICK first \in SUBSET (Contract \ Unstartable(known)) :
              runners' = Started(known, first)
    BY <2>2
  <2>4. first \cap Unstartable(known) = {} /\ first \subseteq Contract
    OBVIOUS
  <2> QED BY <2>1, <2>2, <2>3, <2>4, RunnersAtEnd
<1>7. ASSUME NEW d \in Contract, LoseRunner(d)
      PROVE  RunnersOnTheirWay' /\ OraclesDie'
  <2>1. /\ d \in Oracle /\ d \notin ContractsOf[config] /\ runners[d] = "live"
        /\ runners' = [runners EXCEPT ![d] = "dead"]
        /\ UNCHANGED <<config, tasks>>
    BY <1>7 DEF LoseRunner
  <2>2. \A c \in Contract : runners'[c] = IF c = d THEN "dead" ELSE runners[c]
    BY <2>1 DEF TypeOK
  <2>3. OraclesDie'
    BY <2>1, <2>2 DEF OraclesDie
  <2>4. RunnersOnTheirWay'
    <3> SUFFICES ASSUME NEW c \in Oracle,
                        \/ runners'[c] = "dead"
                        \/ runners'[c] = "live" /\ c \notin ContractsOf[config]
                 PROVE  \E i \in DOMAIN tasks : c \notin ContractsOf[tasks[i].cfg]
      BY <2>1 DEF RunnersOnTheirWay
    <3>1. \/ runners[c] = "dead"
          \/ runners[c] = "live" /\ c \notin ContractsOf[config]
      BY <2>1, <2>2, LimitAssumption
    <3> QED BY <3>1 DEF RunnersOnTheirWay
  <2> QED BY <2>3, <2>4
<1>8. CASE CrashStep
  <2>1. config' = configFile' /\ runners' = RunnersOf(configFile')
    BY <1>8, CrashShape
  <2>2. \A c \in Contract :
          runners'[c] = IF c \in ContractsOf[config'] THEN "live" ELSE "none"
    BY <2>1 DEF RunnersOf
  <2> QED BY <2>2, LimitAssumption DEF RunnersOnTheirWay, OraclesDie
<1> QED
  BY <1>2, <1>3, <1>4, <1>5, <1>6, <1>7, <1>8 DEF Next, WorkerStep

(* No runner stays behind counting as running although its loop ended: a    *)
(* call that takes it out of the manager has not resumed yet.  The runners  *)
(* that still run but read a configuration without their contract are as    *)
(* close to their end, so the invariant speaks of them too.                *)
THEOREM NoRunnerLostCorrect == Spec => []NoRunnerLost
<1>1. Init => RunnersOnTheirWay /\ OraclesDie
  BY LimitAssumption DEF Init, RunnersOf, RunnersOnTheirWay, OraclesDie
<1>2. RunnersOnTheirWay /\ OraclesDie => NoRunnerLost
  BY DEF RunnersOnTheirWay, OraclesDie, NoRunnerLost
<1>3. ASSUME TypeOK, PendingGuarded, RunnersOnTheirWay /\ OraclesDie, [Next]_vars
      PROVE  (RunnersOnTheirWay /\ OraclesDie)'
  BY <1>3, RunnersStep
<1> QED BY <1>1, <1>2, <1>3, TypeGuarded, PTL DEF Spec

-----------------------------------------------------------------------------
(* Envelopes *)

LEMMA EnvelopeShape ==
  ASSUME TypeOK
  PROVE  /\ Envelopes \subseteq Envelope
         /\ \A e \in Envelope : /\ e.cfg \in Nat /\ e.cfg <= MaxConfig
                                /\ e.nonce \in Nat /\ e.nonce >= 1
         /\ pending # None => pending \in Envelopes
         /\ orchestrator.current \in Envelopes
         /\ orchestrator.pending # None => orchestrator.pending \in Envelopes
         /\ \A i \in DOMAIN inbox :
               /\ inbox[i].current \in Envelopes
               /\ inbox[i].pending # None => inbox[i].pending \in Envelopes
         /\ \A i \in DOMAIN tasks : tasks[i].rest # None => tasks[i].rest \in Envelopes
         /\ Latest \in Nat
<1>1. /\ orchestrator.current \in Envelope
      /\ orchestrator.pending \in Envelope \cup {None}
      /\ pending \in Envelope \cup {None}
  BY DEF TypeOK, Message
<1>2. \A i \in DOMAIN inbox :
        inbox[i].current \in Envelope /\ inbox[i].pending \in Envelope \cup {None}
  <2>1. \A i \in DOMAIN inbox : inbox[i] \in Message
    BY DEF TypeOK
  <2> QED BY <2>1 DEF Message
<1>3. \A i \in DOMAIN tasks : tasks[i].rest \in Envelope \cup {None}
  BY TaskAt
<1>4. Envelopes \subseteq Envelope
  BY <1>1, <1>2, <1>3 DEF Envelopes
<1>5. \A e \in Envelope : /\ e.cfg \in Nat /\ e.cfg <= MaxConfig
                          /\ e.nonce \in Nat /\ e.nonce >= 1
  BY LimitAssumption DEF Envelope, Config
<1>6. Latest \in Nat
  BY <1>1, <1>5 DEF Latest
<1>7. /\ orchestrator.current # None
      /\ \A i \in DOMAIN inbox : inbox[i].current # None
  BY <1>1, <1>2, NoneAssumption
<1> QED BY <1>4, <1>5, <1>6, <1>7 DEF Envelopes

(* A call that begins, and one that ends, bring no envelope in.  *)
LEMMA EnvelopesKept ==
  ASSUME TypeOK, PendingGuarded, [Next]_vars, ~Propose
  PROVE  Envelopes' \subseteq Envelopes /\ lastNonce' = lastNonce
<1>1. ASSUME UNCHANGED <<orchestrator, lastNonce, pending, inbox, tasks>>
      PROVE  Envelopes' \subseteq Envelopes /\ lastNonce' = lastNonce
  BY <1>1 DEF Envelopes
<1>2. CASE StartWorker \/ WorkerFails \/ Land \/ UNCHANGED vars
           \/ \E c \in Contract : LoseRunner(c)
  <2>1. UNCHANGED <<orchestrator, lastNonce, pending, inbox, tasks>>
    BY <1>2 DEF StartWorker, WorkerFails, Land, LoseRunner, memory, outside, vars
  <2> QED BY <1>1, <2>1
<1>3. CASE Promote
  <2>1. /\ orchestrator'.current = orchestrator.pending /\ orchestrator'.pending = None
        /\ orchestrator.pending # None
        /\ UNCHANGED <<lastNonce, pending, inbox, tasks>>
    BY <1>3 DEF Promote, memory
  <2> QED BY <2>1 DEF Envelopes
<1>4. CASE Send
  <2>1. /\ inbox' = Append(inbox, orchestrator)
        /\ UNCHANGED <<orchestrator, lastNonce, pending, tasks>>
    BY <1>4 DEF Send, memory, outside
  <2>2. /\ DOMAIN inbox' = 1..Len(inbox) + 1 /\ DOMAIN inbox = 1..Len(inbox)
        /\ \A i \in 1..Len(inbox) : inbox'[i] = inbox[i]
        /\ inbox'[Len(inbox) + 1] = orchestrator /\ Len(inbox) \in Nat
    <3>1. inbox \in Seq(Message) /\ orchestrator \in Message
      BY DEF TypeOK
    <3> QED BY <2>1, <3>1, AppendShape
  <2>3. \A i \in DOMAIN inbox' :
          inbox'[i] = orchestrator \/ \E j \in DOMAIN inbox : inbox'[i] = inbox[j]
    BY <2>2
  <2> QED BY <2>1, <2>3 DEF Envelopes
<1>5. CASE Handle
  <2>1. PICK msg : msg = Head(inbox)
    OBVIOUS
  <2>2. /\ inbox # <<>> /\ inbox' = Tail(inbox)
        /\ UNCHANGED <<orchestrator, lastNonce>>
    BY <1>5, HandleShape
  <2>3. /\ 1 \in DOMAIN inbox /\ msg = inbox[1]
        /\ \A i \in DOMAIN inbox' : \E j \in DOMAIN inbox : inbox'[i] = inbox[j]
    <3>1. inbox \in Seq(Message)
      BY DEF TypeOK
    <3> QED BY <2>1, <2>2, <3>1, TailShape
  <2>4. /\ pending' \in {None, pending, msg.pending}
        /\ \A i \in DOMAIN tasks' :
              tasks'[i].rest = msg.pending \/ \E j \in DOMAIN tasks : tasks'[i] = tasks[j]
    <3>1. CASE /\ pending' = pending
               /\ \E task \in Task : tasks' = Append(tasks, task) /\ task.rest = msg.pending
      <4>1. PICK task \in Task : tasks' = Append(tasks, task) /\ task.rest = msg.pending
        BY <3>1
      <4>2. tasks \in Seq(Task)
        BY DEF TypeOK
      <4>3. /\ DOMAIN tasks = 1..Len(tasks) /\ DOMAIN tasks' = 1..Len(tasks) + 1
            /\ \A i \in 1..Len(tasks) : tasks'[i] = tasks[i]
            /\ tasks'[Len(tasks) + 1] = task /\ Len(tasks) \in Nat
        BY <4>1, <4>2, AppendShape
      <4> QED BY <3>1, <4>1, <4>3
    <3>2. CASE UNCHANGED tasks /\ HandlePending(msg.pending, config, nonce)
      <4>1. nonce \in [config : 1..MaxNonce, pending : 0..MaxNonce]
            /\ msg.pending \in Envelope \cup {None}
        BY <2>1, <2>2, HeadShape DEF TypeOK
      <4> QED BY <3>2, <4>1, HandlePendingShape
    <3> QED BY <1>5, <2>1, <3>1, <3>2, HandleShape
  <2> QED BY <2>2, <2>3, <2>4 DEF Envelopes
<1>6. ASSUME NEW i \in DOMAIN tasks, FinishSetConfig(i)
      PROVE  Envelopes' \subseteq Envelopes /\ lastNonce' = lastNonce
  <2>1. /\ UNCHANGED <<orchestrator, lastNonce, inbox>>
        /\ tasks' = RemoveAt(tasks, i)
        /\ pending' \in {None, pending, tasks[i].rest}
    BY <1>6, FinishShape
  <2>2. \A j \in DOMAIN tasks' : \E k \in DOMAIN tasks : tasks'[j] = tasks[k]
    <3>1. tasks \in Seq(Task)
      BY DEF TypeOK
    <3> QED BY <2>1, <3>1, RemovedOthers
  <2> QED BY <2>1, <2>2 DEF Envelopes
<1>7. ASSUME NEW i \in DOMAIN tasks, SetConfigThrows(i)
      PROVE  Envelopes' \subseteq Envelopes /\ lastNonce' = lastNonce
  <2>1. /\ UNCHANGED <<orchestrator, lastNonce, inbox, pending>>
        /\ tasks' = RemoveAt(tasks, i)
    BY <1>7 DEF SetConfigThrows, outside
  <2>2. \A j \in DOMAIN tasks' : \E k \in DOMAIN tasks : tasks'[j] = tasks[k]
    <3>1. tasks \in Seq(Task)
      BY DEF TypeOK
    <3> QED BY <2>1, <3>1, RemovedOthers
  <2> QED BY <2>1, <2>2 DEF Envelopes
<1>8. CASE ApplyPendingUpdate
  <2>1. UNCHANGED <<orchestrator, lastNonce, inbox, pending>>
    BY <1>8, ApplyShape
  <2>2. \A i \in DOMAIN tasks' :
          tasks'[i].rest = None \/ \E j \in DOMAIN tasks : tasks'[i] = tasks[j]
    <3>1. CASE \E task \in Task : tasks' = Append(tasks, task) /\ task.rest = None
      <4>1. PICK task \in Task : tasks' = Append(tasks, task) /\ task.rest = None
        BY <3>1
      <4>2. tasks \in Seq(Task)
        BY DEF TypeOK
      <4>3. /\ DOMAIN tasks = 1..Len(tasks) /\ DOMAIN tasks' = 1..Len(tasks) + 1
            /\ \A i \in 1..Len(tasks) : tasks'[i] = tasks[i]
            /\ tasks'[Len(tasks) + 1] = task /\ Len(tasks) \in Nat
        BY <4>1, <4>2, AppendShape
      <4> QED BY <4>1, <4>3
    <3> QED BY <1>8, <3>1, ApplyShape
  <2> QED BY <2>1, <2>2 DEF Envelopes
<1>9. CASE CrashStep
  <2>1. UNCHANGED <<orchestrator, lastNonce, pending>> /\ inbox' = <<>> /\ tasks' = <<>>
    BY <1>9, CrashShape
  <2>2. DOMAIN inbox' = {} /\ DOMAIN tasks' = {}
    BY <2>1
  <2> QED BY <2>1, <2>2 DEF Envelopes
<1> QED
  BY <1>2, <1>3, <1>4, <1>5, <1>6, <1>7, <1>8, <1>9 DEF Next, ClusterStep, WorkerStep

(* The operators sign the successor of what landed last. *)
LEMMA ProposeShape ==
  ASSUME TypeOK, OperatorsInOrder, Propose
  PROVE  /\ \E new \in Envelope :
               /\ new.nonce = lastNonce + 1 /\ new.cfg = Latest'
               /\ Envelopes' \subseteq Envelopes \cup {new}
         /\ orchestrator'.current = orchestrator.current
         /\ orchestrator'.pending # None
         /\ orchestrator'.pending.cfg = orchestrator.current.cfg + 1
         /\ Latest' = orchestrator.current.cfg + 1
         /\ Latest <= Latest' /\ (Latest \in landed \/ Latest = Latest')
         /\ lastNonce' = lastNonce + 1 /\ lastNonce \in Nat
<1> DEFINE new == [cfg |-> orchestrator.current.cfg + 1, nonce |-> lastNonce + 1]
<1>1. /\ lastNonce' = lastNonce + 1
      /\ orchestrator' = [orchestrator EXCEPT !.pending = new]
      /\ UNCHANGED <<inbox, pending, tasks>>
      /\ orchestrator.current.cfg + 1 <= MaxConfig /\ lastNonce < MaxNonce
  BY DEF Propose, memory
<1>2. /\ orchestrator.current \in Envelope /\ orchestrator.current.cfg \in Nat
      /\ lastNonce \in 1..MaxNonce /\ lastNonce \in Nat
  <2>1. orchestrator.current \in Envelope
    BY DEF TypeOK, Message
  <2> QED BY <2>1, EnvelopeShape, LimitAssumption DEF TypeOK
<1>3. new \in Envelope /\ new.nonce = lastNonce + 1
      /\ new.cfg = orchestrator.current.cfg + 1
  <2>1. orchestrator.current.cfg + 1 \in Config /\ lastNonce + 1 \in 1..MaxNonce
    BY <1>1, <1>2, LimitAssumption DEF Config
  <2> QED BY <2>1 DEF Envelope
<1> HIDE DEF new
<1>4. orchestrator'.current = orchestrator.current /\ orchestrator'.pending = new
  BY <1>1 DEF TypeOK, Message
<1>5. Envelopes' \subseteq Envelopes \cup {new}
  BY <1>1, <1>4 DEF Envelopes
<1>6. new # None
  BY <1>3, NoneAssumption
<1>7. Latest' = orchestrator.current.cfg + 1
  BY <1>3, <1>4, <1>6 DEF Latest
<1>8. Latest <= Latest' /\ (Latest \in landed \/ Latest = Latest')
  BY <1>2, <1>7 DEF Latest, OperatorsInOrder
<1> QED BY <1>1, <1>2, <1>3, <1>4, <1>5, <1>6, <1>7, <1>8

LEMMA OperatorsStep ==
  ASSUME TypeOK, OperatorsInOrder, [Next]_vars
  PROVE  OperatorsInOrder' /\ landed \subseteq landed' /\ (~Propose => Latest' = Latest)
<1>1. CASE Propose
  <2>1. \A k \in landed : k \in Int /\ k <= Latest
    BY LimitAssumption DEF OperatorsInOrder, TypeOK, Config
  <2>2. Latest \in Int /\ Latest' \in Int /\ Latest <= Latest'
    <3>1. Latest \in Nat /\ orchestrator.current.cfg \in Nat
      BY EnvelopeShape DEF TypeOK, Message
    <3> QED BY <1>1, <3>1, ProposeShape
  <2>3. \A k \in landed : k <= Latest'
    BY <2>1, <2>2
  <2>4. landed' = landed
    BY <1>1 DEF Propose
  <2>5. /\ orchestrator'.pending.cfg = orchestrator'.current.cfg + 1
        /\ orchestrator'.current.cfg \in landed
    BY <1>1, ProposeShape DEF OperatorsInOrder
  <2>6. \A k \in landed' : k <= Latest'
    BY <2>3, <2>4
  <2> QED BY <1>1, <2>4, <2>5, <2>6 DEF OperatorsInOrder
<1>2. CASE Land
  <2>1. /\ landed' = landed \cup {Latest} /\ orchestrator' = orchestrator
    BY <1>2 DEF Land, Latest
  <2>2. Latest' = Latest /\ Latest \in Nat
    BY <2>1, EnvelopeShape DEF Latest
  <2>3. \A k \in landed' : k <= Latest'
    BY <2>1, <2>2 DEF OperatorsInOrder
  <2>4. (orchestrator.pending # None =>
           orchestrator.pending.cfg = orchestrator.current.cfg + 1)'
        /\ (orchestrator.current.cfg \in landed)'
    BY <2>1 DEF OperatorsInOrder
  <2> QED BY <2>1, <2>2, <2>3, <2>4 DEF OperatorsInOrder
<1>3. CASE Promote
  <2>1. /\ orchestrator'.current = orchestrator.pending /\ orchestrator'.pending = None
        /\ orchestrator.pending # None /\ orchestrator.pending.cfg \in landed
        /\ landed' = landed
    BY <1>3 DEF Promote
  <2>2. Latest' = Latest
    BY <2>1 DEF Latest
  <2> QED BY <1>3, <2>1, <2>2 DEF OperatorsInOrder, Promote, Propose
<1>4. CASE ~(ClusterStep)
  <2>1. orchestrator' = orchestrator /\ landed' = landed
    BY <1>4, CrashUnchanged
    DEF Next, Send, Handle, FinishSetConfig, SetConfigThrows, LoseRunner, WorkerStep,
        StartWorker, ApplyPendingUpdate, WorkerFails, outside, vars
  <2>2. Latest' = Latest
    BY <2>1 DEF Latest
  <2> QED BY <2>1, <2>2 DEF OperatorsInOrder
<1> QED BY <1>1, <1>2, <1>3, <1>4 DEF ClusterStep

LEMMA SignedStep ==
  ASSUME TypeOK, PendingGuarded, OperatorsInOrder, SignedInOrder, [Next]_vars
  PROVE  SignedInOrder'
<1>1. /\ landed \subseteq landed'
      /\ \A k \in landed : k \in Int /\ k <= Latest
      /\ lastNonce \in Int /\ Latest \in Int
      /\ Envelopes \subseteq Envelope
      /\ \A e \in Envelope : e.cfg \in Int /\ e.nonce \in Int
  <2>1. lastNonce \in Int /\ \A k \in landed : k \in Int
    BY LimitAssumption DEF TypeOK, Config
  <2> QED BY <2>1, EnvelopeShape, OperatorsStep DEF OperatorsInOrder
<1>2. CASE Propose
  <2>1. PICK new \in Envelope :
              /\ new.nonce = lastNonce + 1 /\ new.cfg = Latest'
              /\ Envelopes' \subseteq Envelopes \cup {new}
    BY <1>2, ProposeShape
  <2>2. /\ lastNonce' = lastNonce + 1 /\ Latest <= Latest'
        /\ Latest \in landed \/ Latest = Latest'
    BY <1>2, ProposeShape
  <2>3. Latest' \in Int
    BY <1>1, <2>1
  <2>4. \A e \in Envelopes : /\ e.nonce <= lastNonce /\ e.cfg <= Latest'
                             /\ e.cfg \in landed' \/ e.cfg = Latest'
    <3> SUFFICES ASSUME NEW e \in Envelopes
                 PROVE  /\ e.nonce <= lastNonce /\ e.cfg <= Latest'
                        /\ e.cfg \in landed' \/ e.cfg = Latest'
      OBVIOUS
    <3>1. e.nonce <= lastNonce /\ (e.cfg \in landed \/ e.cfg = Latest) /\ e.cfg \in Int
      BY <1>1 DEF SignedInOrder
    <3>2. e.cfg <= Latest
      BY <1>1, <3>1
    <3> QED BY <1>1, <2>2, <2>3, <3>1, <3>2
  <2>5. \A e \in Envelopes' : /\ e.nonce <= lastNonce'
                              /\ e.cfg \in landed' \/ e.cfg = Latest'
    BY <1>1, <2>1, <2>2, <2>4
  <2>6. \A e, f \in Envelopes' : e.nonce <= f.nonce => e.cfg <= f.cfg
    <3> SUFFICES ASSUME NEW e \in Envelopes', NEW f \in Envelopes', e.nonce <= f.nonce
                 PROVE  e.cfg <= f.cfg
      OBVIOUS
    <3>1. CASE e \in Envelopes /\ f \in Envelopes
      BY <3>1 DEF SignedInOrder
    <3>2. CASE f = new
      BY <1>1, <2>1, <2>3, <2>4, <3>2
    <3>3. CASE e = new /\ f \in Envelopes
      BY <1>1, <2>1, <2>4, <3>3
    <3> QED BY <2>1, <3>1, <3>2, <3>3
  <2> QED BY <2>5, <2>6 DEF SignedInOrder
<1>3. CASE ~Propose
  <2>1. Envelopes' \subseteq Envelopes /\ lastNonce' = lastNonce /\ Latest' = Latest
    BY <1>3, EnvelopesKept, OperatorsStep
  <2> QED BY <1>1, <2>1 DEF SignedInOrder
<1> QED BY <1>2, <1>3

(* What a call is of comes from the message, or from the update that landed. *)
LEMMA KnownAtCall ==
  ASSUME TypeOK, KnownLanded, NEW task \in Task, tasks' = Append(tasks, task),
         task.cfg \in landed'
  PROVE  \A i \in DOMAIN tasks' : tasks'[i].cfg \in landed' \cup landed
<1>1. tasks \in Seq(Task)
  BY DEF TypeOK
<1>2. /\ DOMAIN tasks = 1..Len(tasks) /\ DOMAIN tasks' = 1..Len(tasks) + 1
      /\ \A i \in 1..Len(tasks) : tasks'[i] = tasks[i]
      /\ tasks'[Len(tasks) + 1] = task /\ Len(tasks) \in Nat
  BY <1>1, AppendShape
<1> QED BY <1>2 DEF KnownLanded

LEMMA KnownStep ==
  ASSUME TypeOK, PendingGuarded, OperatorsInOrder, KnownLanded, WorkerIsLatest,
         [Next]_vars
  PROVE  KnownLanded'
<1>1. landed \subseteq landed'
  BY OperatorsStep
<1>2. ASSUME UNCHANGED <<inbox, tasks, config, applied, configFile>>
      PROVE  KnownLanded'
  BY <1>1, <1>2 DEF KnownLanded, InForceLanded
<1>3. CASE ClusterStep \/ StartWorker \/ WorkerFails \/ UNCHANGED vars
           \/ \E c \in Contract : LoseRunner(c)
  <2>1. UNCHANGED <<inbox, tasks, config, applied, configFile>>
    BY <1>3 DEF ClusterStep, Propose, Land, Promote, StartWorker, WorkerFails, LoseRunner,
                memory, disk, vars
  <2> QED BY <1>2, <2>1
<1>4. CASE Send
  <2>1. /\ inbox' = Append(inbox, orchestrator)
        /\ UNCHANGED <<tasks, config, applied, configFile>>
    BY <1>4 DEF Send, memory, disk
  <2>2. /\ DOMAIN inbox' = 1..Len(inbox) + 1 /\ DOMAIN inbox = 1..Len(inbox)
        /\ \A i \in 1..Len(inbox) : inbox'[i] = inbox[i]
        /\ inbox'[Len(inbox) + 1] = orchestrator /\ Len(inbox) \in Nat
    <3>1. inbox \in Seq(Message) /\ orchestrator \in Message
      BY DEF TypeOK
    <3> QED BY <2>1, <3>1, AppendShape
  <2>3. \A i \in DOMAIN inbox' : inbox'[i].current.cfg \in landed
    BY <2>2 DEF KnownLanded, OperatorsInOrder
  <2> QED BY <1>1, <2>1, <2>3 DEF KnownLanded, InForceLanded
<1>5. CASE Handle
  <2>1. /\ inbox # <<>> /\ inbox' = Tail(inbox)
        /\ UNCHANGED <<landed, applied, configFile>>
    BY <1>5, HandleShape
  <2>2. /\ 1 \in DOMAIN inbox /\ Head(inbox) = inbox[1]
        /\ \A i \in DOMAIN inbox' : \E j \in DOMAIN inbox : inbox'[i] = inbox[j]
    <3>1. inbox \in Seq(Message)
      BY DEF TypeOK
    <3> QED BY <2>1, <3>1, TailShape
  <2>3. /\ Head(inbox).current.cfg \in landed
        /\ \A i \in DOMAIN inbox' : inbox'[i].current.cfg \in landed
    BY <2>2 DEF KnownLanded
  <2>4. /\ config' \in landed
        /\ \A i \in DOMAIN tasks' : tasks'[i].cfg \in landed
    <3>1. CASE UNCHANGED <<config, tasks>>
      BY <3>1 DEF KnownLanded, InForceLanded
    <3>2. ASSUME NEW task \in Task, tasks' = Append(tasks, task),
                 task.cfg = Head(inbox).current.cfg, config' = Head(inbox).current.cfg
          PROVE  /\ config' \in landed
                 /\ \A i \in DOMAIN tasks' : tasks'[i].cfg \in landed
      BY <2>1, <2>3, <3>2, KnownAtCall
    <3> QED BY <1>5, <3>1, <3>2, HandleShape
  <2> QED BY <2>1, <2>3, <2>4 DEF KnownLanded, InForceLanded
<1>6. ASSUME NEW i \in DOMAIN tasks, FinishSetConfig(i) \/ SetConfigThrows(i)
      PROVE  KnownLanded'
  <2>1. /\ UNCHANGED <<inbox, config>>
        /\ tasks' = RemoveAt(tasks, i)
        /\ applied' = tasks[i].cfg /\ configFile' \in {configFile, tasks[i].cfg}
    BY <1>6 DEF FinishSetConfig, SetConfigThrows, outside, disk
  <2>2. \A j \in DOMAIN tasks' : \E k \in DOMAIN tasks : tasks'[j] = tasks[k]
    <3>1. tasks \in Seq(Task)
      BY DEF TypeOK
    <3> QED BY <2>1, <3>1, RemovedOthers
  <2> QED BY <1>1, <2>1, <2>2 DEF KnownLanded, InForceLanded
<1>7. CASE ApplyPendingUpdate
  <2>1. UNCHANGED <<landed, inbox, applied, configFile>>
        /\ worker.pc = "submit" /\ worker.cfg \in landed
    BY <1>7, ApplyShape
  <2>2. /\ config' \in landed
        /\ \A i \in DOMAIN tasks' : tasks'[i].cfg \in landed
    <3>1. CASE UNCHANGED <<config, tasks>>
      BY <3>1 DEF KnownLanded, InForceLanded
    <3>2. ASSUME pending # None,
                 NEW task \in Task, tasks' = Append(tasks, task),
                 task.cfg = pending.cfg, config' = pending.cfg
          PROVE  /\ config' \in landed
                 /\ \A i \in DOMAIN tasks' : tasks'[i].cfg \in landed
      <4>1. pending.cfg = worker.cfg
        BY <2>1, <3>2 DEF WorkerIsLatest
      <4> QED BY <2>1, <3>2, <4>1, KnownAtCall
    <3> QED BY <1>7, <3>1, <3>2, ApplyShape
  <2> QED BY <2>1, <2>2 DEF KnownLanded, InForceLanded
<1>8. CASE CrashStep
  <2>1. inbox' = <<>> /\ tasks' = <<>> /\ config' = configFile' /\ applied' = configFile'
    BY <1>8, CrashShape
  <2>2. configFile' = configFile \/ \E i \in DOMAIN tasks : configFile' = tasks[i].cfg
    BY <1>8, CrashShape
  <2>3. configFile' \in landed
    BY <2>2 DEF KnownLanded, InForceLanded
  <2>4. DOMAIN inbox' = {} /\ DOMAIN tasks' = {}
    BY <2>1
  <2> QED BY <1>1, <2>1, <2>3, <2>4 DEF KnownLanded, InForceLanded
<1> QED BY <1>3, <1>4, <1>5, <1>6, <1>7, <1>8 DEF Next, WorkerStep

LEMMA WorkerStays ==
  ASSUME TypeOK, PendingGuarded, OperatorsInOrder, WorkerIsLatest, [Next]_vars, ~Propose,
         worker' = worker, nonce'.pending >= nonce.pending, nonce'.pending \in Int,
         worker.pc = "submit" /\ pending' # None => pending'.cfg = worker.cfg
  PROVE  WorkerIsLatest'
<1>1. Envelopes' \subseteq Envelopes /\ Latest' = Latest
  BY EnvelopesKept, OperatorsStep
<1>2. nonce.pending \in Int /\ \A e \in Envelopes : e.nonce \in Int
  BY EnvelopeShape DEF TypeOK
<1> QED BY <1>1, <1>2 DEF WorkerIsLatest

LEMMA WorkerTakes ==
  ASSUME TypeOK, OperatorsInOrder, SignedInOrder, WorkerIsLatest,
         NEW e \in Envelopes, e.nonce >= nonce.pending, worker.pc # "idle"
  PROVE  e.cfg = worker.cfg
<1>1. e.cfg \in Int /\ Latest \in Int /\ worker.cfg = Latest /\ e.cfg >= Latest
  BY EnvelopeShape DEF WorkerIsLatest
<1>2. e.cfg <= Latest
  BY <1>1 DEF SignedInOrder, OperatorsInOrder
<1> QED BY <1>1, <1>2

LEMMA WorkerIsLatestStep ==
  ASSUME TypeOK, Inv, [Next]_vars, ~Hasty
  PROVE  WorkerIsLatest'
<1> USE DEF Inv
<1>1. ASSUME worker'.pc = "idle" PROVE WorkerIsLatest'
  BY <1>1 DEF WorkerIsLatest
<1>2. CASE Propose \/ WorkerFails \/ CrashStep
  <2>1. worker'.pc = "idle"
    BY <1>2, CrashShape DEF Propose, memory, WorkerFails, IdleWorker
  <2> QED BY <1>1, <2>1
<1>3. ASSUME ~Propose, UNCHANGED <<worker, pending, nonce>>
      PROVE  WorkerIsLatest'
  <2>1. nonce.pending \in Int
    BY DEF TypeOK
  <2> QED BY <1>3, <2>1, WorkerStays DEF WorkerIsLatest
<1>4. CASE ~Propose /\ (Land \/ Promote \/ Send \/ UNCHANGED vars
                        \/ \E c \in Contract : LoseRunner(c))
  <2>1. UNCHANGED <<worker, pending, nonce>>
    BY <1>4 DEF Land, Promote, Send, LoseRunner, memory, disk, vars
  <2> QED BY <1>3, <1>4, <2>1
<1>5. ASSUME ~Propose, worker' = worker, nonce'.pending >= nonce.pending,
             nonce'.pending \in Int,
             NEW e \in Envelope \cup {None}, e # None => e \in Envelopes,
             \/ pending' = None \/ pending' = pending
             \/ pending' = e /\ e # None /\ e.nonce >= nonce.pending
      PROVE  WorkerIsLatest'
  <2>1. ASSUME worker.pc = "submit", pending' # None
        PROVE  pending'.cfg = worker.cfg
    <3>1. CASE pending' = pending
      BY <2>1, <3>1 DEF WorkerIsLatest
    <3>2. CASE pending' = e /\ e # None /\ e.nonce >= nonce.pending
      BY <1>5, <2>1, <3>2, WorkerTakes
    <3> QED BY <1>5, <2>1, <3>1, <3>2
  <2> QED BY <1>5, <2>1, WorkerStays
<1>6. CASE Handle /\ ~Propose
  <2>1. PICK e : e = Head(inbox).pending
    OBVIOUS
  <2>2. inbox # <<>> /\ worker' = worker
    BY <1>6, HandleShape
  <2>3. e \in Envelope \cup {None}
    BY <2>1, <2>2, HeadShape
  <2>4. 1 \in DOMAIN inbox /\ Head(inbox) = inbox[1]
    BY <2>2, TailShape DEF TypeOK
  <2>5. e # None => e \in Envelopes
    BY <2>1, <2>4, EnvelopeShape
  <2>6. CASE UNCHANGED <<pending, nonce>>
    BY <1>3, <1>6, <2>2, <2>6
  <2>7. CASE HandlePending(e, config, nonce)
    <3>1. nonce \in [config : 1..MaxNonce, pending : 0..MaxNonce]
      BY DEF TypeOK
    <3>2. /\ nonce' \in [config : 1..MaxNonce, pending : 0..MaxNonce]
          /\ nonce'.pending >= nonce.pending
          /\ \/ pending' = None \/ pending' = pending
             \/ pending' = e /\ e # None /\ e.nonce >= nonce.pending
      BY <2>3, <2>7, <3>1, HandlePendingShape
    <3>3. nonce'.pending \in Int
      BY <3>2
    <3> QED BY <1>5, <1>6, <2>2, <2>3, <2>5, <3>2, <3>3
  <2> QED BY <1>6, <2>1, <2>6, <2>7, HandleShape
<1>7. ASSUME NEW i \in DOMAIN tasks, FinishSetConfig(i), ~Propose
      PROVE  WorkerIsLatest'
  <2>1. PICK e : e = tasks[i].rest
    OBVIOUS
  <2>2. e \in Envelope \cup {None} /\ (e # None => e \in Envelopes)
    BY <2>1, TaskAt, EnvelopeShape
  <2>3. /\ nonce' \in [config : 1..MaxNonce, pending : 0..MaxNonce]
        /\ nonce'.pending >= nonce.pending
        /\ worker' = worker \/ worker' = IdleWorker
        /\ \/ pending' = None \/ pending' = pending
           \/ pending' = e /\ e # None /\ e.nonce >= nonce.pending
    BY <1>7, <2>1, FinishShape
  <2>4. nonce'.pending \in Int
    BY <2>3
  <2>5. CASE worker' = IdleWorker
    BY <1>1, <2>5 DEF IdleWorker
  <2>6. CASE worker' = worker
    BY <1>5, <1>7, <2>2, <2>3, <2>4, <2>6
  <2> QED BY <2>3, <2>5, <2>6
<1>8. ASSUME NEW i \in DOMAIN tasks, SetConfigThrows(i), ~Propose
      PROVE  WorkerIsLatest'
  <2>1. UNCHANGED <<pending, nonce>> /\ worker' \in {worker, IdleWorker}
    BY <1>8 DEF SetConfigThrows, disk
  <2>2. CASE worker' = IdleWorker
    BY <1>1, <2>2 DEF IdleWorker
  <2> QED BY <1>3, <1>8, <2>1, <2>2
<1>9. CASE StartWorker /\ ~Propose
  <2>1. /\ pending # None /\ pending.cfg = Latest
        /\ worker' = [pc |-> "submit", base |-> config, cfg |-> pending.cfg]
        /\ UNCHANGED <<pending, nonce>>
    BY <1>9 DEF StartWorker, disk
  <2>2. Envelopes' \subseteq Envelopes /\ Latest' = Latest
    BY <1>9, EnvelopesKept, OperatorsStep
  <2>3. worker'.pc = "submit" /\ worker'.cfg = pending.cfg
    BY <2>1
  <2>4. pending \in Envelopes /\ pending.nonce <= nonce.pending
    BY <2>1, EnvelopeShape DEF PendingGuarded
  <2>5. nonce.pending \in Int /\ \A e \in Envelopes : e.nonce \in Int /\ e.cfg \in Int
    BY EnvelopeShape DEF TypeOK
  <2>6. \A e \in Envelopes : e.nonce >= nonce.pending => e.cfg >= pending.cfg
    <3> SUFFICES ASSUME NEW e \in Envelopes, e.nonce >= nonce.pending
                 PROVE  e.cfg >= pending.cfg
      OBVIOUS
    <3>1. pending.nonce <= e.nonce
      BY <2>4, <2>5
    <3>2. pending.cfg <= e.cfg
      BY <2>4, <3>1 DEF SignedInOrder
    <3> QED BY <2>4, <2>5, <3>2
  <2> QED BY <2>1, <2>2, <2>3, <2>6 DEF WorkerIsLatest
<1>10. CASE ApplyPendingUpdate /\ ~Propose
  <2>1. UNCHANGED <<pending, nonce>> /\ worker.pc = "submit"
    BY <1>10, ApplyShape
  <2>2. CASE worker' = IdleWorker
    BY <1>1, <2>2 DEF IdleWorker
  <2>3. CASE worker' = [worker EXCEPT !.pc = "apply"]
    <3>1. worker'.pc = "apply" /\ worker'.cfg = worker.cfg
      BY <2>3 DEF TypeOK
    <3>2. Envelopes' \subseteq Envelopes /\ Latest' = Latest
      BY <1>10, EnvelopesKept, OperatorsStep
    <3> QED BY <2>1, <3>1, <3>2 DEF WorkerIsLatest
  <2> QED BY <1>10, <2>2, <2>3, ApplyShape
<1> QED
  BY <1>2, <1>4, <1>6, <1>7, <1>8, <1>9, <1>10 DEF Next, ClusterStep, WorkerStep

LEMMA InvCorrect == ASSUME ~Hasty PROVE Spec => [](TypeOK /\ Inv)
<1>1. Init => Inv
  <2> SUFFICES ASSUME Init PROVE Inv
    OBVIOUS
  <2>1. PICK first : first = [cfg |-> 0, nonce |-> 1]
    OBVIOUS
  <2>2. /\ orchestrator = [current |-> first, pending |-> None] /\ pending = None
        /\ pendingFile = None /\ worker.pc = "idle" /\ landed = {0}
        /\ config = 0 /\ applied = 0 /\ configFile = 0
        /\ DOMAIN inbox = {} /\ DOMAIN tasks = {} /\ lastNonce = 1
    BY <2>1 DEF Init, IdleWorker
  <2>3. Envelopes \subseteq {first} /\ Latest = 0
    BY <2>1, <2>2 DEF Envelopes, Latest
  <2>4. OperatorsInOrder
    BY <2>1, <2>2, <2>3 DEF OperatorsInOrder
  <2>5. SignedInOrder
    BY <2>1, <2>2, <2>3 DEF SignedInOrder
  <2>6. KnownLanded /\ PendingGuarded /\ WorkerIsLatest
    BY <2>2 DEF KnownLanded, InForceLanded, PendingGuarded, WorkerIsLatest
  <2> QED BY <2>4, <2>5, <2>6 DEF Inv
<1>2. ASSUME TypeOK, Inv, [Next]_vars PROVE Inv'
  <2>1. PendingGuarded'
    BY <1>2, TypeStep DEF Inv
  <2>2. OperatorsInOrder'
    BY <1>2, OperatorsStep DEF Inv
  <2>3. SignedInOrder'
    BY <1>2, SignedStep DEF Inv
  <2>4. KnownLanded'
    BY <1>2, KnownStep DEF Inv
  <2>5. WorkerIsLatest'
    BY <1>2, WorkerIsLatestStep
  <2> QED BY <2>1, <2>2, <2>3, <2>4, <2>5 DEF Inv
<1> QED BY <1>1, <1>2, TypeCorrect, PTL DEF Spec

(* A configuration is in force, or comes back after a restart, only after   *)
(* its update landed: while the rounds of the cluster runner are of the     *)
(* latest update, it applies no other one than the one that concluded.      *)
THEOREM InForceLandedCorrect == ASSUME ~Hasty PROVE Spec => []InForceLanded
<1>1. Inv => InForceLanded
  BY DEF Inv, KnownLanded
<1> QED BY <1>1, InvCorrect, PTL

-----------------------------------------------------------------------------
(* The stored configuration *)

(* The numbers that the steps below compare *)
LEMMA Numbers ==
  ASSUME TypeOK
  PROVE  /\ configFile \in Nat /\ nonce.config \in Nat /\ nonce.pending \in Nat
         /\ \A i \in DOMAIN tasks : tasks[i].cfg \in Nat /\ tasks[i].nonce \in Nat
         /\ \A e \in Envelopes : e.cfg \in Nat /\ e.nonce \in Nat
         /\ \A k \in landed : k \in Nat
<1>1. \A i \in DOMAIN tasks : tasks[i].cfg \in Nat /\ tasks[i].nonce \in Nat
  BY TaskAt, LimitAssumption DEF Config
<1>2. /\ configFile \in Nat /\ nonce.config \in Nat /\ nonce.pending \in Nat
      /\ \A k \in landed : k \in Nat
  BY LimitAssumption DEF TypeOK, Config
<1> QED BY <1>1, <1>2, EnvelopeShape

(* A call that begins is of an envelope e that is not older than the file *)
LEMMA CallInOrder ==
  ASSUME TypeOK, Inv, NoncesGuard, TasksInOrder,
         Envelopes' \subseteq Envelopes,
         NEW e \in Envelopes, e.cfg >= configFile,
         NEW task \in Task, tasks' = Append(tasks, task),
         task.cfg = e.cfg, task.nonce >= e.nonce, Runs, Len(tasks) < MaxTasks,
         configFile' = configFile, nonce'.config = nonce.config
  PROVE  NoncesGuard' /\ TasksInOrder'
<1>1. /\ DOMAIN tasks = 1..Len(tasks) /\ DOMAIN tasks' = 1..Len(tasks) + 1
      /\ \A i \in 1..Len(tasks) : tasks'[i] = tasks[i]
      /\ tasks'[Len(tasks) + 1] = task /\ Len(tasks) \in Nat
      /\ Len(tasks') = Len(tasks) + 1
  <2>1. tasks \in Seq(Task)
    BY DEF TypeOK
  <2> QED BY <2>1, AppendShape
<1>2. task.nonce \in Nat /\ task.cfg \in Nat /\ e.nonce \in Nat
  BY Numbers, LimitAssumption DEF Task, Config
<1>3. \A i \in DOMAIN tasks : tasks[i].cfg \in Secret
  BY DEF Runs, IsAwaited
<1>4. \A f \in Envelopes : f.nonce >= task.nonce => f.cfg >= task.cfg
  <2> SUFFICES ASSUME NEW f \in Envelopes, f.nonce >= task.nonce
               PROVE  f.cfg >= task.cfg
    OBVIOUS
  <2>1. e.nonce <= f.nonce /\ f.cfg \in Nat
    BY <1>2, Numbers
  <2>2. e.cfg <= f.cfg
    BY <2>1 DEF Inv, SignedInOrder
  <2> QED BY <1>2, <2>1, <2>2
<1>5. NoncesGuard'
  <2>1. \A f \in Envelopes' : f.nonce >= nonce'.config => f.cfg >= configFile'
    BY DEF NoncesGuard
  <2>2. \A f \in Envelopes' : \A i \in DOMAIN tasks' :
          f.nonce >= tasks'[i].nonce => f.cfg >= tasks'[i].cfg
    BY <1>1, <1>4 DEF NoncesGuard
  <2> QED BY <2>1, <2>2 DEF NoncesGuard
<1>6. TasksInOrder'
  <2>1. \A i \in DOMAIN tasks' : tasks'[i].cfg >= configFile'
    BY <1>1 DEF TasksInOrder
  <2>2. \A i, j \in DOMAIN tasks' :
          i # j => tasks'[i].cfg \in Secret \/ tasks'[j].cfg \in Secret
    BY <1>1, <1>3
  <2>3. Len(tasks') <= MaxTasks
    BY <1>1, LimitAssumption
  <2> QED BY <2>1, <2>2, <2>3 DEF TasksInOrder
<1> QED BY <1>5, <1>6

(* The calls that are left when the i-th resumes are not of an older        *)
(* configuration.                                                          *)
LEMMA OthersAreLater ==
  ASSUME TypeOK, TasksInOrder, ImportsEndInOrder, NEW i \in DOMAIN tasks, Resumes(i)
  PROVE  \A j \in DOMAIN tasks : j # i => tasks[j].cfg >= tasks[i].cfg
<1> SUFFICES ASSUME NEW j \in DOMAIN tasks, j # i
             PROVE  tasks[j].cfg >= tasks[i].cfg
  OBVIOUS
<1>1. tasks \in Seq(Task) /\ Len(tasks) \in Nat /\ i \in 1..Len(tasks) /\ j \in 1..Len(tasks)
  BY DEF TypeOK
<1>2. ~(MaxTasks <= 1)
  BY <1>1, LimitAssumption DEF TasksInOrder
<1>3. Secret \subseteq {MaxConfig}
  BY <1>2 DEF ImportsEndInOrder
<1>4. tasks[j].cfg \in Secret
  <2>1. CASE tasks[i].cfg \in Secret
    BY <2>1 DEF Resumes, IsAwaited
  <2> QED BY <2>1 DEF TasksInOrder
<1>5. tasks[j].cfg = MaxConfig
  BY <1>3, <1>4
<1> QED BY <1>5, TaskAt, LimitAssumption DEF Config

LEMMA OrderStep ==
  ASSUME TypeOK, Inv, NoncesGuard, TasksInOrder, ImportsEndInOrder, ~Hasty, TypeOK',
         [Next]_vars
  PROVE  NoncesGuard' /\ TasksInOrder' /\ configFile' >= configFile
<1> USE DEF Inv
<1>0. configFile \in Nat /\ configFile' = configFile => configFile' >= configFile
  OBVIOUS
<1>1. ASSUME UNCHANGED <<configFile, tasks, nonce>>, Envelopes' \subseteq Envelopes
      PROVE  NoncesGuard' /\ TasksInOrder'
  BY <1>1 DEF NoncesGuard, TasksInOrder
<1>2. CASE Propose
  <2>1. PICK new \in Envelope :
              /\ new.nonce = lastNonce + 1 /\ new.cfg = Latest'
              /\ Envelopes' \subseteq Envelopes \cup {new}
    BY <1>2, ProposeShape
  <2>2. UNCHANGED <<configFile, tasks, nonce>>
    BY <1>2 DEF Propose, memory, disk
  <2>3. /\ configFile \in landed
        /\ \A i \in DOMAIN tasks : tasks[i].cfg \in landed
    BY DEF KnownLanded, InForceLanded
  <2>4. \A k \in landed : k <= new.cfg
    <3>1. Latest \in Nat /\ Latest' \in Nat /\ Latest <= Latest'
      <4>1. new.cfg \in Nat
        BY EnvelopeShape
      <4> QED BY <1>2, <2>1, <4>1, ProposeShape, EnvelopeShape
    <3>2. \A k \in landed : k <= Latest
      BY DEF OperatorsInOrder
    <3> QED BY <2>1, <3>1, <3>2, Numbers
  <2>5. NoncesGuard'
    <3>1. new.cfg \in Nat
      BY EnvelopeShape
    <3>2. new.cfg >= configFile /\ \A i \in DOMAIN tasks : new.cfg >= tasks[i].cfg
      BY <2>3, <2>4, <3>1, Numbers
    <3> QED BY <2>1, <2>2, <3>2 DEF NoncesGuard
  <2>6. TasksInOrder'
    BY <2>2 DEF TasksInOrder
  <2> QED BY <1>0, <2>2, <2>5, <2>6, Numbers
<1>3. CASE ~Propose /\ (\/ Land \/ Promote \/ Send \/ StartWorker \/ WorkerFails
                        \/ UNCHANGED vars \/ \E c \in Contract : LoseRunner(c))
  <2>1. UNCHANGED <<configFile, tasks, nonce>>
    BY <1>3 DEF Land, Promote, Send, StartWorker, WorkerFails, LoseRunner, memory, disk, vars
  <2> QED BY <1>0, <1>1, <1>3, <2>1, EnvelopesKept, Numbers
<1>4. CASE Handle /\ ~Propose
  <2>1. /\ inbox # <<>> /\ configFile' = configFile /\ Envelopes' \subseteq Envelopes
    BY <1>4, HandleShape, EnvelopesKept
  <2>2. PICK e : e = Head(inbox).current
    OBVIOUS
  <2>3. e \in Envelopes
    <3>1. 1 \in DOMAIN inbox /\ Head(inbox) = inbox[1]
      BY <2>1, TailShape DEF TypeOK
    <3> QED BY <2>2, <3>1, EnvelopeShape
  <2>4. ASSUME e.nonce >= nonce.config, UNCHANGED nonce,
               NEW task \in Task, tasks' = Append(tasks, task),
               task.cfg = e.cfg, task.nonce >= e.nonce, Runs, Len(tasks) < MaxTasks
        PROVE  NoncesGuard' /\ TasksInOrder'
    <3>1. e.cfg >= configFile
      BY <2>3, <2>4 DEF NoncesGuard
    <3>2. nonce'.config = nonce.config
      BY <2>4
    <3> QED BY <2>1, <2>3, <2>4, <3>1, <3>2, CallInOrder
  <2>5. ASSUME UNCHANGED tasks, HandlePending(Head(inbox).pending, config, nonce)
        PROVE  NoncesGuard' /\ TasksInOrder'
    <3>1. nonce \in [config : 1..MaxNonce, pending : 0..MaxNonce]
          /\ Head(inbox).pending \in Envelope \cup {None}
      BY <2>1, HeadShape DEF TypeOK
    <3>2. nonce'.config = nonce.config
      BY <2>5, <3>1, HandlePendingShape
    <3> QED BY <2>1, <2>5, <3>2 DEF NoncesGuard, TasksInOrder
  <2>6. NoncesGuard' /\ TasksInOrder'
    BY <1>4, <2>2, <2>4, <2>5, HandleShape
  <2> QED BY <1>0, <2>1, <2>6, Numbers
<1>5. CASE ApplyPendingUpdate /\ ~Propose
  <2>1. /\ UNCHANGED <<configFile, nonce, pending>> /\ Envelopes' \subseteq Envelopes
        /\ worker.pc = "submit"
    BY <1>5, ApplyShape, EnvelopesKept
  <2>2. ASSUME pending # None, Runs, Len(tasks) < MaxTasks,
               NEW task \in Task, tasks' = Append(tasks, task),
               task.cfg = pending.cfg, task.nonce >= pending.nonce
        PROVE  NoncesGuard' /\ TasksInOrder'
    <3>1. pending \in Envelopes /\ pending.cfg = Latest
      BY <2>1, <2>2, EnvelopeShape DEF WorkerIsLatest
    <3>2. configFile <= Latest /\ Latest \in Nat
      BY EnvelopeShape DEF KnownLanded, InForceLanded, OperatorsInOrder
    <3>3. pending.cfg >= configFile
      BY <3>1, <3>2, Numbers
    <3>4. configFile' = configFile /\ nonce'.config = nonce.config
      BY <2>1
    <3> QED BY <2>1, <2>2, <3>1, <3>3, <3>4, CallInOrder
  <2>3. NoncesGuard' /\ TasksInOrder'
    BY <1>1, <1>5, <2>1, <2>2, ApplyShape
  <2> QED BY <1>0, <2>1, <2>3, Numbers
<1>6. ASSUME NEW i \in DOMAIN tasks, ~Propose, tasks' = RemoveAt(tasks, i), Resumes(i),
             \/ UNCHANGED <<configFile, nonce>>
             \/ configFile' = tasks[i].cfg /\ nonce'.config = tasks[i].nonce
      PROVE  NoncesGuard' /\ TasksInOrder' /\ configFile' >= configFile
  <2>1. /\ \A j \in DOMAIN tasks' : \E k \in DOMAIN tasks : k # i /\ tasks'[j] = tasks[k]
        /\ \A j, l \in DOMAIN tasks' : j # l =>
              \E k, m \in DOMAIN tasks : /\ k # m
                                         /\ tasks'[j] = tasks[k] /\ tasks'[l] = tasks[m]
        /\ Len(tasks') = Len(tasks) - 1 /\ Len(tasks) \in Nat
    <3>1. tasks \in Seq(Task)
      BY DEF TypeOK
    <3> QED BY <1>6, <3>1, RemovedOthers, RemoveShape
  <2>2. Envelopes' \subseteq Envelopes
    BY <1>6, EnvelopesKept
  <2>3. NoncesGuard'
    <3>1. \A e \in Envelopes' : e.nonce >= nonce'.config => e.cfg >= configFile'
      BY <1>6, <2>2 DEF NoncesGuard
    <3>2. \A e \in Envelopes' : \A j \in DOMAIN tasks' :
            e.nonce >= tasks'[j].nonce => e.cfg >= tasks'[j].cfg
      BY <2>1, <2>2 DEF NoncesGuard
    <3> QED BY <3>1, <3>2 DEF NoncesGuard
  <2>4. TasksInOrder'
    <3>1. \A j \in DOMAIN tasks' : tasks'[j].cfg >= configFile'
      <4>1. \A k \in DOMAIN tasks : k # i => tasks[k].cfg >= configFile'
        BY <1>6, OthersAreLater DEF TasksInOrder
      <4> QED BY <2>1, <4>1
    <3>2. \A j, l \in DOMAIN tasks' :
            j # l => tasks'[j].cfg \in Secret \/ tasks'[l].cfg \in Secret
      <4> SUFFICES ASSUME NEW j \in DOMAIN tasks', NEW l \in DOMAIN tasks', j # l
                   PROVE  tasks'[j].cfg \in Secret \/ tasks'[l].cfg \in Secret
        OBVIOUS
      <4>1. PICK k \in DOMAIN tasks, m \in DOMAIN tasks :
              k # m /\ tasks'[j] = tasks[k] /\ tasks'[l] = tasks[m]
        BY <2>1
      <4> QED BY <4>1 DEF TasksInOrder
    <3>3. Len(tasks') <= MaxTasks
      BY <2>1, LimitAssumption DEF TasksInOrder
    <3> QED BY <3>1, <3>2, <3>3 DEF TasksInOrder
  <2>5. configFile' >= configFile
    BY <1>0, <1>6, Numbers DEF TasksInOrder
  <2> QED BY <2>3, <2>4, <2>5
<1>7. ASSUME NEW i \in DOMAIN tasks, FinishSetConfig(i), ~Propose
      PROVE  NoncesGuard' /\ TasksInOrder' /\ configFile' >= configFile
  <2>1. Resumes(i)
    BY <1>7 DEF FinishSetConfig
  <2> QED BY <1>6, <1>7, <2>1, FinishShape
<1>8. ASSUME NEW i \in DOMAIN tasks, SetConfigThrows(i), ~Propose
      PROVE  NoncesGuard' /\ TasksInOrder' /\ configFile' >= configFile
  <2>1. tasks' = RemoveAt(tasks, i) /\ Resumes(i) /\ UNCHANGED <<configFile, nonce>>
    BY <1>8 DEF SetConfigThrows, disk
  <2> QED BY <1>6, <1>8, <2>1
<1>9. CASE CrashStep /\ ~Propose
  <2>1. tasks' = <<>> /\ DOMAIN tasks' = {} /\ Envelopes' \subseteq Envelopes
    BY <1>9, CrashShape, EnvelopesKept
  <2>2. TasksInOrder'
    <3>1. Len(tasks') = 0
      BY <2>1
    <3> QED BY <2>1, <3>1, LimitAssumption DEF TasksInOrder
  <2>3. CASE UNCHANGED <<configFile, nonce>>
    <3>1. NoncesGuard'
      BY <2>1, <2>3 DEF NoncesGuard
    <3> QED BY <1>0, <2>2, <2>3, <3>1, Numbers
  <2>4. ASSUME NEW i \in DOMAIN tasks,
               configFile' = configFile \/ configFile' = tasks[i].cfg,
               nonce' = [nonce EXCEPT !.config = tasks[i].nonce]
        PROVE  NoncesGuard' /\ configFile' >= configFile
    <3>1. nonce'.config = tasks[i].nonce
      BY <2>4 DEF TypeOK
    <3>2. tasks[i].cfg >= configFile' /\ configFile' >= configFile
      BY <1>0, <2>4, Numbers DEF TasksInOrder
    <3>3. \A e \in Envelopes : e.nonce >= nonce'.config => e.cfg >= configFile'
      <4>1. configFile' \in Nat
        BY <2>4, Numbers
      <4> QED BY <3>1, <3>2, <4>1, Numbers DEF NoncesGuard
    <3> QED BY <2>1, <3>2, <3>3 DEF NoncesGuard
  <2> QED BY <1>9, <2>2, <2>3, <2>4, CrashShape
<1> QED
  BY <1>2, <1>3, <1>4, <1>5, <1>7, <1>8, <1>9 DEF Next, ClusterStep, WorkerStep

(* The configuration on disk never goes back to an older one: the nonce that *)
(* is stored with it, and the nonces of the calls under way, keep out every  *)
(* envelope that is older, also across a crash between the two files.       *)
THEOREM NoRollbackCorrect ==
  ASSUME ~Hasty, ImportsEndInOrder
  PROVE  Spec => NoRollback
<1>1. Init => NoncesGuard /\ TasksInOrder
  <2> SUFFICES ASSUME Init PROVE NoncesGuard /\ TasksInOrder
    OBVIOUS
  <2>1. PICK first : first = [cfg |-> 0, nonce |-> 1]
    OBVIOUS
  <2>2. /\ orchestrator = [current |-> first, pending |-> None] /\ pending = None
        /\ configFile = 0 /\ DOMAIN inbox = {} /\ DOMAIN tasks = {} /\ Len(tasks) = 0
    BY <2>1 DEF Init
  <2>3. Envelopes \subseteq {first}
    BY <2>2 DEF Envelopes
  <2> QED BY <2>1, <2>2, <2>3, LimitAssumption DEF NoncesGuard, TasksInOrder
<1>2. ASSUME TypeOK, TypeOK', Inv, NoncesGuard /\ TasksInOrder, [Next]_vars
      PROVE  (NoncesGuard /\ TasksInOrder)' /\ [configFile' >= configFile]_configFile
  BY <1>2, OrderStep
<1> QED BY <1>1, <1>2, InvCorrect, PTL DEF Spec, NoRollback


=============================================================================
