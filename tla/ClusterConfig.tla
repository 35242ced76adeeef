---------------------------- MODULE ClusterConfig ----------------------------
(***************************************************************************)
(* The cluster configuration as one node keeps it: the messages of the      *)
(* orchestrator (ConfigHandler), the update the ClusterRunner applies once  *)
(* its transaction landed, the files, what is in force in memory            *)
(* (SettingsManager, nonce-manager), and the runners of the contracts       *)
(* (RunnerManager, RunnerBase).                                            *)
(*                                                                         *)
(* Configurations are numbered; number k + 1 is an update of number k, and  *)
(* any two of them differ on the ledger.  An envelope carries the nonce the *)
(* operator of this node signed it with.  setConfig awaits the import of    *)
(* the cluster secret, everything may happen in between; without a secret   *)
(* it is one step.                                                          *)
(*                                                                         *)
(* A runner is none, stopped (known to the manager, not started), live (a   *)
(* timer is set or a round under way) or dead: its loop ended although it   *)
(* counts as running, so that nobody starts it again.  A runner that was    *)
(* removed may still have a timer, which finds it stopped and does nothing. *)
(***************************************************************************)
EXTENDS Integers, Sequences, SequencesExt

CONSTANTS
    None,        \* null
    Secret,      \* the configurations with a cluster secret
    Contract,    \* the contracts
    Oracle,      \* those whose runner reads its timeframe from the configuration
    ContractsOf, \* the contracts of each configuration
    Hasty,       \* environment: a round may be of another update than the latest
    TornWrites,  \* environment: a crash comes between the writes of two files
    MaxConfig,   \* bound: number of the last configuration
    MaxNonce,    \* bound: signatures of the operator
    MaxMessages, \* bound: messages of the orchestrator under way
    MaxTasks,    \* bound: setConfig calls under way
    MaxCrashes   \* bound: crashes of the process

ASSUME SecretAssumption == Secret \subseteq Nat /\ {Hasty, TornWrites} \subseteq BOOLEAN
ASSUME LimitAssumption ==
    /\ MaxConfig \in Nat
    /\ Oracle \subseteq Contract /\ ContractsOf \in [0..MaxConfig -> SUBSET Contract]
    /\ MaxNonce \in Nat \ {0}
    /\ MaxMessages \in Nat
    /\ MaxTasks \in Nat
    /\ MaxCrashes \in Nat

VARIABLES
    orchestrator,  \* current and pending envelope, as the operators signed them
    lastNonce,     \* nonce of the operator's last signature
    landed,        \* configurations whose update is on the ledger
    inbox,         \* CONFIG messages, in order
    config,        \* config
    applied,       \* the config that nodes and the secret are those of
    runners,       \* per contract: its runner
    pending,       \* pendingConfig, an envelope or None
    nonce,         \* nonces of the CONFIG and PENDING_CONFIG messages, on disk
    configFile,    \* cluster config on disk
    pendingFile,   \* pending cluster config on disk
    tasks,         \* setConfig calls that await the import of the secret
    worker,        \* worker of the ClusterRunner
    up,            \* does the process run
    crashes        \* crashes so far

vars == <<orchestrator, lastNonce, landed, inbox, config, applied, runners, pending,
          nonce, configFile, pendingFile, tasks, worker, up, crashes>>

memory == <<config, applied, runners, pending, tasks, worker, up>>
disk == <<nonce, configFile, pendingFile>>
outside == <<orchestrator, lastNonce, landed>>

-----------------------------------------------------------------------------
Config == 0..MaxConfig
Envelope == [cfg : Config, nonce : 1..MaxNonce]
Message == [current : Envelope, pending : Envelope \cup {None}]

ASSUME NoneAssumption == None \notin Envelope

(* A call of setConfig, and what follows it: the rest of the handler with   *)
(* the pending envelope of the message, or applyPendingUpdate              *)
Task == [cfg : Config, nonce : 1..MaxNonce, by : {"handler", "worker"},
         rest : Envelope \cup {None}]

IdleWorker == [pc |-> "idle", base |-> 0, cfg |-> 0]

Later(a, b) == IF a > b THEN a ELSE b

(* Mutant: the signature may be of any age *)
IsVerifiedAlways(envelope, currentNonce) == TRUE

(* verifyConfig: this node's signature is not outdated *)
IsVerified(envelope, currentNonce) == envelope.nonce >= currentNonce

(* Only the import of a secret lets other steps happen in between *)
IsAwaited == \A i \in DOMAIN tasks : tasks[i].cfg \in Secret

Runs == up /\ IsAwaited

(* The i-th call goes on: without a secret to import it never waited *)
Resumes(i) ==
    /\ up
    /\ i \in DOMAIN tasks
    /\ tasks[i].cfg \in Secret => IsAwaited

(* clearPendingConfig *)
ClearPending == pending' = None /\ pendingFile' = None

(* setPendingConfig accepts the envelope, c being the config: no other one  *)
(* is pending, and it changes something                                    *)
IsAcceptable(envelope, c) ==
    /\ pending # None => pending.cfg = envelope.cfg
    /\ envelope.cfg # c

(* The pending envelope of the message; setPendingConfig throws on one that *)
(* is not acceptable                                                       *)
TakePending(envelope, c, nonces) ==
    IF IsVerified(envelope, nonce.pending) /\ IsAcceptable(envelope, c)
    THEN /\ pending' = envelope
         /\ pendingFile' = envelope
         /\ nonce' = [nonces EXCEPT !.pending = Later(envelope.nonce, @)]
    ELSE /\ UNCHANGED <<pending, pendingFile>>
         /\ nonce' = nonces

(* The handler from its second part on *)
HandlePending(envelope, c, nonces) ==
    IF envelope = None THEN ClearPending /\ nonce' = nonces
    ELSE TakePending(envelope, c, nonces)

(* Mutant: the first nonce that is new, instead of the last one seen *)
NonceNext(task) == task.nonce + 1

(* The nonce setConfig writes *)
NonceOf(task) == task.nonce

-----------------------------------------------------------------------------
(* Runners *)

(* Mutant: runners are added, not removed *)
SetContractsAdd(contracts) ==
    [c \in Contract |-> IF c \in contracts /\ runners[c] = "none" THEN "stopped"
                        ELSE runners[c]]

(* setContracts: the runners of these contracts, the known ones as they are *)
SetContracts(contracts) ==
    [c \in Contract |-> IF c \notin contracts THEN "none"
                        ELSE IF runners[c] = "none" THEN "stopped"
                        ELSE runners[c]]

(* start() of a runner throws when its contract is not in the config *)
Unstartable(known) == {c \in Oracle : known[c] = "stopped" /\ c \notin ContractsOf[config]}

(* Mutant: a runner is not started when others run already *)
StartedFirst(known, contracts) ==
    [c \in Contract |-> IF /\ c \in contracts /\ known[c] = "stopped"
                           /\ \A d \in Contract : known[d] \in {"none", "stopped"}
                        THEN "live" ELSE known[c]]

(* These contracts' runners are running *)
Started(known, contracts) ==
    [c \in Contract |-> IF c \in contracts /\ known[c] = "stopped" THEN "live" ELSE known[c]]

(* The runners of a process that begins with this configuration *)
RunnersOf(cfg) == [c \in Contract |-> IF c \in ContractsOf[cfg] THEN "live" ELSE "none"]

-----------------------------------------------------------------------------
Init ==
    LET first == [cfg |-> 0, nonce |-> 1] IN
    /\ orchestrator = [current |-> first, pending |-> None]
    /\ lastNonce = 1
    /\ landed = {0}
    /\ inbox = <<>>
    /\ config = 0
    /\ applied = 0
    /\ runners = RunnersOf(0)
    /\ pending = None
    /\ nonce = [config |-> 1, pending |-> 0]
    /\ configFile = 0
    /\ pendingFile = None
    /\ tasks = <<>>
    /\ worker = IdleWorker
    /\ up = TRUE
    /\ crashes = 0

(* ----------------- the orchestrator and the ledger -------------------- *)

(* The operators propose the next configuration, or sign it once more *)
Propose ==
    LET next == orchestrator.current.cfg + 1 IN
    /\ IsAwaited
    /\ next <= MaxConfig
    /\ lastNonce < MaxNonce
    /\ Hasty \/ worker.pc = "idle"
    /\ lastNonce' = lastNonce + 1
    /\ orchestrator' = [orchestrator EXCEPT
                            !.pending = [cfg |-> next, nonce |-> lastNonce + 1]]
    /\ UNCHANGED <<landed, inbox, memory, disk, crashes>>

(* The transactions of the update, signed by a majority, are on the ledger *)
Land ==
    /\ IsAwaited
    /\ orchestrator.pending # None
    /\ landed' = landed \cup {orchestrator.pending.cfg}
    /\ UNCHANGED <<orchestrator, lastNonce, inbox, memory, disk, crashes>>

(* What landed is the current configuration *)
Promote ==
    /\ IsAwaited
    /\ orchestrator.pending # None
    /\ orchestrator.pending.cfg \in landed
    /\ orchestrator' = [current |-> orchestrator.pending, pending |-> None]
    /\ UNCHANGED <<lastNonce, landed, inbox, memory, disk, crashes>>

Send ==
    /\ Runs
    /\ Len(inbox) < MaxMessages
    /\ inbox' = Append(inbox, orchestrator)
    /\ UNCHANGED <<outside, memory, disk, crashes>>

(* ------------------------------ the node ------------------------------ *)

(* ConfigHandler.handle up to the await of setConfig *)
Handle ==
    LET msg == Head(inbox) IN
    /\ Runs
    /\ inbox # <<>>
    /\ inbox' = Tail(inbox)
    /\ \/ /\ IsVerified(msg.current, nonce.config)
          /\ Len(tasks) < MaxTasks
          /\ config' = msg.current.cfg
          /\ tasks' = Append(tasks,
                [cfg |-> msg.current.cfg, by |-> "handler", rest |-> msg.pending,
                 nonce |-> Later(msg.current.nonce, nonce.config)])
          /\ UNCHANGED <<pending, disk>>
       \/ /\ ~IsVerified(msg.current, nonce.config)
          /\ HandlePending(msg.pending, config, nonce)
          /\ UNCHANGED <<config, tasks, configFile>>
    /\ UNCHANGED <<outside, applied, runners, worker, up, crashes>>

(* The secret of the i-th call is imported and all runners start: setConfig  *)
(* ends, and so does what called it                                        *)
FinishSetConfig(i) ==
    LET task == tasks[i]
        nonces == [nonce EXCEPT !.config = NonceOf(task)]
        known == SetContracts(ContractsOf[task.cfg])
    IN
    /\ Resumes(i)
    /\ Unstartable(known) = {}
    /\ runners' = Started(known, Contract)
    /\ applied' = task.cfg
    /\ configFile' = task.cfg
    /\ tasks' = RemoveAt(tasks, i)
    /\ \/ /\ task.by = "handler"
          /\ HandlePending(task.rest, config, nonces)
          /\ UNCHANGED worker
       \/ /\ task.by = "worker"
          /\ ClearPending
          /\ nonce' = nonces
          /\ worker' = IdleWorker
    /\ UNCHANGED <<outside, inbox, config, up, crashes>>

(* ... or the start of a runner throws, as a newer call set a config without *)
(* its contract meanwhile: some of the others may have been started before  *)
(* it, the rest of setConfig and of its caller is skipped                  *)
SetConfigThrows(i) ==
    LET task == tasks[i]
        known == SetContracts(ContractsOf[task.cfg])
    IN
    /\ Resumes(i)
    /\ Unstartable(known) # {}
    /\ \E first \in SUBSET (Contract \ Unstartable(known)) :
          runners' = Started(known, first)
    /\ applied' = task.cfg
    /\ tasks' = RemoveAt(tasks, i)
    /\ worker' = IF task.by = "worker" THEN IdleWorker ELSE worker
    /\ UNCHANGED <<outside, inbox, config, pending, disk, up, crashes>>

(* A round of a runner whose contract is not in the config: it fails, and so *)
(* does the computation of the next one.  Other rounds leave the runner as  *)
(* it is.                                                                  *)
LoseRunner(c) ==
    /\ Runs
    /\ c \in Oracle \ ContractsOf[config]
    /\ runners[c] = "live"
    /\ runners' = [runners EXCEPT ![c] = "dead"]
    /\ UNCHANGED <<outside, inbox, config, applied, pending, disk, tasks, worker, up,
                   crashes>>

(* The latest update the operators proposed *)
Latest == IF orchestrator.pending = None THEN orchestrator.current.cfg
          ELSE orchestrator.pending.cfg

(* A round of the ClusterRunner: the update time is reached, or all signed *)
StartWorker ==
    /\ Runs
    /\ worker.pc = "idle"
    /\ pending # None
    /\ Hasty \/ pending.cfg = Latest
    /\ worker' = [pc |-> "submit", base |-> config, cfg |-> pending.cfg]
    /\ UNCHANGED <<outside, inbox, config, applied, runners, pending, disk, tasks, up,
                   crashes>>

(* Mutant: a failed submission applies the update too *)
IsSubmittedAny == TRUE

(* The update of the worker landed, or there is none to submit; nobody else *)
(* signs one that leads back                                               *)
IsSubmitted == worker.cfg \in landed /\ worker.base <= worker.cfg

(* applyPendingUpdate takes what is pending now *)
ApplyPendingUpdate ==
    /\ Runs
    /\ worker.pc = "submit"
    /\ IsSubmitted
    /\ \/ /\ pending # None
          /\ Len(tasks) < MaxTasks
          /\ config' = pending.cfg
          /\ tasks' = Append(tasks, [cfg |-> pending.cfg, by |-> "worker",
                                     rest |-> None, nonce |-> nonce.pending])
          /\ worker' = [worker EXCEPT !.pc = "apply"]
       \/ /\ pending = None
          /\ worker' = IdleWorker
          /\ UNCHANGED <<config, tasks>>
    /\ UNCHANGED <<outside, inbox, applied, runners, pending, disk, up, crashes>>

WorkerFails ==
    /\ Runs
    /\ worker.pc = "submit"
    /\ worker' = IdleWorker
    /\ UNCHANGED <<outside, inbox, config, applied, runners, pending, disk, tasks, up,
                   crashes>>

(* ------------------------------- crashes ------------------------------ *)

(* init with these files.  A pending config that changes nothing throws,    *)
(* and the process shuts down.                                             *)
Boot(cfg, envelope) ==
    /\ crashes < MaxCrashes
    /\ crashes' = crashes + 1
    /\ up' = (envelope # None => envelope.cfg # cfg)
    /\ config' = cfg
    /\ applied' = cfg
    /\ runners' = RunnersOf(cfg)
    /\ pending' = envelope
    /\ tasks' = <<>>
    /\ worker' = IdleWorker
    /\ inbox' = <<>>

Crash ==
    /\ Runs
    /\ Boot(configFile, pendingFile)
    /\ UNCHANGED <<outside, disk>>

(* The process dies in setConfig, between the two files *)
CrashInSetConfig(i) ==
    /\ TornWrites
    /\ Resumes(i)
    /\ nonce' = [nonce EXCEPT !.config = NonceOf(tasks[i])]
    /\ Boot(configFile, pendingFile)
    /\ UNCHANGED <<outside, configFile, pendingFile>>

(* ... or before the pending file is handled *)
CrashAfterSetConfig(i) ==
    /\ TornWrites
    /\ Resumes(i)
    /\ nonce' = [nonce EXCEPT !.config = NonceOf(tasks[i])]
    /\ configFile' = tasks[i].cfg
    /\ Boot(tasks[i].cfg, pendingFile)
    /\ UNCHANGED <<outside, pendingFile>>

ClusterStep == Propose \/ Land \/ Promote

WorkerStep == StartWorker \/ ApplyPendingUpdate \/ WorkerFails

CrashStep ==
    \/ Crash
    \/ \E i \in DOMAIN tasks : CrashInSetConfig(i) \/ CrashAfterSetConfig(i)

Next ==
    \/ ClusterStep
    \/ Send
    \/ Handle
    \/ \E i \in DOMAIN tasks : FinishSetConfig(i) \/ SetConfigThrows(i)
    \/ \E c \in Contract : LoseRunner(c)
    \/ WorkerStep
    \/ CrashStep

Spec == Init /\ [][Next]_vars

-----------------------------------------------------------------------------
(* Properties *)

TypeOK ==
    /\ orchestrator \in Message
    /\ lastNonce \in 1..MaxNonce
    /\ landed \subseteq Config
    /\ inbox \in Seq(Message)
    /\ config \in Config
    /\ applied \in Config
    /\ runners \in [Contract -> {"none", "stopped", "live", "dead"}]
    /\ pending \in Envelope \cup {None}
    /\ nonce \in [config : 1..MaxNonce, pending : 0..MaxNonce]
    /\ configFile \in Config
    /\ pendingFile \in Envelope \cup {None}
    /\ tasks \in Seq(Task)
    /\ worker \in [pc : {"idle", "submit", "apply"}, base : Config, cfg : Config]
    /\ up \in BOOLEAN
    /\ crashes \in Nat

(* A configuration is in force, or comes back after a restart, only after   *)
(* its update concluded on the ledger: the node never talks to other nodes, *)
(* or signs for other contracts, than the cluster agreed to.               *)
InForceLanded == {config, applied, configFile} \subseteq landed

(* The configuration on disk never goes back to an older one, by no message *)
(* that is late and by no crash between the files: the stored nonce keeps   *)
(* an outdated envelope out, also one that an applied update overtook.     *)
NoRollback == [][configFile' >= configFile]_configFile

(* A runner whose loop ended is on its way out: a call that removes it has   *)
(* not resumed yet.  None stays behind counting as running, which nobody    *)
(* would start again, however messages overtake each other.                *)
NoRunnerLost ==
    \A c \in Contract : runners[c] = "dead" =>
        \E i \in DOMAIN tasks : c \notin ContractsOf[tasks[i].cfg]

(* Once the operators leave a configuration as it is, with no update        *)
(* pending, the node gets to it, in memory, in force and on disk, drops its *)
(* pending one and runs exactly its contracts, however the messages, the    *)
(* node's own update and the rounds of the runners overlap and wherever it  *)
(* stopped: it does, as long as it comes up again.                         *)
Settled(k) == orchestrator.current.cfg = k /\ orchestrator.pending = None

Converges ==
    \A k \in Config :
        <>[]Settled(k) =>
            <>[](up => /\ {config, applied, configFile} = {k}
                       /\ pendingFile = None
                       /\ runners = RunnersOf(k))

(* The orchestrator keeps sending, and awaits return: the import of a       *)
(* secret also if calls without one come and go meanwhile                  *)
Fairness ==
    /\ WF_vars(Send)
    /\ WF_vars(Handle)
    /\ \A i \in 1..MaxTasks : SF_vars(FinishSetConfig(i) \/ SetConfigThrows(i))

FairSpec == Spec /\ Fairness

=============================================================================
