------------------------- MODULE SubscriptionEvents -------------------------
(***************************************************************************)
(* The subscriptions a node works on.  Before every round of a             *)
(* subscriptions contract the node brings its copy of the contract's       *)
(* subscriptions up to date (SubscriptionContractManager.                  *)
(* processLastEvents): it replays the contract's events from the ledger it *)
(* read last, or, when the RPC server no longer keeps that ledger, reads   *)
(* the contract's entries one after the other and replays the events of    *)
(* the last ledgers over them.                                             *)
(*                                                                         *)
(* The ledger is external.  Every request may be answered by another RPC   *)
(* server, which may lag behind the network and keeps the events of a      *)
(* number of ledgers only.  A response that takes several pages is read as *)
(* one: the pages are read in order and the events are kept by their id.   *)
(* The subscriptions are those whose symbols and sources the node          *)
(* supports; their webhooks are left out.                                  *)
(***************************************************************************)
EXTENDS Integers, Sequences, SequencesExt

CONSTANTS
    LastId,       \* ids of the subscriptions are 1..LastId, in order of creation
    Lag,          \* ledgers an RPC server may lag behind the network
    Kept,         \* ledgers whose events an RPC server keeps, per kind of server
    Window,       \* ledgers replayed over the entries (360)
    MaxLedger,    \* bound: the ledgers
    MaxCalls,     \* bound: the calls of the contract
    MaxCharge,    \* bound: the charges of a subscription
    MaxFailures,  \* bound: rounds that fail on the way
    MaxRestarts   \* bound: process restarts

ASSUME ServerAssumption ==
    /\ Lag \in Nat
    /\ Kept \subseteq Nat \ {0}
    /\ Window \in Nat
ASSUME LimitAssumption ==
    /\ LastId \in Nat
    /\ MaxLedger \in Nat
    /\ MaxCalls \in Nat
    /\ MaxCharge \in Nat \ {0}
    /\ MaxFailures \in Nat
    /\ MaxRestarts \in Nat

VARIABLES
    contract,       \* the contract's entries: [status, charge] by id
    calls,          \* calls of the contract so far
    closing,        \* the events of the ledger that is going to close
    ledgers,        \* history: per ledger, the active subscriptions and the events
    subscriptions,  \* __subscriptions: lastCharge by id, 0 for an id it does not hold
    lastLedger,     \* __lastLedger, 0 for null
    round,          \* the run of processLastEvents under way
    failures,       \* failed rounds so far
    restarts        \* restarts so far

ledgerVars == <<contract, calls, closing, ledgers>>
vars == <<ledgerVars, subscriptions, lastLedger, round, failures, restarts>>

Id == 1..LastId
Latest == Len(ledgers)

-----------------------------------------------------------------------------
(* The contract *)

(* What the reader of an entry keeps of it: an entry that is not active is
   skipped, and so is a missing one *)
Active(entry) == IF entry.status = "active" THEN entry.charge ELSE 0

Nothing == [id \in Id |-> 0]
NoEntry == [status |-> "none", charge |-> 0]
Event(type, id, charge) == [type |-> type, id |-> id, charge |-> charge]

(* The ledger takes the events of a call.  It takes as many calls as there are,
   be they of one transaction or of several: the charges a node submits are one
   transaction with all the subscriptions that are due. *)
Tell(events) ==
    /\ Latest < MaxLedger
    /\ calls < MaxCalls
    /\ calls' = calls + 1
    /\ closing' = closing \o events
    /\ UNCHANGED ledgers

Create(id) ==
    /\ contract[id].status = "none"
    /\ \A other \in 1..id - 1 : contract[other].status # "none"
    /\ contract' = [contract EXCEPT ![id] = [status |-> "active", charge |-> 1]]
    /\ Tell(<<Event("created", id, 1)>>)

Deposit(id) ==
    /\ contract[id].status \in {"active", "suspended"}
    /\ contract' = [contract EXCEPT ![id].status = "active"]
    /\ Tell(<<Event("deposited", id, contract[id].charge)>>)

(* A charge that empties the balance suspends the subscription *)
Charge(id, next) ==
    LET entry == [status |-> next, charge |-> contract[id].charge + 1]
        charged == Event("charged", id, entry.charge)
    IN /\ contract[id].status = "active"
       /\ entry.charge <= MaxCharge
       /\ contract' = [contract EXCEPT ![id] = entry]
       /\ Tell(IF next = "active" THEN <<charged>>
               ELSE <<charged, Event("suspended", id, 0)>>)

Cancel(id) ==
    /\ contract[id].status \in {"active", "suspended"}
    /\ contract' = [contract EXCEPT ![id].status = "cancelled"]
    /\ Tell(<<Event("cancelled", id, 0)>>)

(* The ledger closes with what the contract did in it *)
Close ==
    /\ Latest < MaxLedger
    /\ ledgers' = Append(ledgers, [active |-> [id \in Id |-> Active(contract[id])],
                                   events |-> closing])
    /\ closing' = <<>>
    /\ UNCHANGED <<contract, calls>>

-----------------------------------------------------------------------------
(* The RPC servers *)

(* The state of a server: the last ledger it has, and the first one it keeps *)
Server ==
    {[latest |-> ledger, oldest |-> IF ledger > kept THEN ledger - kept + 1 ELSE 1] :
       ledger \in {l \in 1..Latest : l >= Latest - Lag}, kept \in Kept}

(* A server refuses to read events from a ledger it does not have *)
Serves(server, start) == start \in server.oldest..server.latest

(* The id of the last subscription that was created up to a ledger *)
CreatedUpTo(ledger) ==
    {id \in Id : \E l \in 1..ledger : \E event \in ToSet(ledgers[l].events) :
                   event.type = "created" /\ event.id = id}

CreatedIn(ledger) ==
    LET created == CreatedUpTo(ledger)
    IN IF created = {} THEN 0 ELSE CHOOSE id \in created : \A other \in created : other <= id

-----------------------------------------------------------------------------
(* The round *)

(* What an event does to the copy *)
Processed(copy, event) ==
    CASE event.type \in {"created", "deposited"} ->
           [copy EXCEPT ![event.id] = event.charge]
      [] event.type \in {"suspended", "cancelled"} ->
           [copy EXCEPT ![event.id] = 0]
      [] event.type = "charged" ->
           [copy EXCEPT ![event.id] = IF @ = 0 THEN 0 ELSE event.charge]

(* idle, then the entries (top: the last id, entry: the next one), the events,
   their replay and, the copy up to date, the work of the round *)
IdleRound == [step |-> "idle", start |-> 0, next |-> 1, top |-> 0, entries |-> <<>>]

(* getLastContractEvents: the events that were read, in the order of the
   ledgers from the start on; the next one of ledger start is to be processed *)
Replay(start) == [IdleRound EXCEPT !.step = "replay", !.start = start]

Init ==
    /\ contract = [id \in Id |-> NoEntry]
    /\ calls = 0
    /\ closing = <<>>
    /\ ledgers = <<[active |-> Nothing, events |-> <<>>]>>
    /\ subscriptions = Nothing
    /\ lastLedger = 0
    /\ round = IdleRound
    /\ failures = 0
    /\ restarts = 0

IsOutOfRange(server) == server.oldest > lastLedger

(* Mutant: the last processed ledger is not read again *)
StartLedgerNext(server) ==
    IF IsOutOfRange(server) THEN server.latest - Window ELSE lastLedger + 1

(* The ledger to replay the events from; the last processed one is read again *)
StartLedger(server) ==
    IF IsOutOfRange(server) THEN server.latest - Window ELSE lastLedger

(* Mutant: the copy is not cleared before it is loaded again *)
GetEventsLedgerInfoKeep ==
    /\ round.step \in {"idle", "ready"}
    /\ \E server \in Server :
         round' = [IdleRound EXCEPT !.step = IF IsOutOfRange(server) THEN "top"
                                            ELSE "events",
                                   !.start = StartLedger(server)]
    /\ UNCHANGED <<ledgerVars, subscriptions, lastLedger, failures, restarts>>

(* processLastEvents asks for the range of ledgers.  When the last processed
   ledger is out of it, it clears the copy to load it again. *)
GetEventsLedgerInfo ==
    /\ round.step \in {"idle", "ready"}
    /\ \E server \in Server :
         /\ subscriptions' = IF IsOutOfRange(server) THEN Nothing ELSE subscriptions
         /\ round' = [IdleRound EXCEPT !.step = IF IsOutOfRange(server) THEN "top"
                                                ELSE "events",
                                       !.start = StartLedger(server)]
    /\ UNCHANGED <<ledgerVars, lastLedger, failures, restarts>>

(* The active ones are put into the copy once all the entries are read *)
Loaded(copy, entries) ==
    [id \in Id |-> IF id \in DOMAIN entries /\ entries[id] # 0 THEN entries[id]
                   ELSE copy[id]]

(* getSubscriptionsContractState: the id of the last subscription *)
GetLastSubscriptionId ==
    /\ round.step = "top"
    /\ \E server \in Server :
         LET top == CreatedIn(server.latest)
         IN round' = [round EXCEPT !.top = top,
                                   !.step = IF top = 0 THEN "events" ELSE "entry"]
    /\ UNCHANGED <<ledgerVars, subscriptions, lastLedger, failures, restarts>>

(* getSubscriptions: an entry after the other, each as of its own ledger *)
GetSubscription ==
    /\ round.step = "entry"
    /\ \E server \in Server :
         LET id == Len(round.entries) + 1
             entries == Append(round.entries, ledgers[server.latest].active[id])
         IN IF id = round.top
            THEN /\ round' = [round EXCEPT !.step = "events", !.entries = <<>>]
                 /\ subscriptions' = Loaded(subscriptions, entries)
            ELSE /\ round' = [round EXCEPT !.entries = entries]
                 /\ UNCHANGED subscriptions
    /\ UNCHANGED <<ledgerVars, lastLedger, failures, restarts>>

(* Mutant: the ledger to come is taken for the last processed one *)
ReadEventsAhead ==
    /\ round.step = "events"
    /\ \E server \in Server :
         /\ Serves(server, round.start)
         /\ lastLedger' = server.latest + 1
    /\ round' = Replay(round.start)
    /\ UNCHANGED <<ledgerVars, subscriptions, failures, restarts>>

(* The events from the start ledger on are read; the ledger the server had
   then is the last processed one, before any of them is processed *)
ReadEvents ==
    /\ round.step = "events"
    /\ \E server \in Server :
         /\ Serves(server, round.start)
         /\ lastLedger' = server.latest
    /\ round' = Replay(round.start)
    /\ UNCHANGED <<ledgerVars, subscriptions, failures, restarts>>

(* The loop over the events, each of which is awaited; the step from a ledger
   to the next one is a step of the model only *)
ProcessEvent ==
    LET events == ledgers[round.start].events
    IN /\ round.step = "replay"
       /\ \/ /\ round.next <= Len(events)
             /\ subscriptions' = Processed(subscriptions, events[round.next])
             /\ round' = [round EXCEPT !.next = @ + 1]
          \/ /\ round.next > Len(events)
             /\ round' = IF round.start < lastLedger THEN Replay(round.start + 1)
                         ELSE [IdleRound EXCEPT !.step = "ready"]
             /\ UNCHANGED subscriptions
       /\ UNCHANGED <<ledgerVars, lastLedger, failures, restarts>>

(* No server has the start ledger (any more): the round fails *)
EventsRefused ==
    /\ round.step = "events"
    /\ \A server \in Server : ~Serves(server, round.start)
    /\ round' = IdleRound
    /\ UNCHANGED <<ledgerVars, subscriptions, lastLedger, failures, restarts>>

(* A request fails on all the servers and with it the round: what was done of
   it stays *)
RoundFails ==
    /\ failures < MaxFailures
    /\ round.step \in {"top", "entry", "events"}
    /\ failures' = failures + 1
    /\ round' = IdleRound
    /\ UNCHANGED <<ledgerVars, subscriptions, lastLedger, restarts>>

(* The process starts anew: the copy was only in memory *)
Restart ==
    /\ restarts < MaxRestarts
    /\ restarts' = restarts + 1
    /\ subscriptions' = Nothing
    /\ lastLedger' = 0
    /\ round' = IdleRound
    /\ UNCHANGED <<ledgerVars, failures>>

RoundStep ==
    \/ GetEventsLedgerInfo
    \/ GetLastSubscriptionId
    \/ GetSubscription
    \/ ReadEvents
    \/ ProcessEvent
    \/ EventsRefused

ContractStep ==
    \E id \in Id :
      \/ Create(id)
      \/ Deposit(id)
      \/ \E next \in {"active", "suspended"} : Charge(id, next)
      \/ Cancel(id)

LedgerStep ==
    /\ ContractStep \/ Close
    /\ UNCHANGED <<subscriptions, lastLedger, round, failures, restarts>>

Next == RoundStep \/ LedgerStep \/ RoundFails \/ Restart

Spec == Init /\ [][Next]_vars

(* A new round starts every minute, and ledgers close *)
LiveSpec == Spec /\ WF_vars(RoundStep) /\ WF_vars(LedgerStep)

-----------------------------------------------------------------------------
(* Properties *)

Entry == [status : {"none", "active", "suspended", "cancelled"}, charge : 0..MaxCharge]

ContractEvent == [type : {"created", "deposited", "suspended", "cancelled", "charged"},
                  id : Id,
                  charge : 0..MaxCharge]

Ledger == [active : [Id -> 0..MaxCharge], events : Seq(ContractEvent)]

Round == [step : {"idle", "top", "entry", "events", "replay", "ready"},
          start : Int,
          next : Nat \ {0},
          top : 0..LastId,
          entries : Seq(0..MaxCharge)]

(* The types of the variables *)
TypeOK ==
    /\ contract \in [Id -> Entry]
    /\ calls \in 0..MaxCalls
    /\ closing \in Seq(ContractEvent)
    /\ ledgers \in Seq(Ledger)
    /\ subscriptions \in [Id -> 0..MaxCharge]
    /\ lastLedger \in 0..Latest
    /\ round \in Round
    /\ failures \in 0..MaxFailures
    /\ restarts \in 0..MaxRestarts

(* A round works on the subscriptions of the contract: once the events are
   processed, each one is as the contract had it in the last processed ledger,
   or in one of the ledgers a server that lags less had already.  Entries read
   at different ledgers, events read a second time and events older than the
   entries they are replayed over make no difference, whatever happened to the
   same subscription within one ledger. *)
ReadyIsReplica ==
    round.step = "ready" =>
      \A id \in Id :
        \E ledger \in lastLedger..Latest :
          /\ ledger <= lastLedger + Lag
          /\ subscriptions[id] = ledgers[ledger].active[id]

(* The copy catches up with the contract, whatever failed before: rounds end
   with the subscriptions of the last ledger again and again *)
Converges ==
    []<>(round.step = "ready" /\ subscriptions = ledgers[Latest].active)

=============================================================================
