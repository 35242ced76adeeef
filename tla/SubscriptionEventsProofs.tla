---------------------- MODULE SubscriptionEventsProofs ----------------------
(***************************************************************************)
(* The copy of a contract's subscriptions that a node keeps, for any       *)
(* subscriptions, charges and ledgers, any number of restarts: a round     *)
(* works on the subscriptions of the last processed ledger, or of a later  *)
(* one that a server has already.                                          *)
(***************************************************************************)
EXTENDS SubscriptionEvents, WellFoundedInduction, TLAPS

-----------------------------------------------------------------------------
(* The inductive invariant behind TypeOK and ReadyIsReplica                *)

(* The servers have the same ledgers.  Then requests may fail at any time    *)
ServersAreAlike == Lag = 0 /\ \E kept \in Nat \ {0} : Kept = {kept}

(* No request fails on all of the servers.  Then they may lag behind each    *)
(* other, by no more ledgers than are replayed over the entries, and keep   *)
(* different numbers of ledgers, each at least as many                     *)
RequestsSucceed ==
    MaxFailures = 0 /\ Lag <= Window /\ \A kept \in Kept : Window <= kept

Past == 1..Latest
ActiveAt(k, id) == ledgers[k].active[id]

(* A round reads entries that there are, and replays ledgers that there are *)
RoundIsInPast ==
    /\ round.step = "top" => round.entries = <<>>
    /\ round.step = "entry" => Len(round.entries) < round.top
    /\ round.step = "replay" => round.start \in 1..lastLedger

(* The places of a subscription's events.  A charge changes what is there,   *)
(* the other events set the subscription.                                  *)
Setting(events, id) ==
  {i \in DOMAIN events : events[i].id = id /\ events[i].type # "charged"}
Charging(events, id) ==
  {i \in DOMAIN events : events[i].id = id /\ events[i].type = "charged"}

(* Events lead to what a subscription is after them: the last one that sets it *)
(* makes it active or not, and is what it is unless a charge follows; a     *)
(* charge is not 0, and if no event sets the subscription after it, it is    *)
(* active, and is what the last charge says                                *)
Tells(events, id, after) ==
    /\ \A i \in Setting(events, id) :
         (\A j \in Setting(events, id) : j <= i) =>
           \A copy \in [Id -> 0..MaxCharge] :
             /\ Processed(copy, events[i])[id] = 0 <=> after = 0
             /\ (\A j \in Charging(events, id) : j <= i)
                  => Processed(copy, events[i])[id] = after
    /\ \A i \in Charging(events, id) :
         /\ events[i].charge > 0
         /\ (\A j \in Setting(events, id) : j <= i) =>
              /\ after # 0
              /\ (\A j \in Charging(events, id) : j <= i) => events[i].charge = after

(* Without an event that sets it, a subscription stays active or not, and    *)
(* only a charge changes it                                                *)
Links(events, id, before, after) ==
    Setting(events, id) = {} =>
      /\ before = 0 <=> after = 0
      /\ Charging(events, id) = {} => before = after

Sets(k, id) == Setting(ledgers[k].events, id)
Charges(k, id) == Charging(ledgers[k].events, id)

(* The events of the ledger that is going to close lead from the last ledger *)
(* to the contract's entries                                               *)
ClosingTells ==
    /\ Latest >= 1
    /\ \A id \in Id :
         /\ Tells(closing, id, Active(contract[id]))
         /\ Links(closing, id, ActiveAt(Latest, id), Active(contract[id]))

(* A subscription was created, in a ledger that closed or in the one to come, *)
(* and charged                                                             *)
EntriesAreCreated ==
    \A id \in Id : contract[id].status # "none" =>
        /\ contract[id].charge > 0
        /\ \/ id \in CreatedUpTo(Latest)
           \/ \E i \in DOMAIN closing : closing[i].type = "created" /\ closing[i].id = id

EventsTell ==
    \A k \in Past, id \in Id : Tells(ledgers[k].events, id, ActiveAt(k, id))

(* Between two ledgers without an event that sets a subscription, it stays   *)
(* active or not, and only a charge changes it                             *)
HistoryIsTold ==
    \A a, b \in Past, id \in Id :
        a <= b /\ (\A k \in a + 1..b : Sets(k, id) = {}) =>
            /\ ActiveAt(a, id) = 0 <=> ActiveAt(b, id) = 0
            /\ (\A k \in a + 1..b : Charges(k, id) = {}) => ActiveAt(a, id) = ActiveAt(b, id)

(* What is active was created *)
ActiveIsCreated ==
    \A k \in Past, id \in Id : ActiveAt(k, id) # 0 => id \in CreatedUpTo(k)

(* What the round knows of a subscription is of one of the ledgers that are  *)
(* going to be replayed                                                    *)
IsRecent(id, value) ==
    \E k \in Past : round.start <= k /\ value = ActiveAt(k, id)

InRange(ledger) == \E server \in Server : server.oldest <= ledger

(* The copy has the subscription of the last processed ledger, or of a later *)
(* one that another server had by then                                     *)
IsLate(id) ==
    \E k \in Past : /\ lastLedger <= k /\ k <= lastLedger + Lag
                    /\ subscriptions[id] = ActiveAt(k, id)

(* The copy of a ledger that is in range is complete *)
CopyInRange ==
    round.step \in {"idle", "ready"} /\ InRange(lastLedger) => \A id \in Id : IsLate(id)

(* The copy of a round that ends before it read its events is not in range,  *)
(* and loaded again, unless it is complete: if servers are alike, as a      *)
(* ledger out of the range of one is out of the range of all; if only       *)
(* refused events end a round, as the events of the last ledger are refused *)
(* with them                                                               *)
EndsOutOfRange ==
    /\ ServersAreAlike =>
         /\ round.step \in {"top", "entry"} => ~InRange(lastLedger)
         /\ round.step = "events" /\ InRange(lastLedger) => \A id \in Id : IsLate(id)
    /\ RequestsSucceed /\ round.step \in {"top", "entry", "events"} =>
         lastLedger = 0 \/ lastLedger <= round.start

LoadIsRecent ==
    /\ round.step \in {"top", "entry"} =>
         /\ round.start + Lag <= Latest
         /\ subscriptions = Nothing
    /\ round.step = "entry" =>
         /\ \A id \in DOMAIN round.entries : IsRecent(id, round.entries[id])
         /\ \A id \in Id : id > round.top => IsRecent(id, 0)
    /\ round.step = "events" =>
         /\ round.start <= Latest
         /\ \A id \in Id : IsRecent(id, subscriptions[id])

(* The events of a subscription that are still to be processed *)
IsAhead(k, i) == \/ k = round.start /\ i >= round.next
                 \/ k > round.start /\ k <= lastLedger
SetAhead(id) == \E k \in Past : \E i \in Sets(k, id) : IsAhead(k, i)
ChargeAhead(id) == \E k \in Past : \E i \in Charges(k, id) : IsAhead(k, i)

(* While they are replayed, an event is going to set the subscription, or a  *)
(* charge of it is to come and it is in the copy, or it is as it is in the  *)
(* end                                                                     *)
ReplayConverges ==
    round.step = "replay" =>
        \A id \in Id :
            \/ SetAhead(id)
            \/ ChargeAhead(id) /\ subscriptions[id] # 0
            \/ IsLate(id)

ReadyIsLate == round.step = "ready" => \A id \in Id : IsLate(id)

HistoryInv ==
    ClosingTells /\ EntriesAreCreated /\ EventsTell /\ HistoryIsTold /\ ActiveIsCreated
CopyInv ==
    CopyInRange /\ EndsOutOfRange /\ LoadIsRecent /\ ReplayConverges /\ ReadyIsLate

Inv == RoundIsInPast /\ HistoryInv /\ CopyInv

-----------------------------------------------------------------------------
(* Sequences, numbers *)

LEMMA AppendShape ==
  ASSUME NEW S, NEW s \in Seq(S), NEW e \in S
  PROVE  /\ Append(s, e) \in Seq(S)
         /\ Len(s) \in Nat /\ Len(Append(s, e)) = Len(s) + 1
         /\ DOMAIN s = 1..Len(s)
         /\ DOMAIN Append(s, e) = 1..Len(s) + 1
         /\ \A i \in 1..Len(s) : Append(s, e)[i] = s[i]
         /\ Append(s, e)[Len(s) + 1] = e
OBVIOUS

LEMMA ConcatShape ==
  ASSUME NEW S, NEW s \in Seq(S), NEW e \in S, NEW f \in S
  PROVE  /\ s \o <<e>> = Append(s, e)
         /\ s \o <<e, f>> = Append(Append(s, e), f)
         /\ Append(s, e) \in Seq(S)
OBVIOUS

LEMMA SeqShape ==
  ASSUME NEW S, NEW s \in Seq(S)
  PROVE  /\ Len(s) \in Nat
         /\ DOMAIN s = 1..Len(s)
         /\ \A i \in 1..Len(s) : s[i] \in S
OBVIOUS

LEMMA MaxExists ==
  ASSUME NEW Q \in Nat, NEW S \in SUBSET (1..Q), S # {}
  PROVE  \E m \in S : \A k \in S : k <= m
<1> DEFINE R == {p \in Nat \X Nat : p[1] < p[2]}
<1>1. IsWellFoundedOn(R, Nat)
  BY NatLessThanWellFounded, Zenon DEF OpToRel
<1> DEFINE T == {Q - m : m \in S}
<1>2. T \subseteq Nat /\ T # {}
  <2>1. \A m \in S : m \in 1..Q
    OBVIOUS
  <2>2. \A m \in S : Q - m \in Nat
    BY <2>1
  <2> QED BY <2>2
<1> HIDE DEF R, T
<1>3. \E x \in T : \A y \in T : ~(<<y, x>> \in R)
  BY <1>1, <1>2, WFMin
<1>4. PICK x \in T : \A y \in T : ~(<<y, x>> \in R)
  BY <1>3
<1>5. \A y \in T : <<y, x>> \in R <=> y < x
  BY <1>2, <1>4 DEF R
<1>6. \A y \in T : x <= y
  <2>1. \A y \in T : y \in Nat /\ ~(y < x)
    BY <1>2, <1>4, <1>5
  <2>2. x \in Nat
    BY <1>2
  <2> QED BY <2>1, <2>2
<1>7. PICK m \in S : x = Q - m
  BY DEF T
<1>8. \A k \in S : Q - k \in T
  BY DEF T
<1>9. \A k \in S : x <= Q - k
  BY <1>6, <1>8
<1>10. m \in Int /\ \A k \in S : k \in Int
  OBVIOUS
<1> QED BY <1>7, <1>9, <1>10

-----------------------------------------------------------------------------
(* Types *)

LEMMA PastShape ==
  ASSUME TypeOK
  PROVE  /\ Latest \in Nat
         /\ DOMAIN ledgers = Past
         /\ \A k \in Past : /\ k \in Nat /\ ledgers[k] \in Ledger
                            /\ ledgers[k].events \in Seq(ContractEvent)
                            /\ ledgers[k].active \in [Id -> 0..MaxCharge]
                            /\ \A id \in Id : ActiveAt(k, id) \in 0..MaxCharge
<1>1. /\ Latest \in Nat /\ DOMAIN ledgers = Past
      /\ \A k \in Past : k \in Nat /\ ledgers[k] \in Ledger
  BY DEF TypeOK, Latest, Past
<1>2. \A ledger \in Ledger : /\ ledger.events \in Seq(ContractEvent)
                            /\ ledger.active \in [Id -> 0..MaxCharge]
  BY DEF Ledger
<1>3. \A k \in Past, id \in Id : ActiveAt(k, id) \in 0..MaxCharge
  BY <1>1, <1>2 DEF ActiveAt
<1> QED BY <1>1, <1>2, <1>3

LEMMA ServerShape ==
  ASSUME TypeOK, NEW server \in Server
  PROVE  server.latest \in Past /\ server.latest \in Nat /\ server.oldest \in Nat \ {0}
<1>1. PICK ledger \in 1..Latest, kept \in Kept :
        server = [latest |-> ledger, oldest |-> IF ledger > kept THEN ledger - kept + 1 ELSE 1]
  BY DEF Server
<1>2. Latest \in Nat /\ kept \in Nat
  BY PastShape, ServerAssumption
<1> QED BY <1>1, <1>2 DEF Past

LEMMA CreatedShape ==
  ASSUME NEW k
  PROVE  CreatedIn(k) \in 0..LastId /\ \A id \in CreatedUpTo(k) : id <= CreatedIn(k)
<1>1. CreatedUpTo(k) \in SUBSET (1..LastId) /\ LastId \in Nat
  BY LimitAssumption DEF CreatedUpTo, Id
<1>2. CASE CreatedUpTo(k) = {}
  BY <1>1, <1>2 DEF CreatedIn
<1>3. CASE CreatedUpTo(k) # {}
  <2>1. \E id \in CreatedUpTo(k) : \A other \in CreatedUpTo(k) : other <= id
    BY <1>1, <1>3, MaxExists
  <2>2. PICK top : top = CreatedIn(k)
    OBVIOUS
  <2>3. top = CHOOSE id \in CreatedUpTo(k) : \A other \in CreatedUpTo(k) : other <= id
    BY <1>3, <2>2 DEF CreatedIn
  <2>4. top \in CreatedUpTo(k) /\ \A other \in CreatedUpTo(k) : other <= top
    BY <2>1, <2>3
  <2> QED BY <1>1, <2>2, <2>4
<1> QED BY <1>2, <1>3

LEMMA InitType == Init => TypeOK /\ RoundIsInPast
<1> SUFFICES ASSUME Init PROVE TypeOK /\ RoundIsInPast
  OBVIOUS
<1>1. Nothing \in [Id -> 0..MaxCharge]
  BY LimitAssumption DEF Nothing
<1>2. ledgers \in Seq(Ledger) /\ Latest \in Nat
  BY <1>1 DEF Init, Ledger, Latest
<1>3. round \in Round /\ round.step = "idle"
  BY LimitAssumption DEF Init, IdleRound, Round
<1>4. /\ contract \in [Id -> Entry]
      /\ calls \in 0..MaxCalls /\ closing \in Seq(ContractEvent)
  BY LimitAssumption DEF Init, NoEntry, Entry
<1> QED BY <1>1, <1>2, <1>3, <1>4, LimitAssumption DEF Init, TypeOK, RoundIsInPast

(* A ledger closes with what the contract did in it. *)
LEMMA CloseShape ==
  ASSUME TypeOK, Close
  PROVE  /\ contract' = contract /\ calls' = calls /\ closing' = <<>>
         /\ ledgers' \in Seq(Ledger)
         /\ Latest' = Latest + 1 /\ Latest \in Nat
         /\ \A k \in Past : ledgers'[k] = ledgers[k]
         /\ ledgers'[Latest'].active = [id \in Id |-> Active(contract[id])]
         /\ ledgers'[Latest'].events = closing
<1> DEFINE closed == [active |-> [id \in Id |-> Active(contract[id])], events |-> closing]
<1>1. \A id \in Id : Active(contract[id]) \in 0..MaxCharge
  BY LimitAssumption DEF TypeOK, Active, Entry
<1>2. closed \in Ledger
  BY <1>1 DEF TypeOK, Ledger
<1>3. closed.active = [id \in Id |-> Active(contract[id])] /\ closed.events = closing
  OBVIOUS
<1>4. /\ ledgers' = Append(ledgers, closed)
      /\ contract' = contract /\ calls' = calls /\ closing' = <<>>
  BY DEF Close
<1> HIDE DEF closed
<1>5. ledgers \in Seq(Ledger)
  BY DEF TypeOK
<1> QED BY <1>2, <1>3, <1>4, <1>5, AppendShape DEF Latest, Past

LEMMA EventShape ==
  \A type \in {"created", "deposited", "suspended", "cancelled", "charged"},
     id \in Id, charge \in 0..MaxCharge :
    /\ Event(type, id, charge) \in ContractEvent
    /\ Event(type, id, charge).type = type
    /\ Event(type, id, charge).id = id
    /\ Event(type, id, charge).charge = charge
BY DEF Event, ContractEvent

(* What a call does to a subscription, and what its event says; a charge that *)
(* empties the balance has a second event                                  *)
IsTold(entry, event) ==
  \/ /\ event.type = "charged"
     /\ contract[event.id].status = "active"
     /\ entry = [status |-> "active", charge |-> contract[event.id].charge + 1]
     /\ event.charge = entry.charge
  \/ /\ event.type \in {"created", "deposited"}
     /\ IF event.type = "created"
        THEN contract[event.id].status = "none" /\ event.charge = 1
        ELSE /\ contract[event.id].status # "none"
             /\ event.charge = contract[event.id].charge
     /\ entry = [status |-> "active", charge |-> event.charge]
  \/ /\ event.type = "cancelled"
     /\ contract[event.id].status # "none"
     /\ entry = [status |-> "cancelled", charge |-> contract[event.id].charge]

IsSuspended(entry, event) ==
  /\ event.type = "charged"
  /\ contract[event.id].status = "active"
  /\ entry = [status |-> "suspended", charge |-> contract[event.id].charge + 1]
  /\ event.charge = entry.charge

LEMMA ContractStepShape ==
  ASSUME TypeOK, ContractStep
  PROVE  /\ ledgers' = ledgers /\ calls' \in 0..MaxCalls
         /\ \E event \in ContractEvent, entry \in Entry :
              /\ contract' = [contract EXCEPT ![event.id] = entry]
              /\ \/ IsTold(entry, event) /\ closing' = closing \o <<event>>
                 \/ /\ IsSuspended(entry, event)
                    /\ closing' = closing \o <<event, Event("suspended", event.id, 0)>>
<1>0. contract \in [Id -> Entry] /\ MaxCharge \in Nat \ {0}
  BY LimitAssumption DEF TypeOK
<1>1. \A events : Tell(events) =>
        ledgers' = ledgers /\ calls' \in 0..MaxCalls /\ closing' = closing \o events
  BY LimitAssumption DEF Tell, TypeOK
<1>2. \A type \in {"created", "deposited", "suspended", "cancelled", "charged"},
         id \in Id, charge \in 0..MaxCharge :
        /\ Event(type, id, charge) \in ContractEvent
        /\ Event(type, id, charge).type = type
        /\ Event(type, id, charge).id = id
        /\ Event(type, id, charge).charge = charge
  BY EventShape
<1> DEFINE Goal(id) ==
      \E event \in ContractEvent, entry \in Entry :
        /\ event.id = id
        /\ contract' = [contract EXCEPT ![id] = entry]
        /\ \/ IsTold(entry, event) /\ closing' = closing \o <<event>>
           \/ /\ IsSuspended(entry, event)
              /\ closing' = closing \o <<event, Event("suspended", id, 0)>>
<1>3. ASSUME NEW id \in Id, Create(id) PROVE Goal(id)
  <2>1. PICK event : event = Event("created", id, 1)
    OBVIOUS
  <2>2. PICK entry : entry = [status |-> "active", charge |-> 1]
    OBVIOUS
  <2>3. entry \in Entry /\ event \in ContractEvent /\ event.id = id
    BY <1>0, <1>2, <2>1, <2>2 DEF Entry
  <2>4. IsTold(entry, event)
    BY <1>0, <1>2, <1>3, <2>1, <2>2 DEF Create, IsTold
  <2>5. /\ contract' = [contract EXCEPT ![id] = entry]
        /\ closing' = closing \o <<event>>
    BY <1>1, <1>3, <2>1, <2>2 DEF Create
  <2> QED BY <2>3, <2>4, <2>5
<1>4. ASSUME NEW id \in Id, Deposit(id) PROVE Goal(id)
  <2>1. PICK event : event = Event("deposited", id, contract[id].charge)
    OBVIOUS
  <2>2. PICK entry : entry = [status |-> "active", charge |-> contract[id].charge]
    OBVIOUS
  <2>3. contract[id] \in Entry /\ contract[id].charge \in 0..MaxCharge
    BY <1>0 DEF Entry
  <2>4. entry \in Entry /\ event \in ContractEvent /\ event.id = id
    BY <1>2, <2>1, <2>2, <2>3 DEF Entry
  <2>5. IsTold(entry, event)
    BY <1>2, <1>4, <2>1, <2>2, <2>3 DEF Deposit, IsTold
  <2>6. [contract[id] EXCEPT !.status = "active"] = entry
    BY <2>2, <2>3 DEF Entry
  <2>7. /\ contract' = [contract EXCEPT ![id] = entry]
        /\ closing' = closing \o <<event>>
    BY <1>1, <1>4, <2>1, <2>6 DEF Deposit
  <2> QED BY <2>4, <2>5, <2>7
<1>5. ASSUME NEW id \in Id, NEW next \in {"active", "suspended"}, Charge(id, next)
      PROVE  Goal(id)
  <2>1. PICK entry : entry = [status |-> next, charge |-> contract[id].charge + 1]
    OBVIOUS
  <2>2. PICK event : event = Event("charged", id, entry.charge)
    OBVIOUS
  <2>3. /\ contract[id].status = "active" /\ entry.charge <= MaxCharge
        /\ contract' = [contract EXCEPT ![id] = entry]
        /\ Tell(IF next = "active" THEN <<event>>
                ELSE <<event, Event("suspended", id, 0)>>)
    BY <1>5, <2>1, <2>2 DEF Charge
  <2>4. entry \in Entry /\ entry.charge \in 0..MaxCharge
    BY <1>0, <2>1, <2>3 DEF Entry
  <2>5. /\ event \in ContractEvent /\ event.id = id
        /\ event.type = "charged" /\ event.charge = entry.charge
    BY <1>2, <2>2, <2>4
  <2>6. CASE next = "active"
    <3>1. IsTold(entry, event)
      BY <2>1, <2>3, <2>5, <2>6 DEF IsTold
    <3>2. closing' = closing \o <<event>>
      BY <1>1, <2>3, <2>6
    <3> QED BY <2>3, <2>4, <2>5, <3>1, <3>2
  <2>7. CASE next = "suspended"
    <3>1. IsSuspended(entry, event)
      BY <2>1, <2>3, <2>5, <2>7 DEF IsSuspended
    <3>2. closing' = closing \o <<event, Event("suspended", id, 0)>>
      BY <1>1, <2>3, <2>7
    <3> QED BY <2>3, <2>4, <2>5, <3>1, <3>2
  <2> QED BY <2>6, <2>7
<1>6. ASSUME NEW id \in Id, Cancel(id) PROVE Goal(id)
  <2>1. PICK event : event = Event("cancelled", id, 0)
    OBVIOUS
  <2>2. PICK entry : entry = [status |-> "cancelled", charge |-> contract[id].charge]
    OBVIOUS
  <2>3. contract[id] \in Entry /\ contract[id].charge \in 0..MaxCharge
    BY <1>0 DEF Entry
  <2>4. entry \in Entry /\ event \in ContractEvent /\ event.id = id
    BY <1>0, <1>2, <2>1, <2>2, <2>3 DEF Entry
  <2>5. IsTold(entry, event)
    BY <1>0, <1>2, <1>6, <2>1, <2>2, <2>3 DEF Cancel, IsTold
  <2>6. [contract[id] EXCEPT !.status = "cancelled"] = entry
    BY <2>2, <2>3 DEF Entry
  <2>7. /\ contract' = [contract EXCEPT ![id] = entry]
        /\ closing' = closing \o <<event>>
    BY <1>1, <1>6, <2>1, <2>6 DEF Cancel
  <2> QED BY <2>4, <2>5, <2>7
<1>7. PICK id \in Id : Goal(id)
  BY <1>3, <1>4, <1>5, <1>6 DEF ContractStep
<1>8. ledgers' = ledgers /\ calls' \in 0..MaxCalls
  BY <1>1 DEF ContractStep, Create, Deposit, Charge, Cancel
<1> QED BY <1>7, <1>8

LEMMA LedgerStepType ==
  ASSUME TypeOK, RoundIsInPast, LedgerStep
  PROVE  TypeOK' /\ RoundIsInPast'
<1>0. Latest \in Nat /\ contract \in [Id -> Entry] /\ closing \in Seq(ContractEvent)
  BY PastShape DEF TypeOK
<1>1. CASE Close
  <2>1. /\ contract' \in [Id -> Entry] /\ calls' = calls /\ closing' \in Seq(ContractEvent)
        /\ ledgers' \in Seq(Ledger) /\ Latest' = Latest + 1
    BY <1>0, <1>1, CloseShape
  <2>2. lastLedger' \in 0..Latest'
    BY <1>0, <2>1 DEF LedgerStep, TypeOK
  <2> QED BY <2>1, <2>2 DEF LedgerStep, TypeOK, RoundIsInPast
<1>2. CASE ContractStep
  <2>1. PICK event \in ContractEvent, entry \in Entry :
          /\ contract' = [contract EXCEPT ![event.id] = entry]
          /\ \/ closing' = closing \o <<event>>
             \/ closing' = closing \o <<event, Event("suspended", event.id, 0)>>
    BY <1>2, ContractStepShape
  <2>2. PICK suspended \in ContractEvent : suspended = Event("suspended", event.id, 0)
    <3>1. event.id \in Id /\ 0 \in 0..MaxCharge
      BY LimitAssumption DEF ContractEvent
    <3> QED BY <3>1, EventShape
  <2>3. closing' \in Seq(ContractEvent)
    <3>1. /\ closing \o <<event>> \in Seq(ContractEvent)
          /\ closing \o <<event, suspended>> \in Seq(ContractEvent)
      BY <1>0
    <3> QED BY <2>1, <2>2, <3>1
  <2>4. contract' \in [Id -> Entry]
    BY <1>0, <2>1
  <2>5. ledgers' = ledgers /\ calls' \in 0..MaxCalls /\ Latest' = Latest
    BY <1>2, ContractStepShape DEF Latest
  <2> QED BY <2>3, <2>4, <2>5 DEF LedgerStep, TypeOK, RoundIsInPast
<1> QED BY <1>1, <1>2 DEF LedgerStep

LEMMA ReplayShape ==
  /\ IdleRound \in Round /\ IdleRound.step = "idle"
  /\ \A start \in Int : /\ Replay(start) \in Round
                        /\ Replay(start).step = "replay"
                        /\ Replay(start).start = start
                        /\ Replay(start).next = 1
<1>1. IdleRound \in Round /\ IdleRound.step = "idle" /\ IdleRound.next = 1
  BY LimitAssumption DEF IdleRound, Round
<1> QED BY <1>1 DEF Replay, Round

(* The ledgers of a replay *)
LEMMA ReplayTypes ==
  ASSUME TypeOK, RoundIsInPast, round.step = "replay"
  PROVE  /\ round.start \in Past /\ round.start \in Nat \ {0} /\ round.next \in Nat \ {0}
         /\ lastLedger \in Past /\ lastLedger \in Nat /\ round.start <= lastLedger
         /\ Latest \in Nat /\ lastLedger <= Latest
<1>1. round \in Round /\ lastLedger \in 0..Latest /\ round.start \in 1..lastLedger /\ Latest \in Nat
  BY PastShape DEF TypeOK, RoundIsInPast
<1> QED BY <1>1 DEF Round, Past

LEMMA RoundStepType ==
  ASSUME TypeOK, RoundIsInPast, RoundStep
  PROVE  TypeOK' /\ RoundIsInPast'
<1>0. /\ round \in Round /\ IdleRound \in Round /\ IdleRound.step = "idle"
      /\ Nothing \in [Id -> 0..MaxCharge] /\ LastId \in Nat /\ MaxCharge \in Nat
  BY LimitAssumption DEF TypeOK, IdleRound, Round, Nothing
<1>1. CASE GetEventsLedgerInfo
  <2>1. PICK server \in Server :
          /\ subscriptions' = IF IsOutOfRange(server) THEN Nothing ELSE subscriptions
          /\ round' = [IdleRound EXCEPT !.step = IF IsOutOfRange(server) THEN "top"
                                                 ELSE "events",
                                        !.start = StartLedger(server)]
    BY <1>1 DEF GetEventsLedgerInfo
  <2>2. StartLedger(server) \in Int
    BY ServerShape, ServerAssumption DEF StartLedger, TypeOK
  <2>3. round' \in Round /\ round'.step \in {"top", "events"} /\ round'.entries = <<>>
    BY <2>1, <2>2, <1>0 DEF Round, IdleRound
  <2>4. subscriptions' \in [Id -> 0..MaxCharge]
    BY <1>0, <2>1 DEF TypeOK
  <2> QED BY <1>1, <2>3, <2>4 DEF GetEventsLedgerInfo, ledgerVars, TypeOK, RoundIsInPast,
                                  Latest
<1>2. CASE GetLastSubscriptionId
  <2>1. PICK server \in Server :
          LET top == CreatedIn(server.latest)
          IN round' = [round EXCEPT !.top = top,
                                    !.step = IF top = 0 THEN "events" ELSE "entry"]
    BY <1>2 DEF GetLastSubscriptionId
  <2>2. PICK top \in 0..LastId : top = CreatedIn(server.latest)
    BY CreatedShape
  <2>3. round.step = "top" /\ round.entries = <<>>
    BY <1>2 DEF GetLastSubscriptionId, RoundIsInPast
  <2>4. /\ round' \in Round
        /\ round'.step \in {"events", "entry"}
        /\ round'.step = "entry" => Len(round'.entries) < round'.top
    <3>1. round' = [round EXCEPT !.top = top, !.step = IF top = 0 THEN "events" ELSE "entry"]
      BY <2>1, <2>2
    <3>2. round' \in Round
      BY <1>0, <3>1 DEF Round
    <3>3. /\ round'.step = IF top = 0 THEN "events" ELSE "entry"
          /\ round'.top = top /\ round'.entries = <<>>
      BY <1>0, <2>3, <3>1 DEF Round
    <3>4. top > 0 => Len(round'.entries) < round'.top
      BY <3>3
    <3> QED BY <1>0, <3>2, <3>3, <3>4
  <2> QED BY <1>2, <2>4 DEF GetLastSubscriptionId, ledgerVars, TypeOK, RoundIsInPast, Latest
<1>3. CASE GetSubscription
  <2>1. PICK server \in Server :
          LET id == Len(round.entries) + 1
              entries == Append(round.entries, ledgers[server.latest].active[id])
          IN IF id = round.top
             THEN /\ round' = [round EXCEPT !.step = "events", !.entries = <<>>]
                  /\ subscriptions' = Loaded(subscriptions, entries)
             ELSE /\ round' = [round EXCEPT !.entries = entries]
                  /\ UNCHANGED subscriptions
    BY <1>3 DEF GetSubscription
  <2> DEFINE id == Len(round.entries) + 1
             entry == ledgers[server.latest].active[id]
  <2>2. /\ round.step = "entry" /\ Len(round.entries) < round.top
        /\ round.entries \in Seq(0..MaxCharge) /\ round.top \in 0..LastId
    BY <1>0, <1>3 DEF GetSubscription, RoundIsInPast, Round
  <2>3. id \in Id /\ id <= round.top
    BY <1>0, <2>2 DEF Id
  <2>4. entry \in 0..MaxCharge
    BY <2>3, PastShape, ServerShape
  <2>5. PICK entries : entries = Append(round.entries, entry)
    OBVIOUS
  <2>6. entries \in Seq(0..MaxCharge) /\ Len(entries) = id
    BY <2>2, <2>4, <2>5, AppendShape
  <2>7. CASE id = round.top
    <3>1. /\ round' = [round EXCEPT !.step = "events", !.entries = <<>>]
          /\ subscriptions' = Loaded(subscriptions, entries)
      BY <2>1, <2>5, <2>7
    <3>2. round' \in Round /\ round'.step = "events"
      <4>1. <<>> \in Seq(0..MaxCharge)
        OBVIOUS
      <4> QED BY <1>0, <3>1, <4>1 DEF Round
    <3>3. subscriptions' \in [Id -> 0..MaxCharge]
      <4>1. \A i \in DOMAIN entries : entries[i] \in 0..MaxCharge
        BY <2>6, SeqShape
      <4>2. subscriptions \in [Id -> 0..MaxCharge]
        BY DEF TypeOK
      <4> QED BY <3>1, <4>1, <4>2 DEF Loaded
    <3> QED BY <1>3, <3>2, <3>3 DEF GetSubscription, ledgerVars, TypeOK, RoundIsInPast, Latest
  <2>8. CASE id # round.top
    <3>1. round' = [round EXCEPT !.entries = entries] /\ UNCHANGED subscriptions
      BY <2>1, <2>5, <2>8
    <3>2. /\ round' \in Round /\ round'.step = "entry"
          /\ round'.entries = entries /\ round'.top = round.top
      BY <1>0, <2>2, <2>6, <3>1 DEF Round
    <3>3. Len(round'.entries) < round'.top
      BY <2>2, <2>3, <2>6, <2>8, <3>2
    <3> QED BY <1>3, <3>1, <3>2, <3>3 DEF GetSubscription, ledgerVars, TypeOK, RoundIsInPast, Latest
  <2> QED BY <2>7, <2>8
<1>4. CASE ReadEvents
  <2>1. PICK server \in Server : Serves(server, round.start) /\ lastLedger' = server.latest
    BY <1>4 DEF ReadEvents
  <2>2. server.latest \in Past /\ server.latest \in Nat /\ server.oldest \in Nat \ {0}
    BY ServerShape
  <2>3. round.start \in 1..server.latest
    BY <2>1, <2>2 DEF Serves
  <2>4. round' \in Round /\ round'.step = "replay" /\ round'.start = round.start
    BY <1>4, <2>3, ReplayShape DEF ReadEvents
  <2> QED BY <1>4, <2>1, <2>2, <2>3, <2>4, PastShape
          DEF ReadEvents, ledgerVars, TypeOK, RoundIsInPast, Latest, Past
<1>5. CASE ProcessEvent
  <2> DEFINE events == ledgers[round.start].events
  <2>1. /\ round.step = "replay" /\ round.start \in 1..lastLedger
        /\ lastLedger \in Nat /\ lastLedger <= Latest /\ round.start \in Past
        /\ round.next \in Nat \ {0}
    <3>1. round.step = "replay"
      BY <1>5 DEF ProcessEvent
    <3>2. round.start \in 1..lastLedger
      BY <3>1 DEF RoundIsInPast
    <3> QED BY <3>1, <3>2, ReplayTypes
  <2>2. events \in Seq(ContractEvent)
    BY <2>1, PastShape
  <2>3. CASE round.next <= Len(events)
    <3>1. /\ subscriptions' = Processed(subscriptions, events[round.next])
          /\ round' = [round EXCEPT !.next = @ + 1]
      BY <1>5, <2>1, <2>2, <2>3, SeqShape DEF ProcessEvent
    <3>2. PICK event \in ContractEvent : event = events[round.next]
      BY <2>1, <2>2, <2>3
    <3>3. subscriptions' \in [Id -> 0..MaxCharge]
      <4>1. /\ event.id \in Id /\ event.charge \in 0..MaxCharge
            /\ event.type \in {"created", "deposited", "suspended", "cancelled", "charged"}
        BY <3>2 DEF ContractEvent
      <4>2. subscriptions \in [Id -> 0..MaxCharge] /\ 0 \in 0..MaxCharge
        BY <1>0 DEF TypeOK
      <4>3. subscriptions' = Processed(subscriptions, event)
        BY <3>1, <3>2
      <4> QED BY <4>1, <4>2, <4>3, Zenon DEF Processed
    <3>4. round' \in Round /\ round'.step = "replay" /\ round'.start = round.start
      <4>1. PICK next \in Nat \ {0} : next = round.next + 1
        BY <2>1
      <4>2. round' = [round EXCEPT !.next = next] /\ round.step = "replay"
        BY <2>1, <3>1, <4>1
      <4> QED BY <1>0, <4>2 DEF Round
    <3> QED BY <1>5, <2>1, <3>3, <3>4 DEF ProcessEvent, ledgerVars, TypeOK, RoundIsInPast, Latest
  <2>4. CASE round.next > Len(events)
    <3>1. /\ round' = IF round.start < lastLedger THEN Replay(round.start + 1)
                      ELSE [IdleRound EXCEPT !.step = "ready"]
          /\ UNCHANGED subscriptions
      BY <1>5, <2>1, <2>2, <2>4 DEF ProcessEvent
    <3>2. CASE round.start < lastLedger
      <4>1. round.start + 1 \in Int
        BY <2>1
      <4>2. /\ round' \in Round /\ round'.step = "replay"
            /\ round'.start = round.start + 1
        BY <3>1, <3>2, <4>1, ReplayShape
      <4>3. /\ UNCHANGED <<ledgerVars, subscriptions, lastLedger, failures, restarts>>
            /\ Latest' = Latest
        BY <1>5, <3>1 DEF ProcessEvent, ledgerVars, Latest
      <4>4. TypeOK'
        BY <4>2, <4>3 DEF TypeOK, ledgerVars
      <4>5. round.start + 1 \in 1..lastLedger
        BY <2>1, <3>2
      <4> QED BY <4>2, <4>3, <4>4, <4>5 DEF RoundIsInPast
    <3>3. CASE ~(round.start < lastLedger)
      <4>1. round' \in Round /\ round'.step = "ready"
        BY <1>0, <3>1, <3>3 DEF IdleRound, Round
      <4> QED BY <1>5, <3>1, <4>1 DEF ProcessEvent, ledgerVars, TypeOK, RoundIsInPast, Latest
    <3> QED BY <3>2, <3>3
  <2>5. Len(events) \in Nat
    BY <2>2
  <2> HIDE DEF events
  <2> QED BY <2>1, <2>3, <2>4, <2>5
<1>6. CASE EventsRefused
  BY <1>0, <1>6 DEF EventsRefused, ledgerVars, TypeOK, RoundIsInPast, Latest
<1> QED BY <1>1, <1>2, <1>3, <1>4, <1>5, <1>6 DEF RoundStep

LEMMA TypeStep ==
  ASSUME TypeOK, RoundIsInPast, [Next]_vars
  PROVE  TypeOK' /\ RoundIsInPast'
<1>1. CASE RoundStep
  BY <1>1, RoundStepType
<1>2. CASE LedgerStep
  BY <1>2, LedgerStepType
<1>3. CASE RoundFails
  BY <1>3, LimitAssumption
     DEF RoundFails, ledgerVars, IdleRound, Round, TypeOK, RoundIsInPast, Latest
<1>4. CASE Restart
  <2>1. Nothing \in [Id -> 0..MaxCharge] /\ IdleRound \in Round /\ IdleRound.step = "idle"
    BY LimitAssumption DEF Nothing, IdleRound, Round
  <2>2. 0 \in 0..Latest
    BY PastShape
  <2> QED BY <1>4, <2>1, <2>2, LimitAssumption
          DEF Restart, ledgerVars, TypeOK, RoundIsInPast, Latest
<1>5. CASE UNCHANGED vars
  BY <1>5 DEF vars, ledgerVars, TypeOK, RoundIsInPast, Latest
<1> QED BY <1>1, <1>2, <1>3, <1>4, <1>5 DEF Next

LEMMA TypeInv == Spec => [](TypeOK /\ RoundIsInPast)
<1>1. TypeOK /\ RoundIsInPast /\ [Next]_vars => TypeOK' /\ RoundIsInPast'
  BY TypeStep
<1> QED BY <1>1, InitType, PTL DEF Spec

(* The variables keep their types: what is replayed and loaded are events   *)
(* and entries of the contract.                                            *)
THEOREM TypeCorrect == Spec => []TypeOK
BY TypeInv, PTL

-----------------------------------------------------------------------------
(* The history of the contract *)

(* One more event. *)
LEMMA TellsMore ==
  ASSUME NEW events \in Seq(ContractEvent), NEW event \in ContractEvent, NEW id \in Id,
         NEW before, NEW v, NEW w,
         Tells(events, id, v), Links(events, id, before, v),
         \/ event.id # id /\ w = v
         \/ /\ event.id = id /\ event.type # "charged"
            /\ \A copy \in [Id -> 0..MaxCharge] : Processed(copy, event)[id] = w
         \/ /\ event.id = id /\ event.type = "charged" /\ event.charge > 0
            /\ v # 0 /\ w = event.charge,
         NEW more, more = Append(events, event)
  PROVE  Tells(more, id, w) /\ Links(more, id, before, w)
<1>1. PICK n : n = Len(events)
  OBVIOUS
<1>2. /\ n \in Nat /\ DOMAIN events = 1..n /\ DOMAIN more = 1..n + 1
      /\ \A i \in 1..n : more[i] = events[i]
      /\ more[n + 1] = event
  BY <1>1, AppendShape
<1> DEFINE S == Setting(events, id)
           C == Charging(events, id)
<1>3. /\ S \subseteq 1..n /\ C \subseteq 1..n
      /\ \A i \in S \cup C : i \in Nat /\ i <= n /\ more[i] = events[i]
  BY <1>2 DEF Setting, Charging
<1>4. CASE event.id # id /\ w = v
  <2>1. Setting(more, id) = S /\ Charging(more, id) = C
    BY <1>2, <1>4 DEF Setting, Charging
  <2>2. Tells(more, id, w)
    BY <1>3, <1>4, <2>1 DEF Tells
  <2> QED BY <1>4, <2>1, <2>2 DEF Links
<1>5. CASE /\ event.id = id /\ event.type # "charged"
           /\ \A copy \in [Id -> 0..MaxCharge] : Processed(copy, event)[id] = w
  <2>1. Setting(more, id) = S \cup {n + 1} /\ Charging(more, id) = C
    BY <1>2, <1>5 DEF Setting, Charging
  <2>2. \A i \in S \cup C : ~(n + 1 <= i)
    BY <1>2, <1>3
  <2>3. ASSUME NEW i \in Setting(more, id), \A j \in Setting(more, id) : j <= i
        PROVE  more[i] = event
    BY <1>2, <2>1, <2>2, <2>3
  <2>4. ASSUME NEW i \in Charging(more, id)
        PROVE  more[i].charge > 0 /\ ~(\A j \in Setting(more, id) : j <= i)
    BY <1>3, <2>1, <2>2, <2>4 DEF Tells
  <2>5. Tells(more, id, w)
    BY <1>5, <2>3, <2>4 DEF Tells
  <2> QED BY <2>1, <2>5 DEF Links
<1>6. CASE /\ event.id = id /\ event.type = "charged" /\ event.charge > 0
           /\ v # 0 /\ w = event.charge
  <2>1. Setting(more, id) = S /\ Charging(more, id) = C \cup {n + 1}
    BY <1>2, <1>6 DEF Setting, Charging
  <2>2. \A i \in S \cup C : ~(n + 1 <= i)
    BY <1>2, <1>3
  <2>3. w # 0
    BY <1>6
  <2>4. ASSUME NEW i \in S, \A j \in S : j <= i, NEW copy \in [Id -> 0..MaxCharge]
        PROVE  /\ Processed(copy, more[i])[id] = 0 <=> w = 0
               /\ ~(\A j \in Charging(more, id) : j <= i)
    BY <1>3, <1>6, <2>1, <2>2, <2>3, <2>4 DEF Tells
  <2>5. ASSUME NEW i \in Charging(more, id)
        PROVE  /\ more[i].charge > 0
               /\ (\A j \in Charging(more, id) : j <= i) => more[i].charge = w
    BY <1>2, <1>3, <1>6, <2>1, <2>2, <2>5 DEF Tells
  <2>6. Tells(more, id, w)
    BY <2>1, <2>3, <2>4, <2>5 DEF Tells
  <2> QED BY <1>6, <2>1, <2>3, <2>6 DEF Links
<1> QED BY <1>4, <1>5, <1>6

LEMMA ProcessedShape ==
  ASSUME NEW event \in ContractEvent, event.type # "charged", NEW copy \in [Id -> 0..MaxCharge]
  PROVE  Processed(copy, event)[event.id] =
           IF event.type \in {"created", "deposited"} THEN event.charge ELSE 0
<1>1. event.id \in Id /\ event.type \in {"created", "deposited", "suspended", "cancelled", "charged"}
  BY DEF ContractEvent
<1> QED BY <1>1 DEF Processed

(* The contract does something: the events of the ledger to come tell it too. *)
LEMMA ClosingByCall ==
  ASSUME TypeOK, ClosingTells, EntriesAreCreated, ContractStep
  PROVE  ClosingTells' /\ EntriesAreCreated'
<1>1. PICK event \in ContractEvent, entry \in Entry :
        /\ contract' = [contract EXCEPT ![event.id] = entry]
        /\ \/ IsTold(entry, event) /\ closing' = closing \o <<event>>
           \/ /\ IsSuspended(entry, event)
              /\ closing' = closing \o <<event, Event("suspended", event.id, 0)>>
  BY ContractStepShape
<1>2. ledgers' = ledgers /\ Latest' = Latest
  BY ContractStepShape DEF Latest
<1>3. PICK suspended \in ContractEvent :
        suspended.type = "suspended" /\ suspended.id = event.id
        /\ suspended = Event("suspended", event.id, 0)
  <2>1. event.id \in Id /\ 0 \in 0..MaxCharge
    BY LimitAssumption DEF ContractEvent
  <2> QED BY <2>1, EventShape
<1>4. PICK more \in Seq(ContractEvent) : more = Append(closing, event)
  BY ConcatShape DEF TypeOK
<1>5. PICK called \in Id : called = event.id
  BY DEF ContractEvent
<1>6. /\ contract \in [Id -> Entry] /\ closing \in Seq(ContractEvent)
      /\ \A id \in Id : contract[id].charge \in 0..MaxCharge
      /\ MaxCharge \in Nat \ {0}
  BY LimitAssumption DEF TypeOK, Entry
<1>7. /\ \A id \in Id : id # called => contract'[id] = contract[id]
      /\ contract'[called] = entry
  BY <1>1, <1>5, <1>6
<1>8. \/ IsTold(entry, event) /\ closing' = more
      \/ IsSuspended(entry, event) /\ closing' = Append(more, suspended)
  BY <1>1, <1>3, <1>4, <1>6, ConcatShape
<1>9. /\ entry.status # "none" /\ entry.charge > 0
      /\ contract[called].status = "none" => event.type = "created"
  <2>1. contract[called].status # "none" => contract[called].charge > 0
    BY DEF EntriesAreCreated
  <2>2. contract[called].charge \in Nat
    BY <1>6
  <2> QED BY <1>5, <1>8, <2>1, <2>2 DEF IsTold, IsSuspended
<1>10. ASSUME NEW id \in Id
       PROVE  /\ Tells(closing, id, Active(contract[id]))'
              /\ Links(closing, id, ActiveAt(Latest, id), Active(contract[id]))'
  <2> DEFINE before == ActiveAt(Latest, id)
             old == Active(contract[id])
             new == Active(contract'[id])
  <2>0. Tells(closing, id, old) /\ Links(closing, id, before, old)
    BY DEF ClosingTells
  <2>00. before' = before
    BY <1>2 DEF ActiveAt
  <2>1. CASE id # called
    <3>1. new = old
      BY <1>7, <2>1
    <3>2. Tells(more, id, old) /\ Links(more, id, before, old)
      BY <1>4, <1>5, <1>6, <2>0, <2>1, TellsMore
    <3>3. Tells(Append(more, suspended), id, old) /\ Links(Append(more, suspended), id, before, old)
      BY <1>3, <1>5, <2>1, <3>2, TellsMore
    <3> QED BY <1>8, <2>00, <3>1, <3>2, <3>3 DEF Tells, Links
  <2>2. CASE id = called /\ IsTold(entry, event) /\ closing' = more
    <3>1. new = Active(entry)
      BY <1>7, <2>2
    <3>2. CASE event.type = "charged"
      <4>1. /\ contract[id].status = "active" /\ old = contract[id].charge
            /\ event.charge = entry.charge /\ new = entry.charge /\ entry.charge > 0
        BY <1>5, <1>9, <2>2, <3>1, <3>2 DEF IsTold, Active
      <4>2. old # 0
        BY <4>1 DEF EntriesAreCreated
      <4>3. Tells(more, id, new) /\ Links(more, id, before, new)
        BY <1>4, <1>5, <1>6, <2>0, <2>2, <3>2, <4>1, <4>2, TellsMore
      <4> QED BY <2>2, <2>00, <4>3 DEF Tells, Links
    <3>3. CASE event.type # "charged"
      <4>1. new = IF event.type \in {"created", "deposited"} THEN event.charge ELSE 0
        BY <2>2, <3>1, <3>3 DEF IsTold, Active
      <4>2. \A copy \in [Id -> 0..MaxCharge] : Processed(copy, event)[id] = new
        BY <1>5, <2>2, <3>3, <4>1, ProcessedShape
      <4>3. Tells(more, id, new) /\ Links(more, id, before, new)
        BY <1>4, <1>5, <1>6, <2>0, <2>2, <3>3, <4>2, TellsMore
      <4> QED BY <2>2, <2>00, <4>3 DEF Tells, Links
    <3> QED BY <3>2, <3>3
  <2>3. CASE id = called /\ IsSuspended(entry, event) /\ closing' = Append(more, suspended)
    <3>1. new = 0
      BY <1>7, <2>3 DEF IsSuspended, Active
    <3>2. /\ contract[id].status = "active" /\ old = contract[id].charge
          /\ event.charge > 0 /\ event.type = "charged"
      BY <1>5, <1>9, <2>3 DEF IsSuspended, Active
    <3>3. old # 0
      BY <3>2 DEF EntriesAreCreated
    <3>4. Tells(more, id, event.charge) /\ Links(more, id, before, event.charge)
      BY <1>4, <1>5, <1>6, <2>0, <2>3, <3>2, <3>3, TellsMore
    <3>5. \A copy \in [Id -> 0..MaxCharge] : Processed(copy, suspended)[id] = 0
      BY <1>3, <1>5, <2>3, ProcessedShape
    <3>6. Tells(Append(more, suspended), id, 0) /\ Links(Append(more, suspended), id, before, 0)
      BY <1>3, <1>5, <2>3, <3>4, <3>5, TellsMore
    <3> QED BY <2>3, <2>00, <3>1, <3>6 DEF Tells, Links
  <2> QED BY <1>8, <2>1, <2>2, <2>3
<1>11. EntriesAreCreated'
  <2> SUFFICES ASSUME NEW id \in Id, contract'[id].status # "none"
               PROVE  /\ contract'[id].charge > 0
                      /\ \/ id \in CreatedUpTo(Latest)
                         \/ \E i \in DOMAIN closing' :
                              closing'[i].type = "created" /\ closing'[i].id = id
    BY <1>2 DEF EntriesAreCreated, CreatedUpTo
  <2>1. PICK n : n = Len(closing)
    OBVIOUS
  <2>2. /\ n \in Nat /\ DOMAIN closing = 1..n /\ 1..n + 1 \subseteq DOMAIN closing'
        /\ \A i \in 1..n : closing'[i] = closing[i]
        /\ closing'[n + 1] = event
    <3>1. /\ n \in Nat /\ DOMAIN closing = 1..n /\ DOMAIN more = 1..n + 1
          /\ Len(more) = n + 1
          /\ \A i \in 1..n : more[i] = closing[i]
          /\ more[n + 1] = event
      BY <1>4, <1>6, <2>1, AppendShape
    <3>2. /\ DOMAIN Append(more, suspended) = 1..n + 2
          /\ \A i \in 1..n + 1 : Append(more, suspended)[i] = more[i]
      BY <3>1, AppendShape
    <3>3. 1..n + 1 \subseteq 1..n + 2 /\ n + 1 \in 1..n + 1 /\ \A i \in 1..n : i \in 1..n + 1
      BY <3>1
    <3> QED BY <1>8, <3>1, <3>2, <3>3
  <2>3. n + 1 \in DOMAIN closing' /\ \A i \in DOMAIN closing : i \in DOMAIN closing'
    BY <2>2
  <2>4. CASE contract[id].status # "none"
    <3>1. contract[id].charge > 0 => contract'[id].charge > 0
      BY <1>7, <1>9
    <3> QED BY <2>2, <2>3, <2>4, <3>1 DEF EntriesAreCreated
  <2>5. CASE contract[id].status = "none"
    BY <1>5, <1>7, <1>9, <2>2, <2>3, <2>5
  <2> QED BY <2>4, <2>5
<1> QED BY <1>2, <1>10, <1>11 DEF ClosingTells

(* Ledgers that closed stay as they are. *)
LEMMA LedgersGrow ==
  ASSUME TypeOK, Close
  PROVE  /\ Latest \in Nat /\ Latest' = Latest + 1
         /\ \A k \in Past : k \in Nat /\ k <= Latest /\ ledgers'[k] = ledgers[k]
         /\ Past \subseteq Past' /\ Latest' \in Past'
         /\ \A k \in Past' : k \in Past \/ k = Latest'
         /\ \A k \in Past, id \in Id :
              /\ Sets(k, id)' = Sets(k, id)
              /\ Charges(k, id)' = Charges(k, id)
              /\ ActiveAt(k, id)' = ActiveAt(k, id)
<1>1. Latest \in Nat /\ Latest' = Latest + 1 /\ \A k \in Past : ledgers'[k] = ledgers[k]
  BY CloseShape
<1>2. /\ Past \subseteq Past' /\ Latest' \in Past'
      /\ \A k \in Past : k \in Nat /\ k <= Latest
      /\ \A k \in Past' : k \in Past \/ k = Latest'
  BY <1>1 DEF Past
<1>3. \A k \in Past, id \in Id :
        /\ Sets(k, id)' = Sets(k, id)
        /\ Charges(k, id)' = Charges(k, id)
        /\ ActiveAt(k, id)' = ActiveAt(k, id)
  BY <1>1 DEF Sets, Charges, Setting, Charging, ActiveAt
<1> QED BY <1>1, <1>2, <1>3

LEMMA CreatedGrows ==
  ASSUME TypeOK, Close
  PROVE  /\ \A k \in Past : CreatedUpTo(k)' = CreatedUpTo(k)
         /\ \A N : N = Latest' => CreatedUpTo(Latest) \subseteq CreatedUpTo(N)'
<1>1. /\ Latest \in Nat /\ Latest' = Latest + 1
      /\ \A k \in Past : k \in Nat /\ k <= Latest /\ ledgers'[k] = ledgers[k]
  BY LedgersGrow
<1>2. ASSUME NEW k \in Past PROVE CreatedUpTo(k)' = CreatedUpTo(k)
  <2>1. \A l \in 1..k : l \in Past /\ ledgers'[l] = ledgers[l]
    BY <1>1 DEF Past
  <2> QED BY <2>1 DEF CreatedUpTo
<1>3. ASSUME NEW N, N = Latest' PROVE CreatedUpTo(Latest) \subseteq CreatedUpTo(N)'
  <2>1. \A l \in 1..Latest : l \in 1..N /\ ledgers'[l] = ledgers[l]
    BY <1>1, <1>3 DEF Past
  <2> QED BY <2>1 DEF CreatedUpTo
<1> QED BY <1>2, <1>3

LEMMA HistoryByClose ==
  ASSUME TypeOK, HistoryInv, Close
  PROVE  HistoryInv'
<1>1. PICK N : N = Latest'
  OBVIOUS
<1>2. /\ Latest \in Nat /\ N = Latest + 1 /\ Latest >= 1 /\ Latest \in Past
      /\ \A k \in Past : k \in Nat /\ k <= Latest /\ ledgers'[k] = ledgers[k]
      /\ N \in Past'
      /\ \A k \in Past' : k \in Past \/ k = N
      /\ \A k \in Past, id \in Id :
           /\ Sets(k, id)' = Sets(k, id)
           /\ Charges(k, id)' = Charges(k, id)
           /\ ActiveAt(k, id)' = ActiveAt(k, id)
  BY <1>1, LedgersGrow DEF HistoryInv, ClosingTells, Past
<1>3. /\ contract' = contract /\ closing' = <<>>
      /\ ledgers'[N].events = closing
      /\ \A id \in Id : ledgers'[N].active[id] = Active(contract[id])
  BY <1>1, CloseShape
<1>4. \A id \in Id :
        /\ Sets(N, id)' = Setting(closing, id)
        /\ Charges(N, id)' = Charging(closing, id)
        /\ ActiveAt(N, id)' = Active(contract[id])
  BY <1>3 DEF Sets, Charges, Setting, Charging, ActiveAt
<1>5. \A id \in Id :
        /\ Tells(closing, id, Active(contract[id]))
        /\ Links(closing, id, ActiveAt(Latest, id), Active(contract[id]))
  BY DEF HistoryInv, ClosingTells
<1>6. \A id \in Id : contract'[id].status # "none" =>
        contract'[id].charge > 0 /\ id \in CreatedUpTo(N)'
  <2> SUFFICES ASSUME NEW id \in Id, contract[id].status # "none"
               PROVE  contract[id].charge > 0 /\ id \in CreatedUpTo(N)'
    BY <1>3
  <2>1. /\ contract[id].charge > 0
        /\ \/ id \in CreatedUpTo(Latest)
           \/ \E i \in DOMAIN closing : closing[i].type = "created" /\ closing[i].id = id
    BY DEF HistoryInv, EntriesAreCreated
  <2>2. CASE id \in CreatedUpTo(Latest)
    BY <1>1, <2>1, <2>2, CreatedGrows
  <2>3. CASE \E i \in DOMAIN closing : closing[i].type = "created" /\ closing[i].id = id
    <3>1. PICK i \in DOMAIN closing : closing[i].type = "created" /\ closing[i].id = id
      BY <2>3
    <3>2. closing[i] \in ToSet(ledgers'[N].events)
      BY <1>3 DEF ToSet
    <3>3. N \in 1..N
      BY <1>2
    <3> QED BY <2>1, <3>1, <3>2, <3>3 DEF CreatedUpTo
  <2> QED BY <2>1, <2>2, <2>3
<1>7. ClosingTells'
  <2>1. ASSUME NEW id \in Id
        PROVE  /\ Tells(<<>>, id, Active(contract[id]))
               /\ Links(<<>>, id, Active(contract[id]), Active(contract[id]))
    <3>1. Setting(<<>>, id) = {} /\ Charging(<<>>, id) = {}
      BY DEF Setting, Charging
    <3> QED BY <3>1 DEF Tells, Links
  <2>2. \A id \in Id : ActiveAt(Latest, id)' = Active(contract[id])
    BY <1>1, <1>4 DEF ActiveAt
  <2>3. Latest' >= 1
    BY <1>1, <1>2
  <2> QED BY <1>3, <2>1, <2>2, <2>3 DEF ClosingTells, Tells, Links
<1>8. EntriesAreCreated'
  <2>1. CreatedUpTo(Latest)' = CreatedUpTo(N)'
    BY <1>1 DEF CreatedUpTo
  <2> QED BY <1>6, <2>1 DEF EntriesAreCreated
<1>9. EventsTell'
  <2> SUFFICES ASSUME NEW k \in Past', NEW id \in Id
               PROVE  Tells(ledgers'[k].events, id, ActiveAt(k, id)')
    BY DEF EventsTell, Tells
  <2>1. CASE k \in Past
    <3>1. ActiveAt(k, id)' = ActiveAt(k, id) /\ ledgers'[k] = ledgers[k]
      BY <1>2, <2>1
    <3> QED BY <2>1, <3>1 DEF HistoryInv, EventsTell
  <2>2. CASE k = N
    BY <1>3, <1>4, <1>5, <2>2
  <2> QED BY <1>2, <2>1, <2>2
<1>10. HistoryIsTold'
  <2> SUFFICES ASSUME NEW a \in Past', NEW b \in Past', NEW id \in Id,
                      a <= b, \A k \in a + 1..b : Sets(k, id)' = {}
               PROVE  /\ ActiveAt(a, id)' = 0 <=> ActiveAt(b, id)' = 0
                      /\ (\A k \in a + 1..b : Charges(k, id)' = {})
                           => ActiveAt(a, id)' = ActiveAt(b, id)'
    BY DEF HistoryIsTold
  <2>1. CASE b \in Past
    <3>1. a \in Past
      BY <1>2, <2>1
    <3>2. \A k \in a + 1..b : k \in Past
      BY <1>2, <2>1, <3>1 DEF Past
    <3>3. \A k \in a + 1..b : Sets(k, id) = {}
      BY <1>2, <3>2
    <3>4. /\ ActiveAt(a, id) = 0 <=> ActiveAt(b, id) = 0
          /\ (\A k \in a + 1..b : Charges(k, id) = {}) => ActiveAt(a, id) = ActiveAt(b, id)
      BY <2>1, <3>1, <3>3 DEF HistoryInv, HistoryIsTold
    <3> QED BY <1>2, <2>1, <3>1, <3>2, <3>4
  <2>2. CASE b = N /\ a \in Past
    <3>1. a \in Nat /\ a <= Latest /\ N \in a + 1..b /\ \A k \in a + 1..Latest : k \in a + 1..b
      <4>1. /\ a \in Nat /\ a <= Latest /\ Latest \in Nat
            /\ N = Latest + 1 /\ b = Latest + 1
        BY <1>2, <2>2
      <4> QED BY <4>1
    <3>2. \A k \in a + 1..Latest : k \in Past
      BY <1>2, <2>2 DEF Past
    <3>3. \A k \in a + 1..Latest : Sets(k, id) = {}
      BY <1>2, <3>1, <3>2
    <3>4. /\ ActiveAt(a, id) = 0 <=> ActiveAt(Latest, id) = 0
          /\ (\A k \in a + 1..Latest : Charges(k, id) = {})
                => ActiveAt(a, id) = ActiveAt(Latest, id)
      BY <1>2, <2>2, <3>1, <3>3 DEF HistoryInv, HistoryIsTold
    <3>5. /\ Setting(closing, id) = {} /\ ActiveAt(a, id)' = ActiveAt(a, id)
          /\ ActiveAt(b, id)' = Active(contract[id])
      BY <1>2, <1>4, <2>2, <3>1
    <3>6. /\ ActiveAt(Latest, id) = 0 <=> Active(contract[id]) = 0
          /\ Charging(closing, id) = {} => ActiveAt(Latest, id) = Active(contract[id])
      BY <1>5, <3>5 DEF Links
    <3>7. (\A k \in a + 1..b : Charges(k, id)' = {}) =>
            /\ Charging(closing, id) = {}
            /\ \A k \in a + 1..Latest : Charges(k, id) = {}
      BY <1>2, <1>4, <3>1, <3>2
    <3> QED BY <3>4, <3>5, <3>6, <3>7
  <2>3. CASE b = N /\ a = N
    BY <2>3
  <2> QED BY <1>2, <2>1, <2>2, <2>3
<1>11. ActiveIsCreated'
  <2> SUFFICES ASSUME NEW k \in Past', NEW id \in Id, ActiveAt(k, id)' # 0
               PROVE  id \in CreatedUpTo(k)'
    BY DEF ActiveIsCreated
  <2>1. CASE k \in Past
    <3>1. ActiveAt(k, id) # 0
      BY <1>2, <2>1
    <3>2. id \in CreatedUpTo(k)
      BY <2>1, <3>1 DEF HistoryInv, ActiveIsCreated
    <3> QED BY <2>1, <3>2, CreatedGrows
  <2>2. CASE k = N
    <3>1. Active(contract[id]) # 0
      BY <1>4, <2>2
    <3>2. contract'[id].status # "none"
      BY <1>3, <3>1 DEF Active
    <3> QED BY <1>6, <2>2, <3>2
  <2> QED BY <1>2, <2>1, <2>2
<1> QED BY <1>7, <1>8, <1>9, <1>10, <1>11 DEF HistoryInv

LEMMA LedgersStay ==
  ASSUME UNCHANGED ledgers
  PROVE  /\ Latest' = Latest /\ Past' = Past /\ Server' = Server
         /\ \A k, id : /\ Sets(k, id)' = Sets(k, id)
                       /\ Charges(k, id)' = Charges(k, id)
                       /\ ActiveAt(k, id)' = ActiveAt(k, id)
         /\ \A k : CreatedUpTo(k)' = CreatedUpTo(k)
<1>1. Latest' = Latest /\ Past' = Past /\ Server' = Server
  BY DEF Latest, Past, Server
<1>2. \A k, id : /\ Sets(k, id)' = Sets(k, id)
                /\ Charges(k, id)' = Charges(k, id)
                /\ ActiveAt(k, id)' = ActiveAt(k, id)
  BY DEF Sets, Charges, Setting, Charging, ActiveAt
<1>3. \A k : CreatedUpTo(k)' = CreatedUpTo(k)
  BY DEF CreatedUpTo
<1> QED BY <1>1, <1>2, <1>3

LEMMA SameLedgers ==
  ASSUME UNCHANGED ledgerVars
  PROVE  /\ Latest' = Latest /\ Past' = Past /\ Server' = Server
         /\ \A k, id : /\ Sets(k, id)' = Sets(k, id)
                       /\ Charges(k, id)' = Charges(k, id)
                       /\ ActiveAt(k, id)' = ActiveAt(k, id)
BY LedgersStay DEF ledgerVars

LEMMA ClosedUnchanged ==
  ASSUME EventsTell, HistoryIsTold, ActiveIsCreated, UNCHANGED ledgers
  PROVE  EventsTell' /\ HistoryIsTold' /\ ActiveIsCreated'
<1>1. /\ Past' = Past
      /\ \A k, id : /\ Sets(k, id)' = Sets(k, id)
                    /\ Charges(k, id)' = Charges(k, id)
                    /\ ActiveAt(k, id)' = ActiveAt(k, id)
      /\ \A k : CreatedUpTo(k)' = CreatedUpTo(k)
  BY LedgersStay
<1>2. EventsTell'
  BY <1>1 DEF EventsTell, Tells
<1>3. HistoryIsTold'
  BY <1>1 DEF HistoryIsTold
<1>4. ActiveIsCreated'
  BY <1>1 DEF ActiveIsCreated
<1> QED BY <1>2, <1>3, <1>4

LEMMA HistoryUnchanged ==
  ASSUME HistoryInv, UNCHANGED ledgerVars
  PROVE  HistoryInv'
<1>1. contract' = contract /\ closing' = closing /\ ledgers' = ledgers
  BY DEF ledgerVars
<1>2. /\ Latest' = Latest /\ \A id : ActiveAt(Latest, id)' = ActiveAt(Latest, id)
      /\ CreatedUpTo(Latest)' = CreatedUpTo(Latest)
  BY <1>1 DEF Latest, ActiveAt, CreatedUpTo
<1>3. ClosingTells'
  BY <1>1, <1>2 DEF HistoryInv, ClosingTells, Tells, Links
<1>4. EntriesAreCreated'
  BY <1>1, <1>2 DEF HistoryInv, EntriesAreCreated
<1> QED BY <1>1, <1>3, <1>4, ClosedUnchanged DEF HistoryInv

LEMMA HistoryInit == Init => HistoryInv
<1> SUFFICES ASSUME Init PROVE HistoryInv
  OBVIOUS
<1>1. /\ Latest = 1 /\ Past = {1} /\ closing = <<>>
      /\ ledgers[1] = [active |-> Nothing, events |-> <<>>]
  BY DEF Init, Latest, Past
<1>2. /\ \A id \in Id : ActiveAt(1, id) = 0
      /\ ledgers[1].events = <<>>
  BY <1>1 DEF ActiveAt, Nothing
<1>3. \A id : Setting(<<>>, id) = {} /\ Charging(<<>>, id) = {}
  BY DEF Setting, Charging
<1>4. \A id \in Id : contract[id].status = "none" /\ Active(contract[id]) = 0
  BY DEF Init, NoEntry, Active
<1>5. ClosingTells /\ EntriesAreCreated
  BY <1>1, <1>2, <1>3, <1>4 DEF ClosingTells, EntriesAreCreated, Tells, Links
<1>6. EventsTell /\ ActiveIsCreated
  BY <1>1, <1>2, <1>3 DEF EventsTell, ActiveIsCreated, Tells
<1>7. HistoryIsTold
  BY <1>1 DEF HistoryIsTold
<1> QED BY <1>5, <1>6, <1>7 DEF HistoryInv

LEMMA HistoryInvariant == Spec => [](TypeOK /\ RoundIsInPast /\ HistoryInv)
<1>1. Init => TypeOK /\ RoundIsInPast /\ HistoryInv
  BY InitType, HistoryInit
<1>2. TypeOK /\ RoundIsInPast /\ HistoryInv /\ [Next]_vars => HistoryInv'
  <2> SUFFICES ASSUME TypeOK, HistoryInv, [Next]_vars PROVE HistoryInv'
    OBVIOUS
  <2>1. CASE Close
    BY <2>1, HistoryByClose
  <2>2. CASE ContractStep
    BY <2>2, ClosingByCall, ClosedUnchanged, ContractStepShape DEF HistoryInv
  <2>3. CASE UNCHANGED ledgerVars
    BY <2>3, HistoryUnchanged
  <2>4. RoundStep \/ RoundFails \/ Restart \/ UNCHANGED vars => UNCHANGED ledgerVars
    BY DEF RoundStep, GetEventsLedgerInfo, GetLastSubscriptionId, GetSubscription,
           ReadEvents, ProcessEvent, EventsRefused, RoundFails, Restart, vars, ledgerVars
  <2> QED BY <2>1, <2>2, <2>3, <2>4 DEF Next, LedgerStep
<1> QED BY <1>1, <1>2, TypeInv, PTL DEF Spec

-----------------------------------------------------------------------------
(* The servers *)

OldestOf(ledger, kept) == IF ledger > kept THEN ledger - kept + 1 ELSE 1

LEMMA LagShape ==
  ASSUME ServersAreAlike \/ RequestsSucceed
  PROVE  Lag \in Nat /\ Window \in Nat /\ Lag <= Window
BY ServerAssumption DEF ServersAreAlike, RequestsSucceed

LEMMA ServerIs ==
  ASSUME TypeOK, NEW server \in Server
  PROVE  /\ server.latest \in Past /\ server.latest \in Nat /\ Latest - Lag <= server.latest
         /\ \E kept \in Kept : kept \in Nat \ {0} /\ server.oldest = OldestOf(server.latest, kept)
         /\ server.oldest \in Nat \ {0}
<1>1. PICK ledger \in {l \in 1..Latest : l >= Latest - Lag}, kept \in Kept :
        server = [latest |-> ledger, oldest |-> OldestOf(ledger, kept)]
  BY DEF Server, OldestOf
<1>2. Latest \in Nat /\ Lag \in Nat /\ kept \in Nat \ {0} /\ ledger \in 1..Latest
  BY <1>1, PastShape, ServerAssumption
<1>3. OldestOf(ledger, kept) \in Nat \ {0}
  BY <1>2 DEF OldestOf
<1> QED BY <1>1, <1>2, <1>3 DEF Past

LEMMA ServerOf ==
  ASSUME TypeOK, NEW ledger \in Past, Latest - Lag <= ledger, NEW kept \in Kept
  PROVE  \E server \in Server :
           server.latest = ledger /\ server.oldest = OldestOf(ledger, kept)
<1>1. Latest \in Nat /\ Lag \in Nat /\ ledger \in Nat
  BY PastShape, ServerAssumption
<1>2. ledger \in {l \in 1..Latest : l >= Latest - Lag}
  BY <1>1 DEF Past
<1>3. [latest |-> ledger, oldest |-> OldestOf(ledger, kept)] \in Server
  BY <1>2 DEF Server, OldestOf
<1> QED BY <1>3

(* Servers that are alike keep the same ledgers. *)
LEMMA AlikeOldest ==
  ASSUME ServersAreAlike, TypeOK, NEW server \in Server, NEW other \in Server
  PROVE  server.oldest = other.oldest
<1>1. PICK kept : Kept = {kept} /\ Lag = 0
  BY DEF ServersAreAlike
<1>2. \A s \in Server : s.latest = Latest /\ s.oldest = OldestOf(Latest, kept)
  <2> SUFFICES ASSUME NEW s \in Server PROVE s.latest = Latest /\ s.oldest = OldestOf(Latest, kept)
    OBVIOUS
  <2>1. /\ s.latest \in Past /\ s.latest \in Nat /\ Latest - 0 <= s.latest
        /\ s.oldest = OldestOf(s.latest, kept)
    BY <1>1, ServerIs
  <2>2. s.latest = Latest
    BY <2>1, PastShape DEF Past
  <2> QED BY <2>1, <2>2
<1> QED BY <1>2

(* No server keeps a ledger before the first one. *)
LEMMA RangeStarts ==
  ASSUME TypeOK
  PROVE  ~InRange(0)
<1>1. \A server \in Server : server.oldest \in Nat \ {0}
  BY ServerIs
<1> QED BY <1>1 DEF InRange

(* Ledgers leave the range and never come back. *)
LEMMA RangeShrinks ==
  ASSUME TypeOK, HistoryInv, Close, NEW l \in Int, InRange(l)'
  PROVE  InRange(l)
<1>1. Latest \in Nat /\ Latest >= 1 /\ Latest \in Past /\ Latest' = Latest + 1 /\ Lag \in Nat
  BY PastShape, LedgersGrow, ServerAssumption DEF HistoryInv, ClosingTells, Past
<1>2. PICK ledger \in 1..Latest', kept \in Kept :
        ledger >= Latest' - Lag /\ OldestOf(ledger, kept) <= l
  <2>1. PICK server \in Server' : server.oldest <= l
    BY DEF InRange
  <2>2. PICK ledger \in {k \in 1..Latest' : k >= Latest' - Lag}, kept \in Kept :
          server = [latest |-> ledger, oldest |-> OldestOf(ledger, kept)]
    BY DEF Server, OldestOf
  <2>3. server.oldest = OldestOf(ledger, kept)
    BY <2>2
  <2> QED BY <2>1, <2>2, <2>3
<1>3. kept \in Nat \ {0}
  BY ServerAssumption
<1>4. CASE ledger <= Latest
  <2>1. ledger \in Past /\ Latest - Lag <= ledger
    BY <1>1, <1>2, <1>4 DEF Past
  <2> QED BY <1>2, <2>1, ServerOf DEF InRange
<1>5. CASE ~(ledger <= Latest)
  <2>1. ledger = Latest + 1
    BY <1>1, <1>2, <1>5
  <2>2. OldestOf(Latest, kept) <= l
    BY <1>1, <1>2, <1>3, <2>1 DEF OldestOf
  <2>3. Latest - Lag <= Latest
    BY <1>1
  <2> QED BY <1>1, <2>2, <2>3, ServerOf DEF InRange
<1> QED BY <1>4, <1>5

-----------------------------------------------------------------------------
(* The copy *)

(* What a round leaves alone. *)
LEMMA CopyStays ==
  ASSUME UNCHANGED <<ledgerVars, subscriptions, lastLedger>>
  PROVE  /\ \A l : InRange(l)' <=> InRange(l)
         /\ InRange(lastLedger)' <=> InRange(lastLedger)
         /\ \A id : IsLate(id)' <=> IsLate(id)
<1>1. /\ Past' = Past /\ Server' = Server /\ lastLedger' = lastLedger
      /\ subscriptions' = subscriptions /\ \A k, id : ActiveAt(k, id)' = ActiveAt(k, id)
  BY SameLedgers
<1> QED BY <1>1 DEF InRange, IsLate

(* Where no event sets a subscription, its charges tell whether it is active, *)
(* and what it is if there are none.                                       *)
LEMMA Told ==
  ASSUME TypeOK, HistoryInv, NEW id \in Id, NEW s \in Nat \ {0}, NEW k \in Past,
         NEW b \in Past, s <= k + 1, k <= b, \A j \in s..b : Sets(j, id) = {}
  PROVE  /\ (\E j \in s..b : Charges(j, id) # {}) => ActiveAt(k, id) # 0
         /\ (\A j \in s..b : Charges(j, id) = {}) => ActiveAt(k, id) = ActiveAt(b, id)
<1>0. k \in Nat /\ b \in Nat /\ b <= Latest /\ Latest \in Nat /\ s \in Nat
  BY PastShape DEF Past
<1>1. /\ ActiveAt(k, id) = 0 <=> ActiveAt(b, id) = 0
      /\ (\A j \in k + 1..b : Charges(j, id) = {}) => ActiveAt(k, id) = ActiveAt(b, id)
  <2>1. \A j \in k + 1..b : Sets(j, id) = {}
    BY <1>0
  <2> QED BY <2>1 DEF HistoryInv, HistoryIsTold
<1>2. ASSUME NEW j \in s..b, Charges(j, id) # {} PROVE ActiveAt(k, id) # 0
  <2>1. j \in Past /\ j \in Nat /\ j <= b /\ Sets(j, id) = {}
    BY <1>0 DEF Past
  <2>2. PICK i \in Charges(j, id) : TRUE
    BY <1>2
  <2>3. Tells(ledgers[j].events, id, ActiveAt(j, id))
    BY <2>1 DEF HistoryInv, EventsTell
  <2>4. ActiveAt(j, id) # 0
    BY <2>1, <2>2, <2>3 DEF Tells, Sets, Charges
  <2>5. \A h \in j + 1..b : Sets(h, id) = {}
    BY <1>0, <2>1
  <2>6. ActiveAt(j, id) = 0 <=> ActiveAt(b, id) = 0
    BY <2>1, <2>5 DEF HistoryInv, HistoryIsTold
  <2> QED BY <1>1, <2>4, <2>6
<1>3. (\A j \in s..b : Charges(j, id) = {}) => \A j \in k + 1..b : Charges(j, id) = {}
  BY <1>0
<1> QED BY <1>1, <1>2, <1>3

LEMMA CopyByRange ==
  ASSUME ServersAreAlike \/ RequestsSucceed, TypeOK, HistoryInv, CopyInv, GetEventsLedgerInfo
  PROVE  CopyInv'
<1>1. PICK server \in Server :
        /\ subscriptions' = IF IsOutOfRange(server) THEN Nothing ELSE subscriptions
        /\ round' = [IdleRound EXCEPT !.step = IF IsOutOfRange(server) THEN "top" ELSE "events",
                                      !.start = StartLedger(server)]
  BY DEF GetEventsLedgerInfo
<1>2. /\ lastLedger' = lastLedger /\ round.step \in {"idle", "ready"} /\ UNCHANGED ledgerVars
      /\ lastLedger \in Nat /\ lastLedger <= Latest /\ Latest \in Nat
  BY PastShape DEF GetEventsLedgerInfo, TypeOK
<1>3. /\ Latest' = Latest /\ Past' = Past /\ Server' = Server
      /\ \A k, id : ActiveAt(k, id)' = ActiveAt(k, id)
  BY <1>2, SameLedgers
<1>4. /\ server.latest \in Nat /\ server.latest <= Latest /\ server.oldest \in Nat \ {0}
      /\ Lag \in Nat /\ Window \in Nat /\ Lag <= Window
  BY <1>2, ServerIs, LagShape DEF Past
<1>5. CASE IsOutOfRange(server)
  <2>1. /\ subscriptions' = Nothing /\ round'.step = "top"
        /\ round'.start = server.latest - Window /\ server.oldest > lastLedger
    BY <1>1, <1>5 DEF StartLedger, IdleRound, IsOutOfRange
  <2>2. ServersAreAlike => ~InRange(lastLedger)'
    <3>1. ServersAreAlike => \A other \in Server : other.oldest = server.oldest
      BY AlikeOldest
    <3>2. InRange(lastLedger)' => \E other \in Server : other.oldest <= lastLedger
      BY <1>2, <1>3 DEF InRange
    <3> QED BY <1>2, <1>4, <2>1, <3>1, <3>2
  <2>3. RequestsSucceed => lastLedger = 0 \/ lastLedger <= server.latest - Window
    <3> SUFFICES ASSUME RequestsSucceed PROVE lastLedger = 0 \/ lastLedger <= server.latest - Window
      OBVIOUS
    <3>1. PICK kept \in Kept : kept \in Nat \ {0} /\ server.oldest = OldestOf(server.latest, kept)
      BY ServerIs
    <3>2. Window <= kept
      BY <3>1 DEF RequestsSucceed
    <3> QED BY <1>2, <1>4, <2>1, <3>1, <3>2 DEF OldestOf
  <2>4. CopyInRange'
    BY <2>1 DEF CopyInRange
  <2>5. EndsOutOfRange'
    BY <1>2, <2>1, <2>2, <2>3 DEF EndsOutOfRange, ServersAreAlike, RequestsSucceed
  <2>6. LoadIsRecent'
    BY <1>2, <1>3, <1>4, <2>1 DEF LoadIsRecent
  <2> QED BY <2>1, <2>4, <2>5, <2>6 DEF CopyInv, ReplayConverges, ReadyIsLate
<1>6. CASE ~IsOutOfRange(server)
  <2>1. /\ subscriptions' = subscriptions /\ round'.step = "events"
        /\ round'.start = lastLedger
    BY <1>1, <1>6 DEF StartLedger, IdleRound
  <2>2. InRange(lastLedger)
    BY <1>2, <1>4, <1>6 DEF IsOutOfRange, InRange
  <2>3. \A id \in Id : IsLate(id)
    BY <1>2, <2>2 DEF CopyInv, CopyInRange
  <2>4. \A id \in Id : IsLate(id)'
    BY <1>2, <2>1, <2>3, CopyStays
  <2>5. \A id \in Id : IsRecent(id, subscriptions[id])'
    BY <1>3, <2>1, <2>3 DEF IsRecent, IsLate
  <2>6. CopyInRange'
    BY <2>1 DEF CopyInRange
  <2>7. EndsOutOfRange'
    BY <1>2, <2>1, <2>4 DEF EndsOutOfRange
  <2>8. LoadIsRecent'
    BY <1>2, <1>3, <2>1, <2>5 DEF LoadIsRecent
  <2> QED BY <2>1, <2>6, <2>7, <2>8 DEF CopyInv, ReplayConverges, ReadyIsLate
<1> QED BY <1>5, <1>6

(* What is given up without a copy is loaded again, as is what is refused. *)
LEMMA LoadGoesOn ==
  ASSUME CopyInv, round.step \in {"top", "entry"},
         UNCHANGED <<ledgerVars, lastLedger>>, round'.start = round.start,
         round'.step \in {"entry", "events"}
  PROVE  CopyInRange' /\ EndsOutOfRange' /\ ReplayConverges' /\ ReadyIsLate'
<1>1. /\ CopyInRange' /\ ReplayConverges' /\ ReadyIsLate'
  BY DEF CopyInRange, ReplayConverges, ReadyIsLate
<1>2. Server' = Server /\ lastLedger' = lastLedger
  BY SameLedgers
<1>3. InRange(lastLedger)' <=> InRange(lastLedger)
  BY <1>2 DEF InRange
<1>4. /\ ServersAreAlike => ~InRange(lastLedger)
      /\ RequestsSucceed => lastLedger = 0 \/ lastLedger <= round.start
  BY DEF CopyInv, EndsOutOfRange
<1>5. EndsOutOfRange'
  BY <1>2, <1>3, <1>4 DEF EndsOutOfRange
<1> QED BY <1>1, <1>5

LEMMA CopyByTop ==
  ASSUME ServersAreAlike \/ RequestsSucceed,
         TypeOK, RoundIsInPast, HistoryInv, CopyInv, GetLastSubscriptionId
  PROVE  CopyInv'
<1>1. PICK server \in Server :
        LET top == CreatedIn(server.latest)
        IN round' = [round EXCEPT !.top = top, !.step = IF top = 0 THEN "events" ELSE "entry"]
  BY DEF GetLastSubscriptionId
<1>2. PICK last \in Past : last = server.latest /\ Latest - Lag <= last
  BY ServerIs
<1>3. /\ lastLedger' = lastLedger /\ subscriptions' = subscriptions /\ UNCHANGED ledgerVars
      /\ round \in Round /\ round.step = "top" /\ round.entries = <<>>
      /\ round.start + Lag <= Latest /\ subscriptions = Nothing
  BY DEF GetLastSubscriptionId, TypeOK, RoundIsInPast, CopyInv, LoadIsRecent
<1>4. /\ Latest' = Latest /\ Past' = Past
      /\ \A k, id : ActiveAt(k, id)' = ActiveAt(k, id)
  BY <1>3, SameLedgers
<1>5. PICK top \in 0..LastId : top = CreatedIn(last) /\ \A id \in CreatedUpTo(last) : id <= top
  BY CreatedShape
<1>6. /\ round' = [round EXCEPT !.top = top, !.step = IF top = 0 THEN "events" ELSE "entry"]
      /\ LastId \in Nat
  BY <1>1, <1>2, <1>5, LimitAssumption
<1>7. /\ round'.step = IF top = 0 THEN "events" ELSE "entry"
      /\ round'.top = top /\ round'.entries = <<>> /\ round'.start = round.start
  BY <1>3, <1>6 DEF Round
<1>8. \A id \in Id : id > top => ActiveAt(last, id) = 0
  <2> SUFFICES ASSUME NEW id \in Id, id > top, ActiveAt(last, id) # 0 PROVE FALSE
    OBVIOUS
  <2>1. id \in CreatedUpTo(last)
    BY DEF HistoryInv, ActiveIsCreated
  <2>2. id <= top /\ id \in Int /\ top \in Int
    BY <1>5, <1>6, <2>1 DEF Id
  <2> QED BY <2>2
<1>9. round.start \in Int /\ round.start <= last /\ round.start <= Latest
  BY <1>2, <1>3, LagShape, PastShape DEF Round
<1>10. \A id \in Id : id > top => IsRecent(id, 0)'
  BY <1>4, <1>7, <1>8, <1>9 DEF IsRecent
<1>11. LoadIsRecent'
  <2>1. subscriptions' = Nothing /\ round'.start <= Latest'
    BY <1>3, <1>4, <1>7, <1>9
  <2>2. CASE top = 0
    <3>1. \A id \in Id : subscriptions'[id] = 0 /\ id > top
      BY <1>6, <2>1, <2>2 DEF Id, Nothing
    <3>2. \A id \in Id : IsRecent(id, subscriptions[id])'
      BY <1>10, <3>1 DEF IsRecent
    <3> QED BY <1>7, <2>1, <2>2, <3>2 DEF LoadIsRecent
  <2>3. CASE top # 0
    BY <1>3, <1>4, <1>7, <1>10, <2>1, <2>3 DEF LoadIsRecent
  <2> QED BY <2>2, <2>3
<1> QED BY <1>3, <1>7, <1>11, LoadGoesOn DEF CopyInv

LEMMA CopyByEntry ==
  ASSUME ServersAreAlike \/ RequestsSucceed,
         TypeOK, RoundIsInPast, HistoryInv, CopyInv, GetSubscription
  PROVE  CopyInv'
<1>1. PICK server \in Server :
        LET id == Len(round.entries) + 1
            entries == Append(round.entries, ledgers[server.latest].active[id])
        IN IF id = round.top
           THEN /\ round' = [round EXCEPT !.step = "events", !.entries = <<>>]
                /\ subscriptions' = Loaded(subscriptions, entries)
           ELSE /\ round' = [round EXCEPT !.entries = entries]
                /\ UNCHANGED subscriptions
  BY DEF GetSubscription
<1>2. PICK ledger \in Past : ledger = server.latest /\ Latest - Lag <= ledger
  BY ServerIs
<1>3. /\ lastLedger' = lastLedger /\ UNCHANGED ledgerVars
      /\ round \in Round /\ round.step = "entry" /\ Len(round.entries) < round.top
      /\ round.start + Lag <= Latest /\ subscriptions = Nothing
      /\ \A id \in DOMAIN round.entries : IsRecent(id, round.entries[id])
      /\ \A id \in Id : id > round.top => IsRecent(id, 0)
  BY DEF GetSubscription, TypeOK, RoundIsInPast, CopyInv, LoadIsRecent
<1>4. /\ Latest' = Latest /\ Past' = Past
      /\ \A k, id : ActiveAt(k, id)' = ActiveAt(k, id)
  BY <1>3, SameLedgers
<1>5. /\ round.entries \in Seq(0..MaxCharge) /\ round.top \in 0..LastId /\ LastId \in Nat
      /\ round.start <= ledger /\ round.start <= Latest
  BY <1>2, <1>3, PastShape, LagShape, LimitAssumption DEF Round
<1>6. PICK last \in Nat : last = Len(round.entries) + 1
  BY <1>5
<1>7. last \in Id /\ last <= round.top
  BY <1>3, <1>5, <1>6 DEF Id
<1>8. PICK entries : entries = Append(round.entries, ActiveAt(ledger, last))
  OBVIOUS
<1>9. /\ DOMAIN entries = 1..last
      /\ \A id \in 1..last : IsRecent(id, entries[id])
  <2>1. ActiveAt(ledger, last) \in 0..MaxCharge
    BY <1>7, PastShape
  <2>2. /\ DOMAIN entries = 1..last /\ DOMAIN round.entries = 1..last - 1
        /\ \A id \in 1..last - 1 : entries[id] = round.entries[id]
        /\ entries[last] = ActiveAt(ledger, last)
    BY <1>5, <1>6, <1>8, <2>1, AppendShape
  <2>3. IsRecent(last, entries[last])
    BY <1>5, <2>2 DEF IsRecent
  <2>4. \A id \in 1..last : id \in 1..last - 1 \/ id = last
    OBVIOUS
  <2> QED BY <1>3, <2>2, <2>3, <2>4
<1>10. IF last = round.top
       THEN /\ round' = [round EXCEPT !.step = "events", !.entries = <<>>]
            /\ subscriptions' = Loaded(subscriptions, entries)
       ELSE /\ round' = [round EXCEPT !.entries = entries]
            /\ UNCHANGED subscriptions
  BY <1>1, <1>2, <1>6, <1>8 DEF ActiveAt
<1>11. CASE last = round.top
  <2>1. round'.step = "events" /\ round'.start = round.start
    BY <1>3, <1>10, <1>11 DEF Round
  <2>2. ASSUME NEW id \in Id PROVE IsRecent(id, subscriptions[id])'
    <3>1. subscriptions'[id] = IF id \in 1..last /\ entries[id] # 0 THEN entries[id] ELSE 0
      BY <1>3, <1>9, <1>10, <1>11 DEF Loaded, Nothing
    <3>2. IsRecent(id, subscriptions'[id])
      <4>1. CASE id \in 1..last
        BY <1>9, <3>1, <4>1
      <4>2. CASE id \notin 1..last
        BY <1>3, <1>5, <1>11, <3>1, <4>2 DEF Id
      <4> QED BY <4>1, <4>2
    <3> QED BY <1>4, <2>1, <3>2 DEF IsRecent
  <2>3. LoadIsRecent'
    BY <1>4, <1>5, <2>1, <2>2 DEF LoadIsRecent
  <2> QED BY <1>3, <2>1, <2>3, LoadGoesOn DEF CopyInv
<1>12. CASE last # round.top
  <2>1. /\ round'.step = "entry" /\ round'.start = round.start /\ round'.top = round.top
        /\ round'.entries = entries /\ subscriptions' = Nothing
    BY <1>3, <1>10, <1>12 DEF Round
  <2>2. \A id, value : IsRecent(id, value) => \E k \in Past' : round'.start <= k /\ value = ActiveAt(k, id)'
    BY <1>4, <2>1 DEF IsRecent
  <2>3. \A id \in DOMAIN round'.entries : IsRecent(id, round.entries[id])'
    BY <1>9, <2>1, <2>2 DEF IsRecent
  <2>4. \A id \in Id : id > round'.top => IsRecent(id, 0)'
    BY <1>3, <2>1, <2>2 DEF IsRecent
  <2>5. LoadIsRecent'
    BY <1>3, <1>4, <2>1, <2>3, <2>4 DEF LoadIsRecent
  <2> QED BY <1>3, <2>1, <2>5, LoadGoesOn DEF CopyInv
<1> QED BY <1>11, <1>12

(* The events are read: those of all the ledgers from the start on are ahead. *)
LEMMA CopyByEvents ==
  ASSUME ServersAreAlike \/ RequestsSucceed, TypeOK, HistoryInv, CopyInv, ReadEvents
  PROVE  CopyInv'
<1>1. PICK server \in Server : Serves(server, round.start) /\ lastLedger' = server.latest
  BY DEF ReadEvents
<1>2. PICK last \in Past : /\ last = server.latest /\ lastLedger' = last
                           /\ Latest - Lag <= last /\ server.oldest \in Nat \ {0}
  BY <1>1, ServerIs
<1>3. PICK start : start = round.start
  OBVIOUS
<1>4. /\ start \in server.oldest..last /\ round' = Replay(start)
      /\ round.step = "events" /\ UNCHANGED <<ledgerVars, subscriptions>>
  BY <1>1, <1>2, <1>3 DEF ReadEvents, Serves
<1>5. /\ Latest \in Nat /\ Lag \in Nat /\ last \in Nat /\ last <= Latest
      /\ start \in Nat \ {0} /\ start <= last
  BY <1>2, <1>4, PastShape, LagShape DEF Past
<1>6. /\ Past' = Past
      /\ \A k, id : /\ Sets(k, id)' = Sets(k, id)
                    /\ Charges(k, id)' = Charges(k, id)
                    /\ ActiveAt(k, id)' = ActiveAt(k, id)
  BY <1>4, SameLedgers
<1>7. round'.step = "replay" /\ round'.start = start /\ round'.next = 1
  BY <1>4, <1>5, ReplayShape
<1>8. ASSUME NEW k \in Past, start <= k, k <= last,
             NEW id \in Id, NEW i \in Sets(k, id) \cup Charges(k, id)
      PROVE  IsAhead(k, i)'
  <2>1. i \in Nat \ {0}
    BY PastShape, SeqShape DEF Sets, Charges, Setting, Charging
  <2>2. k \in Nat
    BY <1>5 DEF Past
  <2> QED BY <1>2, <1>5, <1>7, <1>8, <2>1, <2>2 DEF IsAhead
<1>9. ASSUME NEW id \in Id
      PROVE  \/ SetAhead(id)'
             \/ ChargeAhead(id)' /\ subscriptions'[id] # 0
             \/ IsLate(id)'
  <2>1. PICK k \in Past : start <= k /\ subscriptions[id] = ActiveAt(k, id)
    BY <1>3, <1>4 DEF CopyInv, LoadIsRecent, IsRecent
  <2>2. k \in Nat /\ k <= Latest
    BY <1>5, <2>1 DEF Past
  <2>3. ASSUME NEW ledger \in Past, last <= ledger, ledger <= last + Lag,
               subscriptions[id] = ActiveAt(ledger, id)
        PROVE  IsLate(id)'
    BY <1>2, <1>4, <1>6, <2>3 DEF IsLate
  <2>4. CASE last <= k
    <3>1. k <= last + Lag
      BY <1>2, <1>5, <2>2
    <3> QED BY <2>1, <2>3, <2>4, <3>1
  <2>5. CASE k <= last
    <3> SUFFICES ASSUME ~SetAhead(id)'
                 PROVE  (ChargeAhead(id)' /\ subscriptions'[id] # 0) \/ IsLate(id)'
      OBVIOUS
    <3>1. \A j \in start..last : j \in Past /\ start <= j /\ j <= last
      BY <1>5 DEF Past
    <3>2. \A j \in start..last : Sets(j, id) = {}
      BY <1>6, <1>8, <3>1 DEF SetAhead
    <3>3. start <= k + 1
      BY <1>5, <2>1, <2>2
    <3>4. /\ (\E j \in start..last : Charges(j, id) # {}) => ActiveAt(k, id) # 0
          /\ (\A j \in start..last : Charges(j, id) = {}) => ActiveAt(k, id) = ActiveAt(last, id)
      BY <1>5, <2>5, <3>2, <3>3, Told
    <3>5. CASE \E j \in start..last : Charges(j, id) # {}
      <4>1. ChargeAhead(id)'
        BY <1>6, <1>8, <3>1, <3>5 DEF ChargeAhead
      <4> QED BY <1>4, <2>1, <3>4, <3>5, <4>1
    <3>6. CASE \A j \in start..last : Charges(j, id) = {}
      BY <1>5, <2>1, <2>3, <3>4, <3>6
    <3> QED BY <3>5, <3>6
  <2> QED BY <1>5, <2>2, <2>4, <2>5
<1> QED BY <1>7, <1>9
        DEF CopyInv, CopyInRange, EndsOutOfRange, LoadIsRecent, ReplayConverges, ReadyIsLate

(* An event is processed. *)
LEMMA CopyByEvent ==
  ASSUME TypeOK, RoundIsInPast, HistoryInv, CopyInv, round.step = "replay",
         UNCHANGED <<ledgerVars, lastLedger>>, NEW start, start = round.start,
         NEW n, n = round.next, NEW event, event = ledgers[start].events[n],
         n <= Len(ledgers[start].events),
         subscriptions' = Processed(subscriptions, event),
         round' = [round EXCEPT !.next = @ + 1]
  PROVE  CopyInv'
<1>1. /\ start \in Past /\ start \in Nat \ {0} /\ n \in Nat \ {0}
      /\ lastLedger \in Past /\ lastLedger \in Nat /\ start <= lastLedger
      /\ Latest \in Nat /\ lastLedger <= Latest
  BY ReplayTypes
<1>2. /\ round'.step = "replay" /\ round'.start = start /\ round'.next = n + 1
      /\ subscriptions \in [Id -> 0..MaxCharge]
  BY DEF TypeOK, Round
<1>3. /\ Past' = Past /\ lastLedger' = lastLedger
      /\ \A k, id : /\ Sets(k, id)' = Sets(k, id)
                    /\ Charges(k, id)' = Charges(k, id)
                    /\ ActiveAt(k, id)' = ActiveAt(k, id)
  BY SameLedgers
<1>4. /\ ledgers[start].events \in Seq(ContractEvent)
      /\ Len(ledgers[start].events) \in Nat /\ DOMAIN ledgers[start].events = 1..Len(ledgers[start].events)
      /\ n \in DOMAIN ledgers[start].events
      /\ event \in ContractEvent
  <2>1. ledgers[start].events \in Seq(ContractEvent)
    BY <1>1, PastShape
  <2> QED BY <1>1, <2>1, SeqShape
<1>5. /\ event.type \in {"created", "deposited", "suspended", "cancelled", "charged"}
      /\ event.id \in Id /\ event.charge \in 0..MaxCharge
  BY <1>4 DEF ContractEvent
<1>6. \A k, i : i \in Nat => (IsAhead(k, i) <=> IsAhead(k, i)' \/ (k = start /\ i = n))
  BY <1>1, <1>2, <1>3 DEF IsAhead
<1>7. \A k \in Past, id \in Id : \A i \in Sets(k, id) \cup Charges(k, id) : i \in Nat
  BY PastShape, SeqShape DEF Sets, Charges, Setting, Charging
<1>8. ASSUME NEW id \in Id
      PROVE  \/ SetAhead(id)'
             \/ ChargeAhead(id)' /\ subscriptions'[id] # 0
             \/ IsLate(id)'
  <2>0. /\ SetAhead(id) \/ (ChargeAhead(id) /\ subscriptions[id] # 0) \/ IsLate(id)
        /\ subscriptions'[id] = ActiveAt(lastLedger, id) => IsLate(id)'
        /\ IsLate(id) /\ subscriptions'[id] = subscriptions[id] => IsLate(id)'
    <3>1. Lag \in Nat
      BY ServerAssumption
    <3>2. subscriptions'[id] = ActiveAt(lastLedger, id) => IsLate(id)'
      BY <1>1, <1>3, <3>1 DEF IsLate
    <3>3. IsLate(id) /\ subscriptions'[id] = subscriptions[id] => IsLate(id)'
      BY <1>3 DEF IsLate
    <3> QED BY <3>2, <3>3 DEF CopyInv, ReplayConverges
  <2>1. /\ SetAhead(id)' => SetAhead(id)
        /\ ChargeAhead(id)' => ChargeAhead(id)
    BY <1>3, <1>6, <1>7 DEF SetAhead, ChargeAhead
  <2>2. /\ n \notin Sets(start, id) => (SetAhead(id) => SetAhead(id)')
        /\ n \notin Charges(start, id) => (ChargeAhead(id) => ChargeAhead(id)')
    BY <1>3, <1>6, <1>7 DEF SetAhead, ChargeAhead
  <2>3. /\ n \in Sets(start, id) <=> event.id = id /\ event.type # "charged"
        /\ n \in Charges(start, id) <=> event.id = id /\ event.type = "charged"
    BY <1>4 DEF Sets, Charges, Setting, Charging
  <2>4. CASE event.id # id
    <3>1. subscriptions'[id] = subscriptions[id]
      BY <1>2, <1>5, <2>4 DEF Processed
    <3> QED BY <2>0, <2>1, <2>2, <2>3, <2>4, <3>1
  <2>5. Tells(ledgers[start].events, id, ActiveAt(start, id))
    BY <1>1 DEF HistoryInv, EventsTell
  <2>6. ASSUME ~SetAhead(id)', NEW j \in Sets(start, id) PROVE j <= n
    <3>1. j \in Nat
      BY <1>1, <1>7
    <3>2. j >= n + 1 => IsAhead(start, j)'
      BY <1>2 DEF IsAhead
    <3> QED BY <1>1, <1>3, <2>6, <3>1, <3>2 DEF SetAhead
  <2>7. ASSUME ~SetAhead(id)', subscriptions'[id] = 0 <=> ActiveAt(start, id) = 0,
               (\A j \in Charges(start, id) : j <= n) => subscriptions'[id] = ActiveAt(start, id)
        PROVE  \/ ChargeAhead(id)' /\ subscriptions'[id] # 0
               \/ IsLate(id)'
    <3>1. \A j \in start + 1..lastLedger : j \in Past /\ \A i : IsAhead(j, i)'
      BY <1>1, <1>2, <1>3 DEF IsAhead, Past
    <3>2. \A j \in start + 1..lastLedger : Sets(j, id) = {}
      BY <1>3, <2>7, <3>1 DEF SetAhead
    <3>3. /\ (\E j \in start + 1..lastLedger : Charges(j, id) # {}) => ActiveAt(start, id) # 0
          /\ (\A j \in start + 1..lastLedger : Charges(j, id) = {})
                => ActiveAt(start, id) = ActiveAt(lastLedger, id)
      <4>1. start + 1 \in Nat \ {0} /\ start + 1 <= start + 1
        BY <1>1
      <4> QED BY <1>1, <3>2, <4>1, Told
    <3>4. (\E j \in start + 1..lastLedger : Charges(j, id) # {}) => ChargeAhead(id)'
      BY <1>3, <3>1 DEF ChargeAhead
    <3>5. ASSUME NEW i \in Charges(start, id), ~(i <= n)
          PROVE  ChargeAhead(id)' /\ ActiveAt(start, id) # 0
      <4>1. i \in Nat /\ \A j \in Sets(start, id) : j \in Nat /\ j <= n
        BY <1>1, <1>7, <2>6, <2>7
      <4>2. \A j \in Sets(start, id) : j <= i
        BY <1>1, <3>5, <4>1
      <4>3. ActiveAt(start, id) # 0
        BY <2>5, <4>2 DEF Tells, Sets, Charges
      <4>4. IsAhead(start, i)'
        BY <1>1, <1>2, <3>5, <4>1 DEF IsAhead
      <4> QED BY <1>1, <1>3, <4>3, <4>4 DEF ChargeAhead
    <3> QED BY <2>0, <2>7, <3>3, <3>4, <3>5
  <2>8. CASE event.id = id /\ event.type # "charged"
    <3> SUFFICES ASSUME ~SetAhead(id)'
                 PROVE  (ChargeAhead(id)' /\ subscriptions'[id] # 0) \/ IsLate(id)'
      OBVIOUS
    <3>1. n \in Sets(start, id) /\ \A j \in Sets(start, id) : j <= n
      BY <2>3, <2>6, <2>8
    <3>2. /\ subscriptions'[id] = 0 <=> ActiveAt(start, id) = 0
          /\ (\A j \in Charges(start, id) : j <= n) => subscriptions'[id] = ActiveAt(start, id)
      BY <1>2, <2>5, <3>1 DEF Tells, Sets, Charges
    <3> QED BY <2>7, <3>2
  <2>9. CASE event.id = id /\ event.type = "charged"
    <3>1. n \in Charges(start, id) /\ event.charge > 0
      BY <2>3, <2>5, <2>9 DEF Tells, Charges
    <3>2. subscriptions'[id] = IF subscriptions[id] = 0 THEN 0 ELSE event.charge
      BY <1>2, <2>9 DEF Processed
    <3>3. CASE SetAhead(id)
      BY <2>2, <2>3, <2>9, <3>3
    <3>4. CASE ~SetAhead(id) /\ subscriptions[id] = 0
      BY <2>0, <3>2, <3>4
    <3>5. CASE ~SetAhead(id) /\ subscriptions[id] # 0
      <4>1. ~SetAhead(id)' /\ \A j \in Sets(start, id) : j <= n
        BY <2>1, <2>6, <3>5
      <4>2. /\ ActiveAt(start, id) # 0
            /\ (\A j \in Charges(start, id) : j <= n) => event.charge = ActiveAt(start, id)
        BY <2>5, <3>1, <4>1 DEF Tells, Sets, Charges
      <4>3. subscriptions'[id] = event.charge /\ subscriptions'[id] # 0
        BY <3>1, <3>2, <3>5
      <4> QED BY <2>7, <4>1, <4>2, <4>3
    <3> QED BY <3>3, <3>4, <3>5
  <2> QED BY <2>4, <2>8, <2>9
<1>9. ReplayConverges'
  BY <1>8 DEF ReplayConverges
<1> QED BY <1>2, <1>9
        DEF CopyInv, CopyInRange, EndsOutOfRange, LoadIsRecent, ReadyIsLate

(* The replay goes on with the next ledger, or is done. *)
LEMMA CopyByNextLedger ==
  ASSUME TypeOK, RoundIsInPast, HistoryInv, CopyInv, round.step = "replay",
         UNCHANGED <<ledgerVars, lastLedger, subscriptions>>, NEW start, start = round.start,
         round.next > Len(ledgers[start].events),
         round' = IF start < lastLedger THEN Replay(start + 1)
                  ELSE [IdleRound EXCEPT !.step = "ready"]
  PROVE  CopyInv'
<1>1. /\ start \in Past /\ start \in Nat \ {0} /\ round.next \in Nat \ {0}
      /\ lastLedger \in Past /\ lastLedger \in Nat /\ start <= lastLedger
      /\ Latest \in Nat /\ lastLedger <= Latest
  BY ReplayTypes
<1>2. /\ Past' = Past /\ lastLedger' = lastLedger /\ subscriptions' = subscriptions
      /\ \A k, id : /\ Sets(k, id)' = Sets(k, id)
                    /\ Charges(k, id)' = Charges(k, id)
                    /\ ActiveAt(k, id)' = ActiveAt(k, id)
  BY SameLedgers
<1>3. \A k \in Past, id \in Id : \A i \in Sets(k, id) \cup Charges(k, id) :
        i \in 1..Len(ledgers[k].events)
  BY PastShape, SeqShape DEF Sets, Charges, Setting, Charging
<1>4. \A id \in Id :
        \/ SetAhead(id)
        \/ ChargeAhead(id) /\ subscriptions[id] # 0
        \/ IsLate(id)
  BY DEF CopyInv, ReplayConverges
<1>5. ASSUME NEW k \in Past, NEW id \in Id, NEW i \in Sets(k, id) \cup Charges(k, id)
      PROVE  /\ k \in Nat /\ i \in Nat \ {0}
             /\ IsAhead(k, i) => k > start /\ k <= lastLedger
  <2>1. i \in 1..Len(ledgers[k].events) /\ k \in Nat /\ Len(ledgers[k].events) \in Nat
    BY <1>3, PastShape, SeqShape
  <2>2. k = start => ~(i >= round.next)
    BY <1>1, <2>1
  <2> QED BY <1>1, <2>1, <2>2 DEF IsAhead
<1>6. CASE start < lastLedger
  <2>1. round'.step = "replay" /\ round'.start = start + 1 /\ round'.next = 1
    BY <1>1, <1>6, ReplayShape
  <2>2. ASSUME NEW k \in Past, NEW id \in Id, NEW i \in Sets(k, id) \cup Charges(k, id)
        PROVE  IsAhead(k, i)' <=> IsAhead(k, i)
    <3>1. /\ k \in Nat /\ i \in Nat \ {0}
          /\ IsAhead(k, i) => k > start /\ k <= lastLedger
      BY <1>5
    <3>2. IsAhead(k, i)' <=> k > start /\ k <= lastLedger
      BY <1>1, <1>2, <1>6, <2>1, <3>1 DEF IsAhead
    <3>3. k > start /\ k <= lastLedger => IsAhead(k, i)
      BY DEF IsAhead
    <3> QED BY <3>1, <3>2, <3>3
  <2>3. \A id \in Id : SetAhead(id)' <=> SetAhead(id)
    BY <1>2, <2>2 DEF SetAhead
  <2>4. \A id \in Id : ChargeAhead(id)' <=> ChargeAhead(id)
    BY <1>2, <2>2 DEF ChargeAhead
  <2>5. ReplayConverges'
    BY <1>2, <1>4, <2>3, <2>4, CopyStays DEF ReplayConverges
  <2> QED BY <2>1, <2>5
          DEF CopyInv, CopyInRange, EndsOutOfRange, LoadIsRecent, ReadyIsLate
<1>7. CASE ~(start < lastLedger)
  <2>1. round'.step = "ready"
    BY <1>7 DEF IdleRound
  <2>2. \A id \in Id : ~SetAhead(id) /\ ~ChargeAhead(id)
    BY <1>1, <1>5, <1>7 DEF SetAhead, ChargeAhead
  <2>3. \A id \in Id : IsLate(id)'
    BY <1>4, <2>2, CopyStays
  <2>4. CopyInRange' /\ ReadyIsLate'
    BY <2>3 DEF CopyInRange, ReadyIsLate
  <2> QED BY <2>1, <2>4 DEF CopyInv, EndsOutOfRange, LoadIsRecent, ReplayConverges
<1> QED BY <1>6, <1>7

(* Refused events are not in range of any server: one that has the start and *)
(* no ledger after it would have served them.                              *)
LEMMA RefusedIsOutOfRange ==
  ASSUME RequestsSucceed, TypeOK, CopyInv, EventsRefused
  PROVE  ~InRange(lastLedger)
<1>1. /\ round.step = "events" /\ \A server \in Server : ~Serves(server, round.start)
      /\ round.start \in Int /\ round.start <= Latest /\ lastLedger \in 0..Latest
  BY DEF EventsRefused, TypeOK, Round, CopyInv, LoadIsRecent
<1>2. lastLedger = 0 \/ lastLedger <= round.start
  BY <1>1 DEF CopyInv, EndsOutOfRange
<1>3. CASE lastLedger = 0
  BY <1>3, RangeStarts
<1>4. CASE lastLedger # 0 /\ lastLedger <= round.start
  <2> SUFFICES ASSUME NEW server \in Server, server.oldest <= lastLedger PROVE FALSE
    BY DEF InRange
  <2>1. PICK kept \in Kept : /\ kept \in Nat \ {0}
                             /\ server.oldest = OldestOf(server.latest, kept)
    BY ServerIs
  <2>2. /\ server.latest \in Nat /\ Latest - Lag <= server.latest /\ Latest \in Nat
        /\ server.oldest \in Nat \ {0} /\ Lag \in Nat
    BY ServerIs, PastShape, ServerAssumption
  <2>3. server.oldest <= round.start /\ ~(round.start <= server.latest)
    BY <1>1, <1>4, <2>2 DEF Serves
  <2>4. round.start \in Past /\ Latest - Lag <= round.start
    BY <1>1, <1>4, <2>2, <2>3 DEF Past
  <2>5. PICK other \in Server :
          other.latest = round.start /\ other.oldest = OldestOf(round.start, kept)
    BY <2>4, ServerOf
  <2>6. other.oldest <= round.start
    BY <1>1, <1>4, <2>1, <2>2, <2>3, <2>5 DEF OldestOf
  <2>7. Serves(other, round.start)
    BY <1>1, <2>1, <2>2, <2>3, <2>5, <2>6 DEF Serves, OldestOf
  <2> QED BY <1>1, <2>7
<1> QED BY <1>2, <1>3, <1>4

(* A round is given up: what was done of it stays. *)
LEMMA CopyByEnd ==
  ASSUME ServersAreAlike \/ RequestsSucceed, TypeOK, CopyInv, EventsRefused \/ RoundFails
  PROVE  CopyInv'
<1>1. /\ round'.step = "idle" /\ UNCHANGED <<ledgerVars, subscriptions, lastLedger>>
      /\ round.step \in {"top", "entry", "events"}
  BY DEF EventsRefused, RoundFails, IdleRound
<1>2. InRange(lastLedger) => \A id \in Id : IsLate(id)
  <2>1. CASE ServersAreAlike
    BY <1>1, <2>1 DEF CopyInv, EndsOutOfRange
  <2>2. CASE RequestsSucceed
    <3>1. ~RoundFails
      BY <2>2 DEF RoundFails, RequestsSucceed, TypeOK
    <3> QED BY <2>2, <3>1, RefusedIsOutOfRange
  <2> QED BY <2>1, <2>2
<1>3. CopyInRange'
  BY <1>1, <1>2, CopyStays DEF CopyInRange
<1> QED BY <1>1, <1>3 DEF CopyInv, EndsOutOfRange, LoadIsRecent, ReplayConverges, ReadyIsLate

LEMMA CopyByRestart ==
  ASSUME TypeOK, Restart
  PROVE  CopyInv'
<1>1. /\ round'.step = "idle" /\ lastLedger' = 0 /\ Server' = Server
  BY SameLedgers DEF Restart, IdleRound
<1>2. CopyInRange'
  BY <1>1, RangeStarts DEF CopyInRange, InRange
<1> QED BY <1>1, <1>2 DEF CopyInv, EndsOutOfRange, LoadIsRecent, ReplayConverges, ReadyIsLate

(* A ledger closes: what was of one of the ledgers still is. *)
LEMMA CopyByClose ==
  ASSUME TypeOK, RoundIsInPast, HistoryInv, CopyInv, Close,
         UNCHANGED <<subscriptions, lastLedger, round>>
  PROVE  CopyInv'
<1>1. subscriptions' = subscriptions /\ lastLedger' = lastLedger /\ round' = round
  OBVIOUS
<1>2. /\ Latest \in Nat /\ Latest' = Latest + 1
      /\ \A k \in Past : k \in Nat /\ k <= Latest
      /\ Past \subseteq Past'
      /\ \A k \in Past, id \in Id :
           /\ Sets(k, id)' = Sets(k, id)
           /\ Charges(k, id)' = Charges(k, id)
           /\ ActiveAt(k, id)' = ActiveAt(k, id)
  BY <1>1, LedgersGrow
<1>3. /\ round \in Round /\ round.start \in Int /\ Lag \in Nat
      /\ lastLedger \in Nat /\ lastLedger <= Latest
  BY <1>2, ServerAssumption DEF TypeOK, Round
<1>4. InRange(lastLedger)' => InRange(lastLedger)
  <2> DEFINE l == lastLedger
  <2>1. l \in Int
    BY <1>3
  <2>2. l' = l
    BY <1>1
  <2> HIDE DEF l
  <2>3. PICK m \in Int : m = l /\ m = l'
    BY <2>1, <2>2
  <2>4. InRange(m)' => InRange(m)
    BY <1>1, RangeShrinks
  <2>5. InRange(lastLedger)' => InRange(m)'
    BY <1>1, <2>3 DEF InRange, l
  <2>6. InRange(m) => InRange(lastLedger)
    BY <2>3 DEF l
  <2> QED BY <2>4, <2>5, <2>6
<1>5. ASSUME NEW id \in Id, IsLate(id) PROVE IsLate(id)'
  <2>1. PICK k \in Past : /\ lastLedger <= k /\ k <= lastLedger + Lag
                          /\ subscriptions[id] = ActiveAt(k, id)
    BY <1>5 DEF IsLate
  <2>2. k \in Past' /\ ActiveAt(k, id)' = ActiveAt(k, id)
    BY <1>2
  <2> QED BY <1>1, <2>1, <2>2 DEF IsLate
<1>6. ASSUME NEW id \in Id, NEW value, IsRecent(id, value)
      PROVE  \E k \in Past' : round.start <= k /\ value = ActiveAt(k, id)'
  BY <1>2, <1>6 DEF IsRecent
<1>7. CopyInRange'
  BY <1>1, <1>4, <1>5 DEF CopyInv, CopyInRange
<1>8. EndsOutOfRange'
  BY <1>1, <1>4, <1>5 DEF CopyInv, EndsOutOfRange, ServersAreAlike, RequestsSucceed
<1>9. LoadIsRecent'
  <2>1. ASSUME round.step \in {"top", "entry"}
        PROVE  round.start + Lag <= Latest' /\ subscriptions' = Nothing
    <3>1. round.start + Lag <= Latest /\ subscriptions = Nothing
      BY <2>1 DEF CopyInv, LoadIsRecent
    <3> QED BY <1>1, <1>2, <1>3, <3>1
  <2>2. ASSUME round.step = "entry"
        PROVE  /\ \A id \in DOMAIN round.entries : IsRecent(id, round.entries[id])'
               /\ \A id \in Id : id > round.top => IsRecent(id, 0)'
    <3>1. DOMAIN round.entries \subseteq Id
      <4>1. /\ round.entries \in Seq(0..MaxCharge) /\ round.top \in 0..LastId
            /\ Len(round.entries) < round.top /\ LastId \in Nat
        BY <1>3, <2>2, LimitAssumption DEF Round, RoundIsInPast
      <4>2. Len(round.entries) \in Nat /\ DOMAIN round.entries = 1..Len(round.entries)
        BY <4>1
      <4> QED BY <4>1, <4>2 DEF Id
    <3>2. /\ \A id \in DOMAIN round.entries : IsRecent(id, round.entries[id])
          /\ \A id \in Id : id > round.top => IsRecent(id, 0)
      BY <2>2 DEF CopyInv, LoadIsRecent
    <3> QED BY <1>1, <1>6, <3>1, <3>2 DEF IsRecent
  <2>3. ASSUME round.step = "events"
        PROVE  /\ round.start <= Latest'
               /\ \A id \in Id : IsRecent(id, subscriptions[id])'
    <3>1. round.start <= Latest /\ \A id \in Id : IsRecent(id, subscriptions[id])
      BY <2>3 DEF CopyInv, LoadIsRecent
    <3>2. \A id \in Id : IsRecent(id, subscriptions[id])'
      BY <1>1, <1>6, <3>1 DEF IsRecent
    <3> QED BY <1>2, <1>3, <3>1, <3>2
  <2> QED BY <1>1, <2>1, <2>2, <2>3 DEF LoadIsRecent
<1>10. ReplayConverges'
  <2> SUFFICES ASSUME round.step = "replay", NEW id \in Id
               PROVE  \/ SetAhead(id)'
                      \/ ChargeAhead(id)' /\ subscriptions[id] # 0
                      \/ IsLate(id)'
    BY <1>1 DEF ReplayConverges
  <2>1. /\ round.start \in Nat /\ round.start <= lastLedger /\ lastLedger \in Past
    BY ReplayTypes
  <2>2. \A k \in Past : \A i : IsAhead(k, i) => k \in Past' /\ IsAhead(k, i)'
    BY <1>1, <1>2 DEF IsAhead
  <2>3. SetAhead(id) => SetAhead(id)'
    BY <1>2, <2>2 DEF SetAhead
  <2>4. ChargeAhead(id) => ChargeAhead(id)'
    BY <1>2, <2>2 DEF ChargeAhead
  <2> QED BY <1>5, <2>3, <2>4 DEF CopyInv, ReplayConverges
<1>11. ReadyIsLate'
  BY <1>1, <1>5 DEF CopyInv, ReadyIsLate
<1> QED BY <1>7, <1>8, <1>9, <1>10, <1>11 DEF CopyInv

LEMMA CopyUnchanged ==
  ASSUME CopyInv, UNCHANGED <<ledgers, subscriptions, lastLedger, round>>
  PROVE  CopyInv'
<1>1. subscriptions' = subscriptions /\ lastLedger' = lastLedger /\ round' = round
  OBVIOUS
<1>2. /\ ledgers' = ledgers /\ Latest' = Latest /\ Past' = Past /\ Server' = Server
      /\ \A k, id : Sets(k, id)' = Sets(k, id) /\ Charges(k, id)' = Charges(k, id)
  BY LedgersStay
<1>3. CopyInRange' /\ EndsOutOfRange' /\ ReadyIsLate'
  <2>1. /\ InRange(lastLedger)' <=> InRange(lastLedger)
        /\ \A id : IsLate(id)' <=> IsLate(id)
    BY <1>1, <1>2 DEF InRange, IsLate, ActiveAt
  <2> QED BY <1>1, <2>1
          DEF CopyInv, CopyInRange, EndsOutOfRange, ReadyIsLate, ServersAreAlike, RequestsSucceed
<1>4. LoadIsRecent'
  BY <1>1, <1>2 DEF CopyInv, LoadIsRecent, IsRecent, ActiveAt
<1>5. ReplayConverges'
  BY <1>1, <1>2 DEF CopyInv, ReplayConverges, SetAhead, ChargeAhead, IsAhead, IsLate, ActiveAt
<1> QED BY <1>3, <1>4, <1>5 DEF CopyInv

(***************************************************************************)
(* The subscriptions are those of the contract, whenever a round is at     *)
(* work: the copy of a ledger in range is complete, what is loaded is of    *)
(* ledgers that are replayed, and every event that is processed brings the *)
(* copy closer to the last ledger.  Either the servers are alike, or they   *)
(* may differ, and no request fails on all of them: a reload that fails    *)
(* halfway leaves the copy empty, which with a server that keeps more is    *)
(* not noticed.                                                            *)
(***************************************************************************)
THEOREM InvCorrect == ASSUME ServersAreAlike \/ RequestsSucceed PROVE Spec => []Inv
<1>1. Init => CopyInv
  <2> SUFFICES ASSUME Init PROVE CopyInv
    OBVIOUS
  <2>1. TypeOK /\ HistoryInv
    BY InitType, HistoryInit
  <2>2. round.step = "idle" /\ lastLedger = 0
    BY DEF Init, IdleRound
  <2>3. ~InRange(lastLedger)
    BY <2>1, <2>2, RangeStarts
  <2> QED BY <2>2, <2>3
          DEF CopyInv, CopyInRange, EndsOutOfRange, LoadIsRecent, ReplayConverges, ReadyIsLate
<1>2. TypeOK /\ RoundIsInPast /\ HistoryInv /\ CopyInv /\ [Next]_vars => CopyInv'
  <2> SUFFICES ASSUME TypeOK, RoundIsInPast, HistoryInv, CopyInv, [Next]_vars PROVE CopyInv'
    OBVIOUS
  <2>1. CASE GetEventsLedgerInfo
    BY <2>1, CopyByRange
  <2>2. CASE GetLastSubscriptionId
    BY <2>2, CopyByTop
  <2>3. CASE GetSubscription
    BY <2>3, CopyByEntry
  <2>4. CASE ReadEvents
    BY <2>4, CopyByEvents
  <2>5. CASE ProcessEvent
    <3>1. /\ round.step = "replay" /\ UNCHANGED <<ledgerVars, lastLedger>>
          /\ Len(ledgers[round.start].events) \in Nat /\ round.next \in Nat
      <4>1. round.step = "replay" /\ UNCHANGED <<ledgerVars, lastLedger>>
        BY <2>5 DEF ProcessEvent
      <4> QED BY <4>1, ReplayTypes, PastShape, SeqShape
    <3>2. CASE round.next <= Len(ledgers[round.start].events)
      <4>1. /\ subscriptions' = Processed(subscriptions, ledgers[round.start].events[round.next])
            /\ round' = [round EXCEPT !.next = @ + 1]
        BY <2>5, <3>1, <3>2 DEF ProcessEvent
      <4> QED BY <3>1, <3>2, <4>1, CopyByEvent
    <3>3. CASE round.next > Len(ledgers[round.start].events)
      <4>1. /\ UNCHANGED subscriptions
            /\ round' = IF round.start < lastLedger THEN Replay(round.start + 1)
                        ELSE [IdleRound EXCEPT !.step = "ready"]
        BY <2>5, <3>1, <3>3 DEF ProcessEvent
      <4> QED BY <3>1, <3>3, <4>1, CopyByNextLedger
    <3> QED BY <3>1, <3>2, <3>3
  <2>6. CASE EventsRefused \/ RoundFails
    BY <2>6, CopyByEnd
  <2>7. CASE Restart
    BY <2>7, CopyByRestart
  <2>8. CASE LedgerStep
    <3>1. CASE Close
      BY <2>8, <3>1, CopyByClose DEF LedgerStep
    <3>2. CASE ContractStep
      BY <2>8, <3>2, ContractStepShape, CopyUnchanged DEF LedgerStep
    <3> QED BY <2>8, <3>1, <3>2 DEF LedgerStep
  <2>9. CASE UNCHANGED vars
    BY <2>9, CopyUnchanged DEF vars, ledgerVars
  <2> QED BY <2>1, <2>2, <2>3, <2>4, <2>5, <2>6, <2>7, <2>8, <2>9 DEF Next, RoundStep
<1>3. RoundIsInPast /\ HistoryInv /\ CopyInv => Inv
  BY DEF Inv
<1> QED BY <1>1, <1>2, <1>3, HistoryInvariant, PTL DEF Spec

(***************************************************************************)
(* A round works on the subscriptions of the contract, as of the last      *)
(* processed ledger or a later one that a server had by then, with servers  *)
(* that are alike, or with requests that succeed.                          *)
(***************************************************************************)
THEOREM ReadyIsReplicaCorrect ==
  ASSUME ServersAreAlike \/ RequestsSucceed
  PROVE  Spec => []ReadyIsReplica
<1>1. TypeOK /\ Inv => ReadyIsReplica
  <2> SUFFICES ASSUME TypeOK, Inv, round.step = "ready", NEW id \in Id
               PROVE  \E ledger \in lastLedger..Latest :
                        /\ ledger <= lastLedger + Lag
                        /\ subscriptions[id] = ledgers[ledger].active[id]
    BY DEF ReadyIsReplica
  <2>1. PICK ledger \in Past : /\ lastLedger <= ledger /\ ledger <= lastLedger + Lag
                               /\ subscriptions[id] = ActiveAt(ledger, id)
    BY DEF Inv, CopyInv, ReadyIsLate, IsLate
  <2>2. ledger \in lastLedger..Latest
    BY <2>1, PastShape DEF Past, TypeOK
  <2> QED BY <2>1, <2>2 DEF ActiveAt
<1> QED BY <1>1, InvCorrect, TypeInv, PTL

=============================================================================
