----------------------- MODULE SubscriptionSyncProofs -----------------------
(***************************************************************************)
(* Proofs about SubscriptionSync, for every cluster, every set of          *)
(* subscriptions and any number of rounds, lost connections and restarts.  *)
(***************************************************************************)
EXTENDS SubscriptionSync, FiniteSetTheorems, TLAPS

-----------------------------------------------------------------------------
(* The inductive invariant behind SyncAgreement, DisagreementIsSigned and   *)
(* NotificationsLanded                                                     *)

(* A signature of m for the item that may be counted: m built the item, and *)
(* its trigger landed                                                      *)
MayCount(item, m) == \E b \in signed[m] : b.item = item /\ b.tx \in landed

CountedAreSigned ==
    /\ \A n \in Node : \A e \in cache[n] : MayCount(e[1], e[2])
    /\ \A msg \in net : \A m \in msg.sigs : MayCount(msg.item, m)
    /\ \A n \in Node : last[n] # None => \A m \in last[n].sigs : MayCount(last[n].item, m)

LastIsVerified ==
    \A n \in Node : last[n] # None =>
        HasMajority(last[n].sigs) /\ RemembersOnly(last[n].item, landed)

(* What a node built remembers what was triggered before, and what it       *)
(* triggers itself                                                         *)
BuiltIsSound ==
    \A n \in Node : \A b \in signed[n] : RemembersOnly(b.item, landed \cup {b.tx})

WaitingIsSigned ==
    \A n \in Node : worker[n].pc = "wait" =>
        [item |-> worker[n].item, tx |-> worker[n].tx] \in signed[n]

(* Without restarts, a node builds once for every minute *)
BuiltOnce ==
    restarts = 0 =>
        \A n \in Node : \A b, c \in signed[n] :
            /\ b.item.ts <= worker[n].ts
            /\ worker[n].pc = "actions" => b.item.ts < worker[n].ts
            /\ b.item.ts = c.item.ts => b.item = c.item

Inv == /\ CountedAreSigned
       /\ LastIsVerified
       /\ BuiltIsSound
       /\ WaitingIsSigned
       /\ BuiltOnce


-----------------------------------------------------------------------------
(* Types *)

LEMMA BaseType ==
    ASSUME TypeOK, NEW n \in Node
    PROVE  BaseData(n) \in [Sub -> Notification]
<1>1. NoNotification \in Notification
  BY LimitAssumption DEF NoNotification, Notification, Price
<1>2. CASE last[n] = None
  BY <1>1, <1>2 DEF BaseData
<1>3. CASE last[n] # None
  BY <1>3 DEF BaseData, TypeOK, SyncData, SyncItem
<1> QED
  BY <1>2, <1>3

(* What a round builds is well formed. *)
LEMMA BuiltType ==
    ASSUME TypeOK, NEW n \in Node, worker[n].pc = "actions", NEW seen \in [Sub -> Seen]
    PROVE  /\ NewItem(n, seen) \in SyncItem
           /\ NewTrigger(n, seen) \in TriggerTx
<1>1. BaseData(n) \in [Sub -> Notification]
  BY BaseType
<1>2. worker[n].ts \in Rounds
  BY DEF TypeOK
<1>3. \A s \in Due(n, seen) : s \in Sub /\ NotifiedPrice(n, seen, s) \in Price
  <2>1. \A s \in Due(n, seen) : s \in Sub /\ seen[s] \in Price
    BY DEF Due, Price
  <2> QED
    BY <1>1, <2>1 DEF NotifiedPrice, Notification
<1>4. \A s \in Due(n, seen) :
        Notified(worker[n].ts, NotifiedPrice(n, seen, s)) \in Notification
  BY <1>2, <1>3, LimitAssumption DEF Notified, Notification, Rounds
<1>5. \A s \in Due(n, seen) :
        [sub |-> s, price |-> NotifiedPrice(n, seen, s),
         prevPrice |-> BaseData(n)[s].lastPrice] \in Event
  BY <1>1, <1>3 DEF Event, Notification
<1>6. NewItem(n, seen) \in SyncItem
  BY <1>1, <1>2, <1>4 DEF NewItem, SyncItem
<1>7. NewTrigger(n, seen) \in TriggerTx
  BY <1>2, <1>5 DEF NewTrigger, TriggerTx
<1> QED
  BY <1>6, <1>7

(* Sync data that is pushed keeps the caches and the last sync data typed. *)
LEMMA TrySetType ==
    ASSUME TypeOK, NEW n \in Node, NEW item \in SyncItem, NEW sigs \in SUBSET Node,
           TrySetSyncData(n, item, sigs)
    PROVE  /\ cache' \in [Node -> SUBSET (SyncItem \X Node)]
           /\ last' \in [Node -> SyncData \cup {None}]
<1> DEFINE merged == Merged(n, item, sigs)
<1>1. merged \in SUBSET Node
  BY DEF Merged, Signers
<1>2. {<<item, m>> : m \in merged} \subseteq SyncItem \X Node
  BY <1>1
<1>3. {e \in cache[n] \cup {<<item, m>> : m \in merged} : e[1].ts > clock - Retention}
            \in SUBSET (SyncItem \X Node)
  BY <1>2 DEF TypeOK
<1>4. cache' \in [Node -> SUBSET (SyncItem \X Node)]
  BY <1>3, Zenon DEF TrySetSyncData, TypeOK
<1>5. [item |-> item, sigs |-> merged] \in SyncData
  BY <1>1 DEF SyncData
<1>6. last' \in [Node -> SyncData \cup {None}]
  <2> HIDE DEF merged
  <2>1. last' = [last EXCEPT ![n] = [item |-> item, sigs |-> merged]] \/ last' = last
    BY DEF TrySetSyncData, merged
  <2> QED
    BY <1>5, <2>1 DEF TypeOK
<1> QED
  BY <1>4, <1>6

LEMMA BroadcastType ==
    ASSUME TypeOK, NEW n \in Node, NEW peers \in SUBSET Node
    PROVE  /\ \A item \in SyncItem, sigs \in SUBSET Node :
                Broadcast(n, peers, item, sigs) \subseteq
                    [from : Node, to : Node, item : SyncItem, sigs : SUBSET Node]
           /\ BroadcastLast(n, peers) \subseteq
                    [from : Node, to : Node, item : SyncItem, sigs : SUBSET Node]
<1>1. \A item \in SyncItem, sigs \in SUBSET Node :
            Broadcast(n, peers, item, sigs) \subseteq
                [from : Node, to : Node, item : SyncItem, sigs : SUBSET Node]
  BY DEF Broadcast
<1>2. last[n] # None => last[n].item \in SyncItem /\ last[n].sigs \in SUBSET Node
  BY DEF TypeOK, SyncData
<1> QED
  BY <1>1, <1>2 DEF BroadcastLast

(* Every step keeps the types; the item a worker waits with is one it built.*)
LEMMA TypeStep ==
    ASSUME TypeOK, WaitingIsSigned, [Next]_vars
    PROVE  TypeOK'
<1> USE LimitAssumption, SubscriptionAssumption
<1>1. \A ts \in 0..MaxRound : IdleWorker(ts) \in Worker
  BY DEF IdleWorker, Worker
<1>2. \A n \in Node : Reachable(n) \in SUBSET Node
  BY DEF Reachable
<1>3. ASSUME NEW n \in Node, StartWorker(n) PROVE TypeOK'
  <2>1. worker[n].ts + 1 \in 0..MaxRound
    BY <1>3 DEF StartWorker, RoundIsDue, TypeOK, Worker
  <2>2. [IdleWorker(worker[n].ts + 1) EXCEPT !.pc = "actions"] \in Worker
    BY <2>1 DEF IdleWorker, Worker
  <2>3. /\ worker' \in [Node -> Worker]
        /\ \A m \in Node : worker'[m].pc # "idle" => worker'[m].ts \in Rounds
    BY <1>3, <2>1, <2>2 DEF StartWorker, TypeOK, Worker, IdleWorker, Rounds
  <2> QED
    BY <1>3, <2>3, <1>2, BroadcastType DEF StartWorker, TypeOK
<1>4. ASSUME NEW n \in Node, SkipRound(n) PROVE TypeOK'
  <2>1. worker[n].ts + 1 \in 0..MaxRound
    BY <1>4 DEF SkipRound, RoundIsDue, TypeOK, Worker
  <2> QED
    BY <1>4, <1>1, <2>1 DEF SkipRound, TypeOK, IdleWorker
<1>5. ASSUME NEW n \in Node, GetSubscriptionActions(n) PROVE TypeOK'
  <2>1. PICK seen \in [Sub -> Seen] :
            /\ worker[n].pc = "actions"
            /\ \/ /\ worker' = [worker EXCEPT ![n] = IdleWorker(@.ts)]
                  /\ UNCHANGED signed
               \/ /\ worker' = [worker EXCEPT ![n].pc = "wait",
                                              ![n].item = NewItem(n, seen),
                                              ![n].tx = NewTrigger(n, seen)]
                  /\ signed' = [signed EXCEPT ![n] = @ \cup
                        {[item |-> NewItem(n, seen), tx |-> NewTrigger(n, seen)]}]
            /\ UNCHANGED <<clock, last, cache, net, link, landed, failures, drops,
                           restarts>>
    BY <1>5 DEF GetSubscriptionActions
  <2>2. NewItem(n, seen) \in SyncItem /\ NewTrigger(n, seen) \in TriggerTx
    BY <2>1, BuiltType
  <2>3. signed' \in [Node -> SUBSET [item : SyncItem, tx : TriggerTx]]
    BY <2>1, <2>2 DEF TypeOK
  <2>4. worker[n] \in Worker /\ worker[n].ts \in Rounds
    BY <2>1 DEF TypeOK
  <2>5. IdleWorker(worker[n].ts) \in Worker
    BY <1>1, <2>4 DEF Rounds
  <2>6. /\ worker' \in [Node -> Worker]
        /\ \A m \in Node : worker'[m].pc # "idle" => worker'[m].ts \in Rounds
    <3>1. CASE worker' = [worker EXCEPT ![n] = IdleWorker(@.ts)]
      BY <2>4, <2>5, <3>1 DEF TypeOK, IdleWorker
    <3>2. CASE worker' = [worker EXCEPT ![n].pc = "wait",
                                        ![n].item = NewItem(n, seen),
                                        ![n].tx = NewTrigger(n, seen)]
      <4>1. [worker[n] EXCEPT !.pc = "wait", !.item = NewItem(n, seen),
                              !.tx = NewTrigger(n, seen)] \in Worker
        BY <2>2, <2>4 DEF Worker
      <4> QED
        BY <2>4, <3>2, <4>1 DEF TypeOK, Worker
    <3> QED
      BY <2>1, <3>1, <3>2
  <2> QED
    BY <2>1, <2>3, <2>6 DEF TypeOK
<1>6. ASSUME NEW n \in Node, TriggerSucceeds(n) PROVE TypeOK'
  <2>1. worker[n].item \in SyncItem
    <3>1. [item |-> worker[n].item, tx |-> worker[n].tx] \in [item : SyncItem, tx : TriggerTx]
      BY <1>6 DEF TriggerSucceeds, WaitingIsSigned, TypeOK
    <3> QED
      BY <3>1
  <2>2. worker[n].ts \in 0..MaxRound
    BY DEF TypeOK, Worker
  <2>3. worker' \in [Node -> Worker]
    BY <1>1, <1>6, <2>2 DEF TriggerSucceeds, TypeOK
  <2>4. \A m \in Node : worker'[m].pc # "idle" => worker'[m].ts \in Rounds
    BY <1>6 DEF TriggerSucceeds, TypeOK, IdleWorker
  <2>5. /\ cache' \in [Node -> SUBSET (SyncItem \X Node)]
        /\ last' \in [Node -> SyncData \cup {None}]
    BY <1>6, <2>1, TrySetType DEF TriggerSucceeds
  <2>6. net' \subseteq [from : Node, to : Node, item : SyncItem, sigs : SUBSET Node]
    <3>1. Broadcast(n, Reachable(n), worker[n].item, {n})
            \subseteq [from : Node, to : Node, item : SyncItem, sigs : SUBSET Node]
      BY <1>2, <2>1, BroadcastType
    <3>2. net' = net \cup Broadcast(n, Reachable(n), worker[n].item, {n})
      BY <1>6 DEF TriggerSucceeds
    <3> QED
      BY <3>1, <3>2 DEF TypeOK
  <2>7. UNCHANGED <<clock, link, landed, signed, failures, drops, restarts>>
    BY <1>6 DEF TriggerSucceeds
  <2> QED
    BY <2>3, <2>4, <2>5, <2>6, <2>7 DEF TypeOK
<1>7. ASSUME NEW n \in Node, RoundFails(n) PROVE TypeOK'
  <2>1. worker[n].ts \in 0..MaxRound
    BY DEF TypeOK, Worker
  <2>2. worker' \in [Node -> Worker]
    BY <1>1, <1>7, <2>1 DEF RoundFails, TypeOK
  <2>3. \A m \in Node : worker'[m].pc # "idle" => worker'[m].ts \in Rounds
    BY <1>7 DEF RoundFails, TypeOK, IdleWorker
  <2> QED
    BY <1>7, <2>2, <2>3 DEF RoundFails, TypeOK
<1>8. ASSUME NEW n \in Node, NEW msg \in net, ReceiveSync(n, msg) PROVE TypeOK'
  <2>1. msg.item \in SyncItem /\ msg.sigs \in SUBSET Node
    BY DEF TypeOK
  <2> QED
    BY <1>8, <2>1, TrySetType DEF ReceiveSync, TypeOK
<1>9. ASSUME Tick PROVE TypeOK'
  BY <1>9 DEF Tick, TypeOK
<1>10. ASSUME NEW n \in Node, NEW m \in Node, Disconnect(n, m) PROVE TypeOK'
  <2>1. link' \in [Channels -> {"down", "open", "synced"}]
    BY <1>10 DEF Disconnect, TypeOK
  <2>2. net' \subseteq net /\ drops' \in Nat
    BY <1>10 DEF Disconnect, TypeOK
  <2> QED
    BY <1>10, <2>1, <2>2 DEF Disconnect, TypeOK
<1>11. ASSUME NEW n \in Node, NEW m \in Node, PeerReady(n, m) PROVE TypeOK'
  <2>1. link' \in [Channels -> {"down", "open", "synced"}]
    BY <1>11 DEF PeerReady, TypeOK
  <2> QED
    BY <1>2, <1>11, <2>1, BroadcastType DEF PeerReady, TypeOK
<1>15. ASSUME NEW n \in Node, NEW m \in Node, Connect(n, m) PROVE TypeOK'
  <2>1. link' \in [Channels -> {"down", "open", "synced"}]
    BY <1>15 DEF Connect, TypeOK
  <2> QED
    BY <1>15, <2>1 DEF Connect, TypeOK
<1>12. ASSUME NEW n \in Node, Restart(n) PROVE TypeOK'
  <2>1. (IF clock <= MaxRound THEN clock - 1 ELSE MaxRound) \in 0..MaxRound
    BY <1>12 DEF Restart, TypeOK
  <2>2. worker' \in [Node -> Worker]
    BY <1>1, <1>12, <2>1 DEF Restart, TypeOK
  <2>3. link' \in [Channels -> {"down", "open", "synced"}]
    BY <1>12 DEF Restart, TypeOK
  <2> QED
    BY <1>12, <2>2, <2>3 DEF Restart, TypeOK, IdleWorker
<1>13. ASSUME NEW n \in Node, NEW b \in signed[n], TriggerLands(b.tx) PROVE TypeOK'
  BY <1>13 DEF TriggerLands, TypeOK
<1>14. CASE UNCHANGED vars
  BY <1>14 DEF vars, TypeOK
<1> QED
  BY <1>3, <1>4, <1>5, <1>6, <1>7, <1>8, <1>9, <1>10, <1>11, <1>12, <1>13, <1>14,
     <1>15
     DEF Next, WorkerStep, FailureStep, LedgerStep, Channels

-----------------------------------------------------------------------------
(* The inductive invariant *)

(* What was triggered stays triggered. *)
LEMMA RemembersMore ==
    ASSUME NEW item, NEW S, NEW T, S \subseteq T, RemembersOnly(item, S)
    PROVE  RemembersOnly(item, T)
BY DEF RemembersOnly, TriggeredIn

(* A signature that may be counted may be counted ever after. *)
LEMMA MayCountStays ==
    ASSUME NEW item, NEW m, signed[m] \subseteq signed'[m], landed \subseteq landed',
           MayCount(item, m)
    PROVE  MayCount(item, m)'
BY DEF MayCount

(* The history and the ledger only grow. *)
LEMMA HistoryGrows ==
    ASSUME TypeOK, [Next]_vars
    PROVE  /\ landed \subseteq landed'
           /\ \A n \in Node : signed[n] \subseteq signed'[n]
<1>1. ASSUME NEW n \in Node, GetSubscriptionActions(n)
      PROVE  landed' = landed /\ \A m \in Node : signed[m] \subseteq signed'[m]
  BY <1>1 DEF GetSubscriptionActions, TypeOK
<1>2. ASSUME NEW tx, TriggerLands(tx)
      PROVE  landed \subseteq landed' /\ signed' = signed
  BY <1>2 DEF TriggerLands
<1>3. ASSUME UNCHANGED <<landed, signed>>
      PROVE  landed \subseteq landed' /\ \A n \in Node : signed[n] \subseteq signed'[n]
  BY <1>3
<1>4. ASSUME NEW n \in Node,
             \/ StartWorker(n) \/ TriggerSucceeds(n) \/ RoundFails(n) \/ FailureStep(n)
             \/ \E msg \in net : ReceiveSync(n, msg)
      PROVE  UNCHANGED <<landed, signed>>
  BY <1>4 DEF FailureStep, StartWorker, SkipRound, TriggerSucceeds, RoundFails,
     ReceiveSync, Restart
<1>5. ASSUME \/ Tick \/ UNCHANGED vars
             \/ \E c \in Channels :
                Disconnect(c[1], c[2]) \/ Connect(c[1], c[2]) \/ PeerReady(c[1], c[2])
      PROVE  UNCHANGED <<landed, signed>>
  BY <1>5 DEF Tick, vars, Disconnect, Connect, PeerReady
<1> QED
  BY <1>1, <1>2, <1>3, <1>4, <1>5 DEF Next, WorkerStep, LedgerStep

(* A majority is somebody. *)
LEMMA MajorityMember ==
    ASSUME NEW S \in SUBSET Node, HasMajority(S)
    PROVE  \E m \in S : TRUE
<1>1. IsFiniteSet(Node) /\ Cardinality(Node) \in Nat
  BY ClusterAssumption, FS_CardinalityType
<1>2. S # {}
  <2>1. ASSUME S = {} PROVE FALSE
    <3>1. Cardinality(S) = 0
      BY <2>1, FS_EmptySet
    <3> QED
      BY <1>1, <3>1 DEF HasMajority
  <2> QED
    BY <2>1
<1> QED
  BY <1>2

(* Two majorities share a node. *)
LEMMA MajoritiesMeet ==
    ASSUME NEW S \in SUBSET Node, NEW T \in SUBSET Node, HasMajority(S), HasMajority(T)
    PROVE  \E m \in Node : m \in S /\ m \in T
<1>1. /\ IsFiniteSet(S) /\ Cardinality(S) \in Nat
      /\ IsFiniteSet(T) /\ Cardinality(T) \in Nat
      /\ Cardinality(Node) \in Nat
  BY ClusterAssumption, FS_CardinalityType, FS_Subset
<1>2. Cardinality(S) + Cardinality(T) > Cardinality(Node)
  BY <1>1 DEF HasMajority
<1>3. S \cap T # {}
  BY <1>2, ClusterAssumption, FS_MajoritiesIntersect, Zenon
<1> QED
  BY <1>3

(* What is signed by a node that may be counted is triggered. *)
LEMMA CountedIsTriggered ==
    ASSUME BuiltIsSound, NEW m \in Node, NEW item, MayCount(item, m)
    PROVE  RemembersOnly(item, landed)
<1>1. PICK b \in signed[m] : b.item = item /\ b.tx \in landed
  BY DEF MayCount
<1>2. landed \cup {b.tx} = landed
  BY <1>1
<1> QED
  BY <1>1, <1>2 DEF BuiltIsSound

(* Sync data with signatures that may be counted keeps the invariant. *)
LEMMA TrySetInv ==
    ASSUME TypeOK, Inv, NEW n \in Node, NEW item \in SyncItem, NEW sigs \in SUBSET Node,
           \A m \in sigs : MayCount(item, m),
           TrySetSyncData(n, item, sigs),
           UNCHANGED <<signed, landed>>
    PROVE  /\ (\A k \in Node : \A e \in cache[k] : MayCount(e[1], e[2]))'
           /\ (\A k \in Node : last[k] # None =>
                    \A m \in last[k].sigs : MayCount(last[k].item, m))'
           /\ LastIsVerified'
<1> DEFINE merged == Merged(n, item, sigs)
<1>1. merged \in SUBSET Node
  BY DEF Merged, Signers
<1>2. \A m \in merged : MayCount(item, m)
  BY DEF Merged, Signers, Inv, CountedAreSigned
<1>4. \A k \in Node : \A e \in cache'[k] : MayCount(e[1], e[2])
  <2>1. \A e \in cache'[n] : e \in cache[n] \/ \E m \in merged : e = <<item, m>>
    BY DEF TrySetSyncData, TypeOK
  <2>2. \A k \in Node \ {n} : cache'[k] = cache[k]
    BY DEF TrySetSyncData, TypeOK
  <2>3. \A k \in Node : \A e \in cache[k] : MayCount(e[1], e[2])
    BY DEF Inv, CountedAreSigned
  <2> HIDE DEF merged
  <2>4. \A e \in cache'[n] : MayCount(e[1], e[2])
    BY <1>2, <2>1, <2>3
  <2> QED
    BY <2>2, <2>3, <2>4
<1>3. (\A k \in Node : \A e \in cache[k] : MayCount(e[1], e[2]))'
  BY <1>4 DEF MayCount
<1>5. \/ last' = last
      \/ /\ HasMajority(merged)
         /\ last' = [last EXCEPT ![n] = [item |-> item, sigs |-> merged]]
  BY DEF TrySetSyncData
<1>6. CASE last' = last
  <2>1. \A k \in Node : last'[k] # None =>
            HasMajority(last'[k].sigs) /\ RemembersOnly(last'[k].item, landed')
    BY <1>6 DEF Inv, LastIsVerified
  <2>2. LastIsVerified'
    BY <2>1 DEF LastIsVerified, HasMajority, RemembersOnly, TriggeredIn
  <2>3. \A k \in Node : last'[k] # None =>
            \A m \in last'[k].sigs : MayCount(last'[k].item, m)
    BY <1>6 DEF Inv, CountedAreSigned
  <2> QED
    BY <1>3, <2>2, <2>3 DEF MayCount
<1>7. CASE /\ HasMajority(merged)
           /\ last' = [last EXCEPT ![n] = [item |-> item, sigs |-> merged]]
  <2> HIDE DEF merged
  <2>1. RemembersOnly(item, landed)
    <3>1. PICK m \in merged : TRUE
      BY <1>1, <1>7, MajorityMember
    <3> QED
      BY <1>1, <1>2, <3>1, CountedIsTriggered DEF Inv
  <2>2. last'[n] = [item |-> item, sigs |-> merged]
    BY <1>7 DEF TypeOK
  <2>3. \A k \in Node \ {n} : last'[k] = last[k]
    BY <1>7 DEF TypeOK
  <2>4. \A k \in Node : last'[k] # None =>
            \A m \in last'[k].sigs : MayCount(last'[k].item, m)
    BY <1>2, <2>2, <2>3 DEF Inv, CountedAreSigned
  <2>5. \A k \in Node : last'[k] # None =>
            HasMajority(last'[k].sigs) /\ RemembersOnly(last'[k].item, landed')
    BY <1>7, <2>1, <2>2, <2>3 DEF Inv, LastIsVerified
  <2>6. LastIsVerified'
    BY <2>5 DEF LastIsVerified, HasMajority, RemembersOnly, TriggeredIn
  <2> QED
    BY <1>3, <2>4, <2>6 DEF MayCount
<1> QED
  BY <1>5, <1>6, <1>7

(* What a node broadcasts may be counted. *)
LEMMA BroadcastInv ==
    ASSUME Inv, NEW n \in Node, NEW peers
    PROVE  \A msg \in BroadcastLast(n, peers) : \A m \in msg.sigs : MayCount(msg.item, m)
BY DEF BroadcastLast, Broadcast, Inv, CountedAreSigned

(* Building keeps what is built sound: the new item remembers what the last *)
(* sync data did, and what the new transaction triggers.                   *)
LEMMA BuiltIsSoundStep ==
    ASSUME TypeOK, Inv, NEW n \in Node, worker[n].pc = "actions",
           NEW seen \in [Sub -> Seen]
    PROVE  RemembersOnly(NewItem(n, seen), landed \cup {NewTrigger(n, seen)})
<1> DEFINE item == NewItem(n, seen)
<1> DEFINE tx == NewTrigger(n, seen)
<1>1. SUFFICES ASSUME NEW s \in Sub, item.data[s].lastNotification > 0
               PROVE  TriggeredIn(landed \cup {tx}, s, item.data[s])
  BY DEF RemembersOnly
<1>2. CASE s \in Due(n, seen)
  <2>1. item.data[s] = Notified(worker[n].ts, NotifiedPrice(n, seen, s))
    BY <1>2 DEF NewItem
  <2>2. tx.ts = worker[n].ts
    BY DEF NewTrigger
  <2>3. [sub |-> s, price |-> NotifiedPrice(n, seen, s),
         prevPrice |-> BaseData(n)[s].lastPrice] \in tx.events
    BY <1>2 DEF NewTrigger
  <2> HIDE DEF item, tx
  <2>4. \E e \in tx.events : e.sub = s /\ e.price = NotifiedPrice(n, seen, s)
    BY <2>3
  <2> QED
    BY <2>1, <2>2, <2>4 DEF TriggeredIn, Notified
<1>3. CASE s \notin Due(n, seen)
  <2>1. item.data[s] = BaseData(n)[s]
    BY <1>3 DEF NewItem
  <2>2. last[n] # None
    BY <1>1, <2>1 DEF BaseData, NoNotification
  <2>3. item.data[s] = last[n].item.data[s]
    BY <2>1, <2>2 DEF BaseData
  <2> HIDE DEF item, tx
  <2>4. TriggeredIn(landed, s, item.data[s])
    BY <1>1, <2>2, <2>3 DEF Inv, LastIsVerified, RemembersOnly
  <2> QED
    BY <2>4 DEF TriggeredIn
<1> QED
  BY <1>2, <1>3

(* What a step leaves of the signatures that are counted, or adds to the   *)
(* network, may still be counted.                                          *)
LEMMA CountedFrame ==
    ASSUME CountedAreSigned, TypeOK', landed \subseteq landed',
           \A n \in Node : signed[n] \subseteq signed'[n],
           \A n \in Node : cache'[n] \subseteq cache[n],
           \A n \in Node : last'[n] # None => last'[n] = last[n],
           \A msg \in net' : msg \in net \/ \A m \in msg.sigs : MayCount(msg.item, m)
    PROVE  CountedAreSigned'
<1>1. \A n \in Node : \A e \in cache'[n] : e[2] \in Node /\ MayCount(e[1], e[2])
  BY DEF CountedAreSigned, TypeOK
<1>2. \A msg \in net' : \A m \in msg.sigs : m \in Node /\ MayCount(msg.item, m)
  BY DEF CountedAreSigned, TypeOK
<1>3. \A n \in Node : last'[n] # None =>
        \A m \in last'[n].sigs : m \in Node /\ MayCount(last'[n].item, m)
  BY DEF CountedAreSigned, TypeOK, SyncData
<1> QED
  BY <1>1, <1>2, <1>3 DEF CountedAreSigned, MayCount

LEMMA VerifiedFrame ==
    ASSUME LastIsVerified, landed \subseteq landed',
           \A n \in Node : last'[n] # None => last'[n] = last[n]
    PROVE  LastIsVerified'
<1>1. \A n \in Node : last'[n] # None =>
        HasMajority(last'[n].sigs) /\ RemembersOnly(last'[n].item, landed')
  BY RemembersMore DEF LastIsVerified
<1> QED
  BY <1>1 DEF LastIsVerified, HasMajority, RemembersOnly, TriggeredIn

LEMMA BuiltFrame ==
    ASSUME BuiltIsSound, landed \subseteq landed', signed' = signed
    PROVE  BuiltIsSound'
<1>1. \A n \in Node : \A b \in signed[n] : RemembersOnly(b.item, landed' \cup {b.tx})
  <2> SUFFICES ASSUME NEW n \in Node, NEW b \in signed[n]
               PROVE  RemembersOnly(b.item, landed' \cup {b.tx})
    OBVIOUS
  <2>1. RemembersOnly(b.item, landed \cup {b.tx})
    BY DEF BuiltIsSound
  <2> QED
    BY <2>1 DEF RemembersOnly, TriggeredIn
<1> QED
  BY <1>1 DEF BuiltIsSound, RemembersOnly, TriggeredIn

LEMMA WaitingFrame ==
    ASSUME WaitingIsSigned, \A n \in Node : signed[n] \subseteq signed'[n],
           \A n \in Node : worker'[n].pc = "wait" => worker'[n] = worker[n]
    PROVE  WaitingIsSigned'
BY DEF WaitingIsSigned

LEMMA OnceFrame ==
    ASSUME BuiltOnce, TypeOK, TypeOK', signed' = signed, restarts' = restarts,
           \A n \in Node : \/ worker'[n].ts > worker[n].ts
                           \/ worker'[n].ts = worker[n].ts /\ worker'[n].pc = "idle"
                           \/ worker'[n] = worker[n]
    PROVE  BuiltOnce'
<1>1. \A n \in Node : worker[n].ts \in Nat /\ worker'[n].ts \in Nat
  BY LimitAssumption DEF TypeOK, Worker
<1>2. \A n \in Node : \A b \in signed[n] : b.item.ts \in Nat
  BY DEF TypeOK, SyncItem, Rounds
<1> QED
  BY <1>1, <1>2 DEF BuiltOnce

(* Steps that do not sign, do not count and do not land anything. *)
LEMMA QuietStep ==
    ASSUME TypeOK, TypeOK', Inv, UNCHANGED <<cache, last, landed, signed, restarts>>,
           \A msg \in net' : msg \in net \/ \A m \in msg.sigs : MayCount(msg.item, m),
           \A n \in Node : \/ worker'[n].ts > worker[n].ts /\ worker'[n].pc # "wait"
                           \/ worker'[n].ts = worker[n].ts /\ worker'[n].pc = "idle"
                           \/ worker'[n] = worker[n]
    PROVE  Inv'
<1>1. CountedAreSigned'
  BY CountedFrame DEF Inv
<1>2. LastIsVerified'
  BY VerifiedFrame DEF Inv
<1>3. BuiltIsSound'
  BY BuiltFrame DEF Inv
<1>4. WaitingIsSigned'
  BY WaitingFrame DEF Inv
<1>5. BuiltOnce'
  BY OnceFrame DEF Inv
<1> QED
  BY <1>1, <1>2, <1>3, <1>4, <1>5 DEF Inv

LEMMA InvStep ==
    ASSUME TypeOK, TypeOK', Inv, [Next]_vars
    PROVE  Inv'
<1>0. /\ landed \subseteq landed'
      /\ \A n \in Node : signed[n] \subseteq signed'[n]
  BY HistoryGrows
<1>1. ASSUME NEW n \in Node, StartWorker(n) PROVE Inv'
  <2>1. /\ worker'[n] = [IdleWorker(worker[n].ts + 1) EXCEPT !.pc = "actions"]
        /\ \A m \in Node \ {n} : worker'[m] = worker[m]
    BY <1>1 DEF StartWorker, TypeOK
  <2>2. worker[n].ts \in Int
    BY LimitAssumption DEF TypeOK, Worker
  <2>3. worker'[n].ts > worker[n].ts /\ worker'[n].pc # "wait"
    BY <2>1, <2>2 DEF IdleWorker
  <2>4. \A msg \in net' : msg \in net \/ \A m \in msg.sigs : MayCount(msg.item, m)
    BY <1>1, BroadcastInv DEF StartWorker
  <2> QED
    BY <1>1, <2>1, <2>3, <2>4, QuietStep DEF StartWorker
<1>2. ASSUME NEW n \in Node, SkipRound(n) PROVE Inv'
  <2>1. /\ worker'[n] = IdleWorker(worker[n].ts + 1)
        /\ \A m \in Node \ {n} : worker'[m] = worker[m]
    BY <1>2 DEF SkipRound, TypeOK
  <2>2. worker[n].ts \in Int
    BY LimitAssumption DEF TypeOK, Worker
  <2>3. worker'[n].ts > worker[n].ts /\ worker'[n].pc # "wait"
    BY <2>1, <2>2 DEF IdleWorker
  <2> QED
    BY <1>2, <2>1, <2>3, QuietStep DEF SkipRound
<1>3. ASSUME NEW n \in Node, RoundFails(n) PROVE Inv'
  <2>1. /\ worker'[n] = IdleWorker(worker[n].ts)
        /\ \A m \in Node \ {n} : worker'[m] = worker[m]
    BY <1>3 DEF RoundFails, TypeOK
  <2> QED
    BY <1>3, <2>1, QuietStep DEF RoundFails, IdleWorker
<1>4. ASSUME NEW n \in Node, GetSubscriptionActions(n) PROVE Inv'
  <2>1. PICK seen \in [Sub -> Seen] :
            /\ worker[n].pc = "actions"
            /\ \/ /\ worker' = [worker EXCEPT ![n] = IdleWorker(@.ts)]
                  /\ UNCHANGED signed
               \/ /\ worker' = [worker EXCEPT ![n].pc = "wait",
                                              ![n].item = NewItem(n, seen),
                                              ![n].tx = NewTrigger(n, seen)]
                  /\ signed' = [signed EXCEPT ![n] = @ \cup
                        {[item |-> NewItem(n, seen), tx |-> NewTrigger(n, seen)]}]
            /\ UNCHANGED <<clock, last, cache, net, link, landed, failures, drops,
                           restarts>>
    BY <1>4 DEF GetSubscriptionActions
  <2> DEFINE item == NewItem(n, seen)
  <2> DEFINE tx == NewTrigger(n, seen)
  <2>2. CASE worker' = [worker EXCEPT ![n] = IdleWorker(@.ts)] /\ UNCHANGED signed
    <3>1. /\ worker'[n] = IdleWorker(worker[n].ts)
          /\ \A m \in Node \ {n} : worker'[m] = worker[m]
      BY <2>2 DEF TypeOK
    <3> QED
      BY <2>1, <2>2, <3>1, QuietStep DEF IdleWorker
  <2>3. CASE /\ worker' = [worker EXCEPT ![n].pc = "wait", ![n].item = item, ![n].tx = tx]
             /\ signed' = [signed EXCEPT ![n] = @ \cup {[item |-> item, tx |-> tx]}]
    <3>1. RemembersOnly(item, landed \cup {tx}) /\ item.ts = worker[n].ts
      BY <2>1, BuiltIsSoundStep DEF NewItem
    <3> HIDE DEF item, tx
    <3>2. /\ worker'[n] = [worker[n] EXCEPT !.pc = "wait", !.item = item, !.tx = tx]
          /\ \A m \in Node \ {n} : worker'[m] = worker[m]
          /\ signed'[n] = signed[n] \cup {[item |-> item, tx |-> tx]}
          /\ \A m \in Node \ {n} : signed'[m] = signed[m]
      BY <2>3 DEF TypeOK
    <3>3. /\ worker'[n].pc = "wait" /\ worker'[n].item = item /\ worker'[n].tx = tx
          /\ worker'[n].ts = worker[n].ts
      BY <3>2 DEF TypeOK, Worker
    <3>4. CountedAreSigned'
      BY <1>0, <2>1, CountedFrame DEF Inv
    <3>5. LastIsVerified'
      BY <1>0, <2>1, VerifiedFrame DEF Inv
    <3>6. BuiltIsSound'
      <4>1. \A m \in Node : \A b \in signed'[m] : RemembersOnly(b.item, landed \cup {b.tx})
        <5> SUFFICES ASSUME NEW m \in Node, NEW b \in signed'[m]
                     PROVE  RemembersOnly(b.item, landed \cup {b.tx})
          OBVIOUS
        <5>1. CASE b \in signed[m]
          BY <5>1 DEF Inv, BuiltIsSound
        <5>2. CASE b = [item |-> item, tx |-> tx]
          BY <3>1, <5>2
        <5> QED
          BY <3>2, <5>1, <5>2
      <4> QED
        BY <2>1, <4>1 DEF BuiltIsSound, RemembersOnly, TriggeredIn
    <3>7. WaitingIsSigned'
      BY <3>2, <3>3 DEF Inv, WaitingIsSigned
    <3>8. BuiltOnce'
      <4>1. ASSUME restarts = 0
            PROVE  \A m \in Node : \A b, c \in signed'[m] :
                     /\ b.item.ts <= worker'[m].ts
                     /\ worker'[m].pc = "actions" => b.item.ts < worker'[m].ts
                     /\ b.item.ts = c.item.ts => b.item = c.item
        <5>1. \A m \in Node \ {n} : \A b, c \in signed'[m] :
                     /\ b.item.ts <= worker'[m].ts
                     /\ worker'[m].pc = "actions" => b.item.ts < worker'[m].ts
                     /\ b.item.ts = c.item.ts => b.item = c.item
          BY <3>2, <4>1 DEF Inv, BuiltOnce
        <5>2. \A b, c \in signed[n] : b.item.ts < worker[n].ts
                     /\ (b.item.ts = c.item.ts => b.item = c.item)
          BY <2>1, <4>1 DEF Inv, BuiltOnce
        <5>3. worker[n].ts \in Int /\ \A b \in signed[n] : b.item.ts \in Int
          BY LimitAssumption DEF TypeOK, Worker, SyncItem, Rounds
        <5>4. \A b \in signed'[n] : b \in signed[n] \/ b.item = item
          BY <3>2
        <5>5. \A b, c \in signed'[n] :
                     /\ b.item.ts <= worker'[n].ts
                     /\ b.item.ts = c.item.ts => b.item = c.item
          BY <3>1, <3>3, <5>2, <5>3, <5>4
        <5> QED
          BY <3>3, <5>1, <5>5
      <4> QED
        BY <2>1, <4>1 DEF BuiltOnce
    <3> QED
      BY <3>4, <3>5, <3>6, <3>7, <3>8 DEF Inv
  <2> QED
    BY <2>1, <2>2, <2>3
<1>5. ASSUME NEW n \in Node, TriggerSucceeds(n) PROVE Inv'
  <2>1. [item |-> worker[n].item, tx |-> worker[n].tx] \in signed[n]
    BY <1>5 DEF TriggerSucceeds, Inv, WaitingIsSigned
  <2>2. worker[n].item \in SyncItem
    <3>1. [item |-> worker[n].item, tx |-> worker[n].tx] \in [item : SyncItem, tx : TriggerTx]
      BY <2>1 DEF TypeOK
    <3> QED
      BY <3>1
  <2>3. MayCount(worker[n].item, n)
    BY <1>5, <2>1 DEF TriggerSucceeds, HasLanded, MayCount
  <2>4. /\ (\A k \in Node : \A e \in cache[k] : MayCount(e[1], e[2]))'
        /\ (\A k \in Node : last[k] # None =>
                \A m \in last[k].sigs : MayCount(last[k].item, m))'
        /\ LastIsVerified'
    <3>1. /\ {n} \in SUBSET Node
          /\ \A m \in {n} : MayCount(worker[n].item, m)
      BY <2>3
    <3> QED
      BY <1>5, <2>2, <3>1, TrySetInv DEF TriggerSucceeds
  <2>5. CountedAreSigned'
    <3>1. \A msg \in net' : \A m \in msg.sigs : MayCount(msg.item, m)
      BY <1>5, <2>3 DEF TriggerSucceeds, Broadcast, Inv, CountedAreSigned
    <3> QED
      BY <1>5, <2>4, <3>1 DEF TriggerSucceeds, CountedAreSigned, MayCount
  <2>6. /\ worker'[n] = IdleWorker(worker[n].ts)
        /\ \A m \in Node \ {n} : worker'[m] = worker[m]
    BY <1>5 DEF TriggerSucceeds, TypeOK
  <2>7. BuiltIsSound'
    BY <1>0, <1>5, BuiltFrame DEF TriggerSucceeds, Inv
  <2>8. WaitingIsSigned'
    BY <1>0, <2>6, WaitingFrame DEF Inv, IdleWorker
  <2>9. BuiltOnce'
    BY <1>5, <2>6, OnceFrame DEF TriggerSucceeds, Inv, IdleWorker
  <2> QED
    BY <2>4, <2>5, <2>7, <2>8, <2>9 DEF Inv
<1>6. ASSUME NEW n \in Node, NEW msg \in net, ReceiveSync(n, msg) PROVE Inv'
  <2>1. msg.item \in SyncItem /\ msg.sigs \in SUBSET Node
    BY DEF TypeOK
  <2>2. \A m \in msg.sigs : MayCount(msg.item, m)
    BY DEF Inv, CountedAreSigned
  <2>3. /\ (\A k \in Node : \A e \in cache[k] : MayCount(e[1], e[2]))'
        /\ (\A k \in Node : last[k] # None =>
                \A m \in last[k].sigs : MayCount(last[k].item, m))'
        /\ LastIsVerified'
    BY <1>6, <2>1, <2>2, TrySetInv DEF ReceiveSync
  <2>4. CountedAreSigned'
    <3>1. \A g \in net' : \A m \in g.sigs : MayCount(g.item, m)
      BY <1>6 DEF ReceiveSync, Inv, CountedAreSigned
    <3> QED
      BY <1>6, <2>3, <3>1 DEF ReceiveSync, CountedAreSigned, MayCount
  <2>5. BuiltIsSound'
    BY <1>0, <1>6, BuiltFrame DEF ReceiveSync, Inv
  <2>6. WaitingIsSigned'
    BY <1>0, <1>6, WaitingFrame DEF ReceiveSync, Inv
  <2>7. BuiltOnce'
    BY <1>6, OnceFrame DEF ReceiveSync, Inv
  <2> QED
    BY <2>3, <2>4, <2>5, <2>6, <2>7 DEF Inv
<1>7. ASSUME Tick PROVE Inv'
  BY <1>7, QuietStep DEF Tick
<1>8. ASSUME NEW n \in Node, NEW m \in Node, Disconnect(n, m) PROVE Inv'
  BY <1>8, QuietStep DEF Disconnect
<1>13. ASSUME NEW n \in Node, NEW m \in Node, Connect(n, m) PROVE Inv'
  BY <1>13, QuietStep DEF Connect
<1>9. ASSUME NEW n \in Node, NEW m \in Node, PeerReady(n, m) PROVE Inv'
  <2>1. \A msg \in net' : msg \in net \/ \A k \in msg.sigs : MayCount(msg.item, k)
    BY <1>9, BroadcastInv DEF PeerReady
  <2> QED
    BY <1>9, <2>1, QuietStep DEF PeerReady
<1>10. ASSUME NEW n \in Node, Restart(n) PROVE Inv'
  <2>1. /\ last'[n] = None /\ \A m \in Node \ {n} : last'[m] = last[m]
        /\ cache'[n] = {} /\ \A m \in Node \ {n} : cache'[m] = cache[m]
        /\ worker'[n].pc = "idle" /\ \A m \in Node \ {n} : worker'[m] = worker[m]
        /\ net' \subseteq net
    BY <1>10 DEF Restart, TypeOK, IdleWorker
  <2>2. CountedAreSigned'
    BY <1>0, <2>1, CountedFrame DEF Inv
  <2>3. LastIsVerified'
    BY <1>0, <2>1, VerifiedFrame DEF Inv
  <2>4. BuiltIsSound'
    BY <1>0, <1>10, BuiltFrame DEF Restart, Inv
  <2>5. WaitingIsSigned'
    BY <1>0, <2>1, WaitingFrame DEF Inv
  <2>6. restarts' > 0
    BY <1>10 DEF Restart, TypeOK
  <2>7. BuiltOnce'
    BY <2>6 DEF BuiltOnce
  <2> QED
    BY <2>2, <2>3, <2>4, <2>5, <2>7 DEF Inv
<1>11. ASSUME NEW n \in Node, NEW b \in signed[n], TriggerLands(b.tx) PROVE Inv'
  <2>1. CountedAreSigned'
    BY <1>0, <1>11, CountedFrame DEF TriggerLands, Inv
  <2>2. LastIsVerified'
    BY <1>0, <1>11, VerifiedFrame DEF TriggerLands, Inv
  <2>3. BuiltIsSound'
    BY <1>0, <1>11, BuiltFrame DEF TriggerLands, Inv
  <2>4. WaitingIsSigned'
    BY <1>0, <1>11, WaitingFrame DEF TriggerLands, Inv
  <2>5. BuiltOnce'
    BY <1>11, OnceFrame DEF TriggerLands, Inv
  <2> QED
    BY <2>1, <2>2, <2>3, <2>4, <2>5 DEF Inv
<1>12. CASE UNCHANGED vars
  BY <1>12, QuietStep DEF vars
<1> QED
  BY <1>1, <1>2, <1>3, <1>4, <1>5, <1>6, <1>7, <1>8, <1>9, <1>10, <1>11, <1>12,
     <1>13
     DEF Next, WorkerStep, FailureStep, LedgerStep, Channels

-----------------------------------------------------------------------------
(* The theorems *)

LEMMA InitInv == Init => TypeOK /\ Inv
<1> SUFFICES ASSUME Init PROVE TypeOK /\ Inv
  OBVIOUS
<1>1. IdleWorker(0) \in Worker
  BY LimitAssumption DEF IdleWorker, Worker
<1>2. TypeOK
  BY <1>1 DEF Init, TypeOK, IdleWorker
<1>3. Inv
  BY DEF Init, Inv, CountedAreSigned, LastIsVerified, BuiltIsSound, WaitingIsSigned,
     BuiltOnce, IdleWorker
<1> QED
  BY <1>2, <1>3

(* In every behaviour each signature that a node counts for sync data was   *)
(* made by its signer, for a trigger transaction that landed.              *)
THEOREM InvCorrect == Spec => [](TypeOK /\ Inv)
<1>1. TypeOK /\ Inv /\ [Next]_vars => (TypeOK /\ Inv)'
  <2> SUFFICES ASSUME TypeOK, Inv, [Next]_vars PROVE TypeOK' /\ Inv'
    OBVIOUS
  <2>1. TypeOK'
    BY TypeStep DEF Inv
  <2> QED
    BY <2>1, InvStep
<1> QED
  BY InitInv, <1>1, PTL DEF Spec

(* All variables keep their types. *)
THEOREM TypeCorrect == Spec => []TypeOK
BY InvCorrect, PTL

(* What the nodes believe their subscribers were told was triggered on the  *)
(* ledger.                                                                  *)
THEOREM NotificationsLandedCorrect == Spec => []NotificationsLanded
<1>1. Inv => NotificationsLanded
  BY DEF Inv, LastIsVerified, NotificationsLanded
<1> QED
  BY InvCorrect, <1>1, PTL

(* Two versions of the sync data of a minute share a signer. *)
LEMMA CommonSigner ==
    ASSUME TypeOK, Inv, NEW n \in Node, NEW k \in Node, last[n] # None, last[k] # None
    PROVE  \E m \in Node : \E b, c \in signed[m] :
                b.item = last[n].item /\ c.item = last[k].item
<1>1. /\ last[n].sigs \in SUBSET Node /\ HasMajority(last[n].sigs)
      /\ last[k].sigs \in SUBSET Node /\ HasMajority(last[k].sigs)
  BY DEF TypeOK, SyncData, Inv, LastIsVerified
<1>2. PICK m \in Node : m \in last[n].sigs /\ m \in last[k].sigs
  BY <1>1, MajoritiesMeet
<1>3. MayCount(last[n].item, m) /\ MayCount(last[k].item, m)
  BY <1>2 DEF Inv, CountedAreSigned
<1> QED
  BY <1>3 DEF MayCount

(* Without restarts, all nodes that hold sync data of a minute hold the     *)
(* same.                                                                    *)
THEOREM SyncAgreementCorrect == Spec => []SyncAgreement
<1>1. TypeOK /\ Inv => SyncAgreement
  <2> SUFFICES ASSUME TypeOK, Inv, NEW n \in Node, NEW k \in Node,
                      last[n] # None, last[k] # None, last[n].item.ts = last[k].item.ts,
                      ~(restarts > 0)
               PROVE  last[n].item = last[k].item
    BY DEF SyncAgreement
  <2>1. restarts = 0
    BY DEF TypeOK
  <2> QED
    BY <2>1, CommonSigner DEF Inv, BuiltOnce
<1> QED
  BY InvCorrect, <1>1, PTL

(* Even with restarts, two versions of the sync data of a minute are both   *)
(* held only if one node signed both.                                       *)
THEOREM DisagreementIsSignedCorrect == Spec => []DisagreementIsSigned
<1>1. TypeOK /\ Inv => DisagreementIsSigned
  <2> SUFFICES ASSUME TypeOK, Inv, NEW n \in Node, NEW k \in Node,
                      last[n] # None, last[k] # None, last[n].item.ts = last[k].item.ts,
                      last[n].item # last[k].item
               PROVE  SignedTwice(last[n].item.ts)
    BY DEF DisagreementIsSigned
  <2> QED
    BY CommonSigner DEF SignedTwice
<1> QED
  BY InvCorrect, <1>1, PTL

LEMMA TrySetForward ==
    ASSUME TypeOK, NEW n \in Node, NEW item \in SyncItem, NEW sigs \in SUBSET Node,
           TrySetSyncData(n, item, sigs), NEW k \in Node, last'[k] # last[k]
    PROVE  LastTimestamp(k) <= LastTimestamp(k)'
<1>1. PICK merged : merged = Merged(n, item, sigs)
  OBVIOUS
<1>2. merged \in SUBSET Node
  BY <1>1 DEF Merged, Signers
<1>3. PICK data : data = [item |-> item, sigs |-> merged]
  OBVIOUS
<1>4. data \in SyncData /\ data.item = item /\ data # None
  BY <1>2, <1>3, NoneAssumption DEF SyncData
<1>5. IsCurrent(n, item) /\ last' = [last EXCEPT ![n] = data]
  BY <1>1, <1>3 DEF TrySetSyncData
<1>6. k = n /\ last'[n] = data
  BY <1>5 DEF TypeOK
<1>7. LastTimestamp(n)' = item.ts
  BY <1>4, <1>6 DEF LastTimestamp
<1> QED
  BY <1>5, <1>6, <1>7 DEF IsCurrent, SyncItem, Rounds, LastTimestamp, TypeOK, SyncData

(* The last sync data of a node is replaced by what is not older, whatever    *)
(* arrives late or twice, until the process is restarted.                   *)
THEOREM SyncMovesForwardCorrect == Spec => SyncMovesForward
<1>1. TypeOK /\ Inv /\ [Next]_vars =>
        \A n \in Node : last'[n] # last[n] => LastTimestamp(n) <= LastTimestamp(n)'
                                              \/ restarts' > restarts
  <2> SUFFICES ASSUME TypeOK, Inv, [Next]_vars, NEW n \in Node, last'[n] # last[n]
               PROVE  LastTimestamp(n) <= LastTimestamp(n)' \/ restarts' > restarts
    OBVIOUS
  <2>1. ASSUME NEW k \in Node, TriggerSucceeds(k)
        PROVE  LastTimestamp(n) <= LastTimestamp(n)'
    <3>1. worker[k].pc = "wait" /\ TrySetSyncData(k, worker[k].item, {k})
      BY <2>1 DEF TriggerSucceeds
    <3>2. [item |-> worker[k].item, tx |-> worker[k].tx] \in [item : SyncItem, tx : TriggerTx]
      BY <3>1 DEF Inv, WaitingIsSigned, TypeOK
    <3>3. worker[k].item \in SyncItem
      BY <3>2
    <3> QED BY <3>1, <3>3, TrySetForward
  <2>2. ASSUME NEW k \in Node, NEW msg \in net, ReceiveSync(k, msg)
        PROVE  LastTimestamp(n) <= LastTimestamp(n)'
    <3>1. msg.item \in SyncItem /\ msg.sigs \in SUBSET Node
      BY DEF TypeOK
    <3> QED BY <2>2, <3>1, TrySetForward DEF ReceiveSync
  <2>3. ASSUME NEW k \in Node, Restart(k)
        PROVE  restarts' > restarts
    BY <2>3 DEF Restart, TypeOK
  <2> QED
    BY <2>1, <2>2, <2>3
    DEF Next, WorkerStep, FailureStep, LedgerStep, StartWorker, GetSubscriptionActions,
        RoundFails, SkipRound, TriggerLands, Disconnect, Connect, PeerReady,
        Tick, vars
<1> QED
  BY <1>1, InvCorrect, PTL DEF Spec, SyncMovesForward

=============================================================================
