--------------------------- MODULE PriceConsensus ---------------------------
(***************************************************************************)
(* The trades data a node computes its prices from (getConcensusData of    *)
(* price-manager.js).  A node has its own trades data of each minute and   *)
(* what the others sent of theirs (TradesSync).  It keeps what a majority  *)
(* has the same, finds the group of nodes that shares most with it, and    *)
(* drops what that group does not share.  Nothing else is exchanged: that  *)
(* a majority comes to the same prices, so that the transactions they      *)
(* build from them are the same (TxConsensus), rests on these steps alone. *)
(*                                                                         *)
(* A datum is what a source has of an asset in a minute.  The data are     *)
(* numbered minute by minute; a node goes through those of a minute in the *)
(* order its own trades data have them in.                                 *)
(***************************************************************************)
EXTENDS Integers, FiniteSets, Functions

CONSTANTS
    N,          \* number of nodes
    Minutes,    \* minutes of the timeframe
    PerMinute,  \* data of a minute
    Value,      \* the values of a datum; 0 is an empty one
    None,       \* no datum
    Width,      \* bits of a mask (32)
    SameOrder   \* TRUE if all the nodes have the data in the same order

ASSUME ClusterAssumption ==
    /\ N \in Nat \ {0}
    /\ Width \in Nat \ {0}
ASSUME DataAssumption ==
    /\ Minutes \in Nat
    /\ PerMinute \in Nat \ {0}
    /\ Value \subseteq Nat
    /\ None \notin Nat
ASSUME OrderAssumption == SameOrder \in BOOLEAN

Node == 0..N - 1
Item == 1..Minutes * PerMinute
MinuteOf(item) == (item - 1) \div PerMinute + 1

VARIABLES
    data,       \* what each node loaded: Value or None, by item
    order,      \* per node: the position of an item in its data
    synced,     \* TRUE if all the data arrive before a node computes its prices
    minute,     \* per node: the minute it reads next
    candidate,  \* per node: by item, None or the datum and the mask of its nodes
    prices      \* per node: the data it builds its prices from

inputs == <<data, order, synced>>
vars == <<inputs, minute, candidate, prices>>

-----------------------------------------------------------------------------
(* Masks *)

Majority == N \div 2 + 1

(* Mutant: the bits are counted from one *)
BitFromOne(node) == (node % Width) + 1

(* 1 << index: the shift counts modulo the width *)
Bit(node) == node % Width

Mask(nodes) == {Bit(node) : node \in nodes}

(* The nodes that have the same as the node has, among those whose data of the
   minute it knows *)
Matching(node, known, item) ==
    {other \in known : data[other][item] = data[node][item]}

(* Mutant: one less than a majority will do *)
MatchedAlmost(node, known, item) ==
    IF data[node][item] # None /\ Cardinality(Matching(node, known, item)) >= Majority - 1
    THEN [value |-> data[node][item],
          nodes |-> Mask(Matching(node, known, item))]
    ELSE None

(* A datum a majority shares stays, with the mask of those who have it *)
Matched(node, known, item) ==
    IF data[node][item] # None /\ Cardinality(Matching(node, known, item)) >= Majority
    THEN [value |-> data[node][item],
          nodes |-> Mask(Matching(node, known, item))]
    ELSE None

Present(list) == {item \in Item : list[item] # None}

(* The data that count: zeros trivially agree *)
Counted(list) == {item \in Present(list) : list[item].value > 0}

Occurrences(list, mask) ==
    Cardinality({item \in Counted(list) : list[item].nodes = mask})

(* The first datum among those of the masks with most occurrences *)
BestItem(list, position) ==
    CHOOSE best \in Counted(list) :
      \A item \in Counted(list) :
        LET count == Occurrences(list, list[best].nodes)
            other == Occurrences(list, list[item].nodes)
        IN other < count \/ (other = count /\ position[best] <= position[item])

BestMask(list, position) == list[BestItem(list, position)].nodes

Empty == [item \in Item |-> None]

(* Mutant: data of the majority stay whoever shares them *)
ConcensusDataAll(list, position) ==
    IF Counted(list) = {} THEN Empty
    ELSE [item \in Item |-> IF item \in Present(list) THEN list[item].value ELSE None]

(* What remains: the data all the nodes of the best mask share *)
ConcensusData(list, position) ==
    IF Counted(list) = {} THEN Empty
    ELSE [item \in Item |->
            IF /\ item \in Present(list)
               /\ BestMask(list, position) \subseteq list[item].nodes
            THEN list[item].value ELSE None]

-----------------------------------------------------------------------------
(* The nodes *)

(* The orders the data can be in: the minutes follow each other *)
Orders ==
    IF SameOrder THEN {[item \in Item |-> item]}
    ELSE {position \in Bijection(Item, Item) :
            \A item \in Item : MinuteOf(position[item]) = MinuteOf(item)}

Init ==
    /\ data \in [Node -> [Item -> Value \cup {None}]]
    /\ order \in [Node -> Orders]
    /\ synced \in BOOLEAN
    /\ minute = [node \in Node |-> 1]
    /\ candidate = [node \in Node |-> Empty]
    /\ prices = [node \in Node |-> None]

(* The nodes whose data of a minute have arrived when the node reads it *)
Heard(node) == IF synced THEN {Node} ELSE {known \in SUBSET Node : node \in known}

(* The data of the next minute are read and matched *)
ReadMinute(node) ==
    /\ minute[node] <= Minutes
    /\ \E known \in Heard(node) :
         candidate' = [candidate EXCEPT ![node] =
                         [item \in Item |-> IF MinuteOf(item) = minute[node]
                                           THEN Matched(node, known, item)
                                           ELSE @[item]]]
    /\ minute' = [minute EXCEPT ![node] = @ + 1]
    /\ UNCHANGED <<inputs, prices>>

(* The minutes are read: what the best mask does not share is dropped *)
GetConcensusData(node) ==
    /\ minute[node] = Minutes + 1
    /\ prices[node] = None
    /\ prices' = [prices EXCEPT ![node] = ConcensusData(candidate[node], order[node])]
    /\ UNCHANGED <<inputs, minute, candidate>>

Next ==
    \E node \in Node : ReadMinute(node) \/ GetConcensusData(node)

Spec == Init /\ [][Next]_vars

-----------------------------------------------------------------------------
(* Properties *)

(* The types of the variables *)
Match == [value : Value, nodes : SUBSET Node]
TypeOK ==
    /\ data \in [Node -> [Item -> Value \cup {None}]]
    /\ order \in [Node -> Orders]
    /\ synced \in BOOLEAN
    /\ minute \in [Node -> 1..Minutes + 1]
    /\ candidate \in [Node -> [Item -> Match \cup {None}]]
    /\ prices \in [Node -> [Item -> Value \cup {None}] \cup {None}]

Done == {node \in Node : prices[node] # None}

(* What a node builds its prices from is shared: there is a majority each of
   which loaded every datum of it with the same value *)
PricesShared ==
    \A node \in Done :
      \E group \in SUBSET Node :
        /\ Cardinality(group) >= Majority
        /\ \A item \in Item, other \in group :
             prices[node][item] # None => data[other][item] = prices[node][item]

(* When the data have arrived everywhere, the nodes need no further exchange:
   if one of them has prices, a majority builds the same ones *)
Chosen(node) == prices[node] # Empty
MajorityAgrees ==
    synced /\ Done = Node /\ (\E node \in Node : Chosen(node)) =>
      \E group \in SUBSET Node :
        /\ Cardinality(group) >= Majority
        /\ \A node, other \in group : prices[node] = prices[other] /\ Chosen(node)

=============================================================================
