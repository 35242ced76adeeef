------------------------ MODULE PriceConsensusProofs ------------------------
(***************************************************************************)
(* What the masks of PriceConsensus guarantee, for any number of nodes up   *)
(* to the width of a mask, any minutes, data and values: what a node keeps  *)
(* is shared by a majority, and once the data have arrived a majority      *)
(* keeps the same.  Then what AssetPrice makes of the data, for any sources, *)
(* prices and decimals: a total, an average and a median stay between the  *)
(* values they are computed from.                                          *)
(***************************************************************************)
EXTENDS AssetPrice, FiniteSetTheorems, TLAPS

-----------------------------------------------------------------------------
(* The inductive invariant behind PricesShared and MajorityAgrees          *)

(* A candidate is what the data of some nodes made it *)
CandidatesMatch ==
    \A node \in Node, item \in Item : candidate[node][item] # None =>
        \E known \in SUBSET Node : candidate[node][item] = Matched(node, known, item)

(* With all the data there, what was read was matched with all of them *)
ReadWithAll ==
    \A node \in Node, item \in Item :
        synced /\ MinuteOf(item) < minute[node]
            => candidate[node][item] = Matched(node, Node, item)

(* Prices come from the candidates of all minutes, which are final then *)
PricesComputed ==
    \A node \in Done :
        /\ minute[node] = Minutes + 1
        /\ prices[node] = ConcensusData(candidate[node], order[node])

Inv == CandidatesMatch /\ ReadWithAll /\ PricesComputed


-----------------------------------------------------------------------------
(* Arithmetic *)

LEMMA DivBounds ==
  ASSUME NEW d \in Nat \ {0}, NEW x \in Nat
  PROVE  x \div d \in Nat /\ d * (x \div d) <= x
OBVIOUS

(* Every item belongs to a minute of the timeframe. *)
LEMMA MinuteBounds ==
  ASSUME NEW item \in Item
  PROVE  MinuteOf(item) \in 1..Minutes
<1> DEFINE q == (item - 1) \div PerMinute
<1>0. Minutes \in Nat /\ PerMinute \in Nat \ {0}
  BY DataAssumption
<1>1. item - 1 \in Nat /\ item - 1 < Minutes * PerMinute
  BY <1>0 DEF Item
<1>2. q \in Nat /\ PerMinute * q <= item - 1
  BY <1>0, <1>1, DivBounds
<1>3. MinuteOf(item) = q + 1
  BY DEF MinuteOf
<1> HIDE DEF q
<1>4. PerMinute * q < Minutes * PerMinute
  BY <1>0, <1>1, <1>2
<1>5. ASSUME q >= Minutes PROVE FALSE
  <2>1. PerMinute * (q - Minutes) >= 0
    BY <1>0, <1>2, <1>5
  <2>2. PerMinute * (q - Minutes) = PerMinute * q - Minutes * PerMinute
    BY <1>0, <1>2
  <2>3. PerMinute * q \in Int /\ Minutes * PerMinute \in Int
    BY <1>0, <1>2
  <2> QED BY <1>4, <2>1, <2>2, <2>3
<1> QED BY <1>0, <1>2, <1>3, <1>5

LEMMA MajorityFacts ==
  /\ Majority \in Nat /\ Majority <= N /\ 2 * Majority > N
  /\ IsFiniteSet(Node) /\ Cardinality(Node) = N
<1>1. N \in Nat \ {0}
  BY ClusterAssumption
<1>2. Majority \in Nat /\ Majority <= N /\ 2 * Majority > N
  BY <1>1 DEF Majority
<1>3. IsFiniteSet(0..N - 1) /\ Cardinality(0..N - 1) = N
  <2>1. N - 1 \in Int
    BY <1>1
  <2>2. IsFiniteSet(0..N - 1)
        /\ Cardinality(0..N - 1) = IF 0 <= N - 1 THEN (N - 1) - 0 + 1 ELSE 0
    BY <2>1, FS_Interval
  <2> QED BY <1>1, <2>2
<1> QED BY <1>2, <1>3 DEF Node

LEMMA ItemsFinite == IsFiniteSet(Item)
<1>1. Minutes * PerMinute \in Int
  BY DataAssumption
<1> QED BY <1>1, FS_Interval DEF Item

(* Two majorities have a node in common. *)
LEMMA MajoritiesMeet ==
  ASSUME NEW A \in SUBSET Node, NEW B \in SUBSET Node,
         Cardinality(A) >= Majority, Cardinality(B) >= Majority
  PROVE  A \cap B # {}
<1>1. /\ IsFiniteSet(A) /\ IsFiniteSet(B) /\ IsFiniteSet(Node)
      /\ Cardinality(A) \in Nat /\ Cardinality(B) \in Nat
      /\ Cardinality(A) + Cardinality(B) > Cardinality(Node)
  BY MajorityFacts, FS_Subset, FS_CardinalityType
<1> QED BY <1>1, FS_MajoritiesIntersect

-----------------------------------------------------------------------------
(* Masks *)

(* As long as the nodes fit into a mask, it says who they are. *)
LEMMA MaskIsFaithful ==
  ASSUME N <= Width, NEW nodes \in SUBSET Node
  PROVE  Mask(nodes) = nodes
<1>1. \A node \in nodes : Bit(node) = node
  <2>1. \A node \in Node : node \in Nat /\ node < Width
    BY ClusterAssumption DEF Node
  <2>2. \A i \in Nat : i < Width => i % Width = i
    BY ClusterAssumption
  <2> QED BY <2>1, <2>2 DEF Bit
<1> QED BY <1>1 DEF Mask

LEMMA MaskType ==
  ASSUME NEW nodes \in SUBSET Node
  PROVE  Mask(nodes) \in SUBSET Node
<1>1. \A node \in Node : Bit(node) \in Node
  <2>1. \A i \in Nat : i % Width \in Nat /\ i % Width <= i
    BY ClusterAssumption
  <2>2. \A node \in Node : node \in Nat /\ node <= N - 1
    BY ClusterAssumption DEF Node
  <2> QED BY <2>1, <2>2, ClusterAssumption DEF Bit, Node
<1> QED BY <1>1 DEF Mask

-----------------------------------------------------------------------------
(* The best mask *)

(* A nonempty set of natural numbers has a least element. *)
LEMMA LeastNatural ==
  ASSUME NEW S \in SUBSET Nat, S # {}
  PROVE  \E x \in S : \A y \in S : x <= y
<1> PICK k \in S : TRUE
  OBVIOUS
<1> DEFINE T == {0..a : a \in {b \in S : b <= k}}
<1>1. IsWellFoundedOn(StrictSubsetOrdering(0..k), SUBSET (0..k))
  <2>1. IsFiniteSet(0..k)
    BY FS_Interval
  <2>2. FiniteSubsetsOf(0..k) = SUBSET (0..k)
    BY <2>1, FS_FiniteSubsetsOfFinite, Zenon
  <2> QED BY <2>2, FS_StrictSubsetOrderingWellFounded, Zenon
<1>2. T \subseteq SUBSET (0..k) /\ 0..k \in T
  OBVIOUS
<1>3. PICK x \in T : \A y \in T : ~ (<<y, x>> \in StrictSubsetOrdering(0..k))
  BY <1>1, <1>2, WFMin, Zenon
<1>4. PICK m \in S : m <= k /\ x = 0..m
  BY <1>3
<1>5. ASSUME NEW b \in S, b < m PROVE FALSE
  <2>1. 0..b \in T /\ 0..b \subseteq 0..m /\ 0..b # 0..m
    BY <1>4, <1>5
  <2>2. <<0..b, x>> \in StrictSubsetOrdering(0..k)
    BY <2>1, <1>2, <1>4 DEF StrictSubsetOrdering
  <2> QED BY <2>1, <2>2, <1>3
<1> QED BY <1>5

LEMMA OccurrencesBounded ==
  ASSUME NEW list, NEW mask
  PROVE  Occurrences(list, mask) \in Nat /\ Occurrences(list, mask) <= Cardinality(Item)
BY ItemsFinite, FS_Subset, FS_CardinalityType DEF Occurrences, Counted, Present

LEMMA OrdersType ==
  ASSUME NEW position \in Orders
  PROVE  position \in [Item -> Item]
BY DEF Orders, Bijection, Injection

Better(list, position, best, item) ==
  LET count == Occurrences(list, list[best].nodes)
      other == Occurrences(list, list[item].nodes)
  IN other < count \/ (other = count /\ position[best] <= position[item])

(* The CHOOSE of BestItem has something to choose. *)
LEMMA BestExists ==
  ASSUME NEW list, NEW position \in Orders, Counted(list) # {}
  PROVE  /\ BestItem(list, position) \in Counted(list)
         /\ \A item \in Counted(list) :
                Better(list, position, BestItem(list, position), item)
<1> DEFINE occ(item) == Occurrences(list, list[item].nodes)
<1> DEFINE bound == Cardinality(Item)
<1> DEFINE counted == Counted(list)
<1>1. \A item \in counted : occ(item) \in Nat /\ bound - occ(item) \in Nat
  BY OccurrencesBounded, ItemsFinite, FS_CardinalityType
<1>2. \A item \in counted : position[item] \in Nat
  BY OrdersType, DataAssumption DEF Counted, Present, Item
<1>3. bound \in Nat
  BY ItemsFinite, FS_CardinalityType
<1> HIDE DEF occ, bound, counted
<1>4. PICK most \in counted : \A item \in counted : occ(item) <= occ(most)
  <2> DEFINE S == {bound - occ(item) : item \in counted}
  <2>1. S \in SUBSET Nat /\ S # {}
    BY <1>1 DEF counted
  <2>2. PICK x \in S : \A y \in S : x <= y
    BY <2>1, LeastNatural
  <2>3. PICK item \in counted : x = bound - occ(item)
    BY <2>2
  <2>4. \A other \in counted : bound - occ(item) <= bound - occ(other)
    BY <2>2, <2>3
  <2> QED BY <1>1, <1>3, <2>3, <2>4
<1> DEFINE T == {item \in counted : occ(item) = occ(most)}
<1>5. PICK first \in T : \A item \in T : position[first] <= position[item]
  <2> DEFINE S == {position[item] : item \in T}
  <2>1. S \in SUBSET Nat /\ S # {}
    BY <1>2
  <2>2. PICK x \in S : \A y \in S : x <= y
    BY <2>1, LeastNatural
  <2> QED BY <2>2
<1>6. \A item \in counted : \/ occ(item) < occ(first)
                            \/ occ(item) = occ(first) /\ position[first] <= position[item]
  BY <1>1, <1>4, <1>5
<1>7. \E best \in Counted(list) : \A item \in Counted(list) :
          Better(list, position, best, item)
  BY <1>5, <1>6 DEF occ, counted, Better
<1>8. BestItem(list, position)
        = CHOOSE best \in Counted(list) : \A item \in Counted(list) :
              Better(list, position, best, item)
  BY DEF BestItem, Better
<1> QED BY <1>7, <1>8

LEMMA ConcensusDataType ==
  ASSUME NEW list \in [Item -> Match \cup {None}], NEW position
  PROVE  ConcensusData(list, position) \in [Item -> Value \cup {None}]
BY DEF ConcensusData, Empty, Present, Match

-----------------------------------------------------------------------------
(* Type correctness *)

LEMMA MatchedType ==
  ASSUME TypeOK, NEW node \in Node, NEW known \in SUBSET Node, NEW item \in Item
  PROVE  Matched(node, known, item) \in Match \cup {None}
<1>1. data[node][item] \in Value \cup {None}
  BY DEF TypeOK
<1>2. Mask(Matching(node, known, item)) \in SUBSET Node
  BY MaskType DEF Matching
<1> QED BY <1>1, <1>2 DEF Matched, Match

LEMMA HeardType ==
  ASSUME NEW node \in Node, NEW known \in Heard(node)
  PROVE  known \in SUBSET Node
BY DEF Heard

(* What reading a minute does to the candidates *)
LEMMA ReadMinuteShape ==
  ASSUME TypeOK, NEW node \in Node, ReadMinute(node)
  PROVE  \E known \in Heard(node) : \A other \in Node, item \in Item :
            candidate'[other][item] =
              IF other = node /\ MinuteOf(item) = minute[node]
              THEN Matched(node, known, item)
              ELSE candidate[other][item]
BY DEF ReadMinute, TypeOK

LEMMA TypeStep ==
  ASSUME TypeOK, [Next]_vars
  PROVE  TypeOK'
<1>1. ASSUME NEW node \in Node, ReadMinute(node) PROVE TypeOK'
  <2>1. UNCHANGED <<data, order, synced, prices>>
    BY <1>1 DEF ReadMinute, inputs
  <2>2. minute' \in [Node -> 1..Minutes + 1]
    BY <1>1, DataAssumption DEF ReadMinute, TypeOK
  <2>3. candidate' \in [Node -> [Item -> Match \cup {None}]]
    <3>1. PICK known \in Heard(node) :
              candidate' = [candidate EXCEPT ![node] =
                              [item \in Item |-> IF MinuteOf(item) = minute[node]
                                                 THEN Matched(node, known, item)
                                                 ELSE @[item]]]
      BY <1>1 DEF ReadMinute
    <3>2. \A item \in Item : Matched(node, known, item) \in Match \cup {None}
      BY HeardType, MatchedType
    <3>3. [item \in Item |-> IF MinuteOf(item) = minute[node]
                             THEN Matched(node, known, item)
                             ELSE candidate[node][item]] \in [Item -> Match \cup {None}]
      BY <3>2 DEF TypeOK
    <3> QED BY <3>1, <3>3 DEF TypeOK
  <2> QED BY <2>1, <2>2, <2>3 DEF TypeOK
<1>2. ASSUME NEW node \in Node, GetConcensusData(node) PROVE TypeOK'
  <2>1. ConcensusData(candidate[node], order[node]) \in [Item -> Value \cup {None}]
    BY ConcensusDataType DEF TypeOK
  <2> QED BY <1>2, <2>1 DEF GetConcensusData, inputs, TypeOK
<1>3. CASE UNCHANGED vars
  BY <1>3 DEF vars, inputs, TypeOK
<1> QED BY <1>1, <1>2, <1>3 DEF Next

(* The variables keep their types. *)
THEOREM TypeCorrect == Spec => []TypeOK
<1>1. Init => TypeOK
  BY DataAssumption DEF Init, TypeOK, Empty
<1> QED BY <1>1, TypeStep, PTL DEF Spec

-----------------------------------------------------------------------------
(* The inductive invariant *)

(* The data do not change, and so do the matches found in them. *)
LEMMA MatchesStay ==
  ASSUME data' = data
  PROVE  \A node, known, item : Matched(node, known, item)' = Matched(node, known, item)
BY DEF Matched, Matching

LEMMA CandidatesFrame ==
  ASSUME UNCHANGED <<data, synced, minute, candidate>>, CandidatesMatch, ReadWithAll
  PROVE  CandidatesMatch' /\ ReadWithAll'
<1>1. CandidatesMatch'
  BY MatchesStay DEF CandidatesMatch
<1>2. ReadWithAll'
  BY MatchesStay DEF ReadWithAll, MinuteOf
<1> QED BY <1>1, <1>2

LEMMA InvInit == Init => Inv
<1> SUFFICES ASSUME Init PROVE Inv
  OBVIOUS
<1>1. \A node \in Node : minute[node] = 1 /\ candidate[node] = Empty /\ prices[node] = None
  BY DEF Init
<1>2. \A item \in Item : MinuteOf(item) \in 1..Minutes /\ Empty[item] = None
  BY MinuteBounds DEF Empty
<1>3. \A m \in 1..Minutes : ~(m < 1)
  BY DataAssumption
<1> QED BY <1>1, <1>2, <1>3 DEF Inv, CandidatesMatch, ReadWithAll, PricesComputed, Done

LEMMA InvStep ==
  ASSUME TypeOK, Inv, [Next]_vars
  PROVE  Inv'
<1>1. ASSUME NEW node \in Node, ReadMinute(node) PROVE Inv'
  <2>1. PICK known \in Heard(node) : \A other \in Node, item \in Item :
            candidate'[other][item] =
              IF other = node /\ MinuteOf(item) = minute[node]
              THEN Matched(node, known, item)
              ELSE candidate[other][item]
    BY <1>1, ReadMinuteShape
  <2>2. /\ UNCHANGED <<data, order, synced, prices>>
        /\ minute[node] <= Minutes
        /\ \A other \in Node : minute'[other] = IF other = node THEN minute[node] + 1
                                                ELSE minute[other]
    BY <1>1 DEF ReadMinute, inputs, TypeOK
  <2>3. known \in SUBSET Node /\ (synced => known = Node)
    BY HeardType DEF Heard
  <2>4. \A other, item, S : Matched(other, S, item)' = Matched(other, S, item)
    BY <2>2, MatchesStay
  <2>5. CandidatesMatch'
    BY <2>1, <2>3, <2>4 DEF Inv, CandidatesMatch
  <2>6. ReadWithAll'
    <3>1. \A other \in Node, item \in Item :
              minute[other] \in Int /\ MinuteOf(item) \in Int
      BY MinuteBounds, DataAssumption DEF TypeOK
    <3> SUFFICES ASSUME NEW other \in Node, NEW item \in Item, synced,
                        MinuteOf(item) < minute'[other]
                 PROVE  candidate'[other][item] = Matched(other, Node, item)
      BY <2>2, <2>4 DEF ReadWithAll, MinuteOf
    <3>2. CASE other = node /\ MinuteOf(item) = minute[node]
      BY <2>1, <2>3, <3>2
    <3>3. CASE ~(other = node /\ MinuteOf(item) = minute[node])
      <4>1. MinuteOf(item) < minute[other]
        BY <2>2, <3>1, <3>3
      <4> QED BY <2>1, <3>3, <4>1 DEF Inv, ReadWithAll
    <3> QED BY <3>2, <3>3
  <2>7. PricesComputed'
    <3>1. Done' = Done /\ node \notin Done
      BY <2>2, DataAssumption DEF Inv, PricesComputed, Done
    <3>2. \A other \in Done : /\ minute'[other] = minute[other]
                             /\ candidate'[other] = candidate[other]
      BY <1>1, <3>1 DEF ReadMinute, TypeOK, Done
    <3>3. \A other \in Done : prices'[other] = ConcensusData(candidate'[other], order'[other])
      BY <2>2, <3>2 DEF Inv, PricesComputed
    <3>4. \A other \in Done : minute'[other] = Minutes + 1
      BY <3>2 DEF Inv, PricesComputed
    <3> QED BY <3>1, <3>3, <3>4 DEF PricesComputed
  <2> QED BY <2>5, <2>6, <2>7 DEF Inv
<1>2. ASSUME NEW node \in Node, GetConcensusData(node) PROVE Inv'
  <2>1. /\ UNCHANGED <<data, order, synced, minute, candidate>>
        /\ minute[node] = Minutes + 1
        /\ \A other \in Node : prices'[other] =
             IF other = node THEN ConcensusData(candidate[node], order[node])
             ELSE prices[other]
    BY <1>2 DEF GetConcensusData, inputs, TypeOK
  <2>2. CandidatesMatch' /\ ReadWithAll'
    BY <2>1, CandidatesFrame DEF Inv
  <2>3. PricesComputed'
    <3>1. \A other \in Done' :
              /\ minute'[other] = Minutes + 1
              /\ prices'[other] = ConcensusData(candidate'[other], order'[other])
      BY <2>1 DEF Inv, PricesComputed, Done
    <3> QED BY <3>1 DEF PricesComputed
  <2> QED BY <2>2, <2>3 DEF Inv
<1>3. CASE UNCHANGED vars
  <2>1. UNCHANGED <<data, order, synced, minute, candidate, prices>>
    BY <1>3 DEF vars, inputs
  <2>2. CandidatesMatch' /\ ReadWithAll'
    BY <2>1, CandidatesFrame DEF Inv
  <2>3. PricesComputed'
    BY <2>1 DEF Inv, PricesComputed, Done
  <2> QED BY <2>2, <2>3 DEF Inv
<1> QED BY <1>1, <1>2, <1>3 DEF Next

THEOREM InvCorrect == Spec => [](TypeOK /\ Inv)
<1>1. TypeOK /\ Inv /\ [Next]_vars => Inv'
  BY InvStep
<1> QED BY <1>1, InvInit, TypeCorrect, PTL DEF Spec

-----------------------------------------------------------------------------
(* What a candidate and the best mask say about the data *)

(* A candidate names its group: a majority with the node's datum. *)
LEMMA MatchedShape ==
  ASSUME N <= Width, TypeOK, NEW node \in Node, NEW known \in SUBSET Node,
         NEW item \in Item, Matched(node, known, item) # None
  PROVE  LET match == Matched(node, known, item) IN
         /\ match.value = data[node][item] /\ data[node][item] \in Value
         /\ match.nodes = Matching(node, known, item)
         /\ match.nodes \in SUBSET Node
         /\ Cardinality(match.nodes) >= Majority
<1>1. Matching(node, known, item) \in SUBSET Node
  BY DEF Matching
<1>2. Mask(Matching(node, known, item)) = Matching(node, known, item)
  BY <1>1, MaskIsFaithful
<1>3. data[node][item] \in Value \cup {None}
  BY DEF TypeOK
<1> QED BY <1>1, <1>2, <1>3 DEF Matched

(* What a node keeps, all the nodes of a majority loaded. *)
LEMMA KeptIsShared ==
  ASSUME N <= Width, TypeOK, CandidatesMatch, NEW node \in Node,
         NEW position \in Orders
  PROVE  \E group \in SUBSET Node :
           /\ Cardinality(group) >= Majority
           /\ \A item \in Item, other \in group :
                LET kept == ConcensusData(candidate[node], position)[item] IN
                kept # None => data[other][item] = kept
<1> DEFINE list == candidate[node]
<1>1. CASE Counted(list) = {}
  <2>1. \A item \in Item : ConcensusData(list, position)[item] = None
    BY <1>1 DEF ConcensusData, Empty
  <2>2. Cardinality(Node) >= Majority
    BY MajorityFacts
  <2> QED BY <2>1, <2>2
<1>2. CASE Counted(list) # {}
  <2>1. \A item \in Item : list[item] # None =>
          /\ list[item].value = data[node][item]
          /\ \A other \in list[item].nodes : data[other][item] = data[node][item]
          /\ list[item].nodes \in SUBSET Node
          /\ Cardinality(list[item].nodes) >= Majority
    <3> SUFFICES ASSUME NEW item \in Item, list[item] # None
                 PROVE  /\ list[item].value = data[node][item]
                        /\ \A other \in list[item].nodes : data[other][item] = data[node][item]
                        /\ list[item].nodes \in SUBSET Node
                        /\ Cardinality(list[item].nodes) >= Majority
      OBVIOUS
    <3>1. PICK known \in SUBSET Node : list[item] = Matched(node, known, item)
      BY DEF CandidatesMatch
    <3>2. /\ list[item].value = data[node][item]
          /\ list[item].nodes = Matching(node, known, item)
          /\ list[item].nodes \in SUBSET Node
          /\ Cardinality(list[item].nodes) >= Majority
      BY <3>1, MatchedShape
    <3> QED BY <3>2 DEF Matching
  <2>2. BestItem(list, position) \in Item /\ list[BestItem(list, position)] # None
    BY <1>2, BestExists DEF Counted, Present
  <2>3. /\ BestMask(list, position) \in SUBSET Node
        /\ Cardinality(BestMask(list, position)) >= Majority
    BY <2>1, <2>2 DEF BestMask
  <2>4. \A item \in Item : ConcensusData(list, position)[item] # None =>
          /\ list[item] # None
          /\ ConcensusData(list, position)[item] = list[item].value
          /\ BestMask(list, position) \subseteq list[item].nodes
    BY <1>2 DEF ConcensusData, Present
  <2> HIDE DEF list
  <2>5. \A item \in Item, other \in BestMask(list, position) :
          ConcensusData(list, position)[item] # None =>
            data[other][item] = ConcensusData(list, position)[item]
    BY <2>1, <2>4
  <2> QED BY <2>3, <2>5 DEF list
<1> QED BY <1>1, <1>2

(* What a node builds its prices from is shared by a majority, whatever of  *)
(* the others' data had arrived: the mask of getConcensusData names nodes   *)
(* that loaded the same, as long as the nodes fit into its 32 bits.         *)
THEOREM PricesSharedCorrect ==
  ASSUME N <= Width
  PROVE  Spec => []PricesShared
<1>1. TypeOK /\ Inv => PricesShared
  <2> SUFFICES ASSUME TypeOK, Inv, NEW node \in Done
               PROVE  \E group \in SUBSET Node :
                        /\ Cardinality(group) >= Majority
                        /\ \A item \in Item, other \in group :
                             prices[node][item] # None
                               => data[other][item] = prices[node][item]
    BY DEF PricesShared
  <2>1. node \in Node /\ order[node] \in Orders
        /\ prices[node] = ConcensusData(candidate[node], order[node])
    BY DEF Inv, PricesComputed, Done, TypeOK
  <2> QED BY <2>1, KeptIsShared DEF Inv
<1> QED BY <1>1, InvCorrect, PTL

-----------------------------------------------------------------------------
(* Agreement *)

(* A node's list is what the cluster's list has of it. *)
IsPartOf(list, all, node) ==
  \A item \in Item :
    /\ list[item] # None => /\ all[item] # None
                            /\ list[item] = all[item] /\ node \in all[item].nodes
    /\ all[item] # None /\ node \in all[item].nodes => list[item] = all[item]

(* A node of the best mask of all the data finds the same best mask. *)
LEMMA SameBest ==
  ASSUME SameOrder, NEW all, NEW list, NEW node, NEW position \in Orders,
         Counted(all) # {}, IsPartOf(list, all, node),
         node \in BestMask(all, position)
  PROVE  /\ Counted(list) # {}
         /\ BestMask(list, position) = BestMask(all, position)
<1>1. PICK best : best = BestItem(all, position)
  OBVIOUS
<1>2. /\ best \in Counted(all)
      /\ \A item \in Counted(all) : Better(all, position, best, item)
  BY <1>1, BestExists
<1>3. best \in Counted(list) /\ list[best] = all[best]
  BY <1>1, <1>2 DEF BestMask, IsPartOf, Counted, Present
<1>4. PICK own : own = BestItem(list, position)
  OBVIOUS
<1>5. /\ own \in Counted(list)
      /\ \A item \in Counted(list) : Better(list, position, own, item)
  BY <1>3, <1>4, BestExists
<1>6. \A item \in Counted(list) : /\ item \in Counted(all)
                                  /\ list[item] = all[item]
                                  /\ node \in all[item].nodes
  BY DEF IsPartOf, Counted, Present
<1>7. ASSUME NEW mask, node \in mask
      PROVE  Occurrences(list, mask) = Occurrences(all, mask)
  <2>1. {item \in Counted(list) : list[item].nodes = mask}
          = {item \in Counted(all) : all[item].nodes = mask}
    BY <1>7 DEF IsPartOf, Counted, Present
  <2> QED BY <2>1 DEF Occurrences
<1>8. position = [item \in Item |-> item]
  BY DEF Orders
<1>9. best \in Int /\ own \in Int /\ position[best] = best /\ position[own] = own
  BY <1>2, <1>5, <1>8, DataAssumption DEF Counted, Present, Item
<1>10. Better(all, position, best, own) /\ Better(list, position, own, best)
  BY <1>2, <1>3, <1>5, <1>6
<1>11. /\ Occurrences(list, list[own].nodes) = Occurrences(all, all[own].nodes)
       /\ Occurrences(list, list[best].nodes) = Occurrences(all, all[best].nodes)
  BY <1>3, <1>5, <1>6, <1>7
<1>12. best = own
  BY <1>9, <1>10, <1>11, OccurrencesBounded DEF Better
<1> QED BY <1>1, <1>3, <1>4, <1>12 DEF BestMask

LEMMA SameData ==
  ASSUME SameOrder, NEW all, NEW list, NEW node, NEW position \in Orders,
         Counted(all) # {}, IsPartOf(list, all, node),
         node \in BestMask(all, position)
  PROVE  ConcensusData(list, position) = ConcensusData(all, position)
<1>1. Counted(list) # {} /\ BestMask(list, position) = BestMask(all, position)
  BY SameBest
<1>2. \A item \in Item :
        (item \in Present(list) /\ BestMask(list, position) \subseteq list[item].nodes)
          <=> (item \in Present(all) /\ BestMask(all, position) \subseteq all[item].nodes)
  BY <1>1 DEF IsPartOf, Present
<1>3. \A item \in Item : item \in Present(list) => list[item].value = all[item].value
  BY DEF IsPartOf, Present
<1> QED BY <1>1, <1>2, <1>3 DEF ConcensusData

(* What the cluster has of an item: any node's match of it *)
AllMatches ==
  [item \in Item |->
     IF \E node \in Node : candidate[node][item] # None
     THEN candidate[CHOOSE node \in Node : candidate[node][item] # None][item]
     ELSE None]

(* With all the data, nobody's match contradicts another's. *)
LEMMA MatchesAgree ==
  ASSUME N <= Width, TypeOK, NEW item \in Item, NEW node \in Node, NEW other \in Node,
         Matched(node, Node, item) # None
  PROVE  \/ Matched(other, Node, item) = Matched(node, Node, item)
            /\ other \in Matched(node, Node, item).nodes
         \/ Matched(other, Node, item) = None
            /\ other \notin Matched(node, Node, item).nodes
<1>1. PICK M : M = Matching(node, Node, item)
  OBVIOUS
<1>2. /\ M \in SUBSET Node /\ Cardinality(M) >= Majority
      /\ Matched(node, Node, item).nodes = M
      /\ data[node][item] # None
  BY <1>1, MatchedShape, DataAssumption DEF Matched
<1>3. CASE data[other][item] = data[node][item]
  <2>1. Matching(other, Node, item) = M /\ other \in M
    BY <1>1, <1>3 DEF Matching
  <2> QED BY <1>1, <1>2, <1>3, <2>1 DEF Matched
<1>4. CASE data[other][item] # data[node][item]
  <2>1. other \notin M
    BY <1>1, <1>4 DEF Matching
  <2>2. ASSUME Matched(other, Node, item) # None PROVE FALSE
    <3>1. PICK K : K = Matching(other, Node, item)
      OBVIOUS
    <3>2. K \in SUBSET Node /\ Cardinality(K) >= Majority
      BY <2>2, <3>1, MatchedShape
    <3>3. PICK x \in Node : x \in M /\ x \in K
      BY <1>2, <3>2, MajoritiesMeet
    <3> QED BY <1>1, <1>4, <3>1, <3>3 DEF Matching
  <2> QED BY <1>2, <2>1, <2>2
<1> QED BY <1>3, <1>4

LEMMA CandidatesArePart ==
  ASSUME N <= Width, TypeOK,
         \A node \in Node, item \in Item :
            candidate[node][item] = Matched(node, Node, item),
         NEW node \in Node
  PROVE  IsPartOf(candidate[node], AllMatches, node)
<1> SUFFICES ASSUME NEW item \in Item
             PROVE  /\ candidate[node][item] # None =>
                         /\ AllMatches[item] # None
                         /\ candidate[node][item] = AllMatches[item]
                         /\ node \in AllMatches[item].nodes
                    /\ AllMatches[item] # None /\ node \in AllMatches[item].nodes
                         => candidate[node][item] = AllMatches[item]
  BY DEF IsPartOf
<1>1. CASE \A other \in Node : candidate[other][item] = None
  BY <1>1 DEF AllMatches
<1>2. CASE \E other \in Node : candidate[other][item] # None
  <2>1. PICK other \in Node : /\ candidate[other][item] # None
                              /\ AllMatches[item] = candidate[other][item]
    BY <1>2 DEF AllMatches
  <2>2. candidate[other][item] = Matched(other, Node, item)
        /\ candidate[node][item] = Matched(node, Node, item)
    OBVIOUS
  <2> QED BY <2>1, <2>2, MatchesAgree
<1> QED BY <1>1, <1>2

(* Without any further exchange a majority comes to the same prices, when   *)
(* the data arrived and the nodes list them in the same order: a datum has  *)
(* the same mask at all the nodes that keep it, so the group of the best    *)
(* mask of all is the best one to each of its members.                     *)
THEOREM MajorityAgreesCorrect ==
  ASSUME N <= Width, SameOrder
  PROVE  Spec => []MajorityAgrees
<1>1. TypeOK /\ Inv => MajorityAgrees
  <2> SUFFICES ASSUME TypeOK, Inv, synced, Done = Node,
                      NEW chosen \in Node, Chosen(chosen)
               PROVE  \E group \in SUBSET Node :
                        /\ Cardinality(group) >= Majority
                        /\ \A node, other \in group :
                             prices[node] = prices[other] /\ Chosen(node)
    BY DEF MajorityAgrees
  <2>1. \A node \in Node : /\ minute[node] = Minutes + 1
                           /\ prices[node] = ConcensusData(candidate[node], order[node])
    BY DEF Inv, PricesComputed
  <2>2. \A node \in Node, item \in Item :
            candidate[node][item] = Matched(node, Node, item)
    <3>1. \A item \in Item : MinuteOf(item) < Minutes + 1
      BY MinuteBounds, DataAssumption
    <3> QED BY <2>1, <3>1 DEF Inv, ReadWithAll
  <2>3. PICK position \in Orders : \A node \in Node : order[node] = position
    BY DEF TypeOK, Orders
  <2>4. \A node \in Node : IsPartOf(candidate[node], AllMatches, node)
    BY <2>2, CandidatesArePart
  <2>5. Counted(AllMatches) # {}
    <3>1. Counted(candidate[chosen]) # {}
      BY <2>1 DEF Chosen, ConcensusData
    <3> QED BY <2>4, <3>1 DEF IsPartOf, Counted, Present
  <2>6. PICK best \in Counted(AllMatches) : BestMask(AllMatches, position) = AllMatches[best].nodes
    BY <2>5, BestExists DEF BestMask
  <2>7. PICK owner \in Node : /\ AllMatches[best] = Matched(owner, Node, best)
                              /\ Matched(owner, Node, best) # None
    BY <2>2, <2>6 DEF AllMatches, Counted, Present
  <2>8. /\ best \in Item
        /\ AllMatches[best].nodes \in SUBSET Node
        /\ Cardinality(AllMatches[best].nodes) >= Majority
        /\ AllMatches[best].value \in Nat
    <3>1. best \in Item /\ Node \in SUBSET Node
      BY <2>6 DEF Counted, Present
    <3>2. PICK match : match = Matched(owner, Node, best)
      OBVIOUS
    <3>3. /\ match.nodes \in SUBSET Node /\ Cardinality(match.nodes) >= Majority
          /\ match.value \in Value
      BY <2>7, <3>1, <3>2, MatchedShape
    <3> QED BY <2>7, <3>1, <3>2, <3>3, DataAssumption
  <2>9. \A node \in AllMatches[best].nodes :
            prices[node] = ConcensusData(AllMatches, position)
    BY <2>1, <2>3, <2>4, <2>5, <2>6, <2>8, SameData
  <2>10. ConcensusData(AllMatches, position)[best] = AllMatches[best].value
    BY <2>5, <2>6, <2>8 DEF ConcensusData, Counted
  <2>11. ConcensusData(AllMatches, position) # Empty
    BY <2>8, <2>10, DataAssumption DEF Empty
  <2> QED BY <2>8, <2>9, <2>11 DEF Chosen
<1> QED BY <1>1, InvCorrect, PTL

-----------------------------------------------------------------------------
(* Sums and powers *)

(* A value that each step of 1..L makes of the one before: the function that
   the recursive definitions of AssetPrice choose exists. *)
IsSteps(f, n, start, step) ==
  /\ f \in [0..n -> Nat]
  /\ f[0] = start
  /\ \A m \in 1..n : f[m] = step[<<m, f[m - 1]>>]

LEMMA OneMoreStep ==
  ASSUME NEW L \in Nat, NEW start \in Nat, NEW step \in [(1..L) \X Nat -> Nat],
         NEW n \in 1..L, NEW g, IsSteps(g, n - 1, start, step)
  PROVE  \E f : IsSteps(f, n, start, step)
<1> DEFINE next == step[<<n, g[n - 1]>>]
           f == [m \in 0..n |-> IF m = n THEN next ELSE g[m]]
<1>1. g \in [0..n - 1 -> Nat] /\ n - 1 \in 0..n - 1
  BY DEF IsSteps
<1>2. next \in Nat
  BY <1>1
<1> HIDE DEF next
<1>3. f \in [0..n -> Nat]
  <2>1. \A m \in 0..n : m = n \/ m \in 0..n - 1
    OBVIOUS
  <2> QED BY <1>1, <1>2, <2>1
<1>4. f[0] = start
  BY DEF IsSteps
<1>5. ASSUME NEW m \in 1..n PROVE f[m] = step[<<m, f[m - 1]>>]
  <2>1. m - 1 \in 0..n - 1 /\ m - 1 # n /\ f[m - 1] = g[m - 1]
    OBVIOUS
  <2>2. CASE m = n
    <3>1. f[m] = next
      BY <2>2
    <3>2. next = step[<<m, g[m - 1]>>]
      BY <2>2 DEF next
    <3> QED BY <2>1, <3>1, <3>2
  <2>3. CASE m # n
    <3>1. m \in 1..n - 1 /\ f[m] = g[m]
      BY <2>3
    <3> QED BY <2>1, <3>1 DEF IsSteps
  <2> QED BY <2>2, <2>3
<1> QED BY <1>3, <1>4, <1>5 DEF IsSteps

LEMMA StepsExist ==
  ASSUME NEW L \in Nat, NEW start \in Nat, NEW step \in [(1..L) \X Nat -> Nat]
  PROVE  \E f : IsSteps(f, L, start, step)
<1> DEFINE Bad == {n \in 0..L : ~ \E f : IsSteps(f, n, start, step)}
<1>1. Bad \in SUBSET Nat /\ Bad \subseteq 0..L
  OBVIOUS
<1>2. ASSUME Bad # {} PROVE FALSE
  <2>1. PICK n \in Bad : \A other \in Bad : n <= other
    <3> HIDE DEF Bad
    <3> QED BY <1>1, <1>2, LeastNatural
  <2>2. CASE n = 0
    <3>1. IsSteps([m \in 0..n |-> start], n, start, step)
      BY <2>2 DEF IsSteps
    <3> QED BY <3>1
  <2>3. CASE n # 0
    <3>1. n \in 1..L /\ n - 1 \in 0..L /\ n - 1 \notin Bad
      <4> HIDE DEF Bad
      <4> QED BY <1>1, <2>1, <2>3
    <3>2. \E g : IsSteps(g, n - 1, start, step)
      BY <3>1
    <3>3. \E f : IsSteps(f, n, start, step)
      BY <3>1, <3>2, OneMoreStep
    <3> QED BY <3>3
  <2> QED BY <2>2, <2>3
<1>3. L \in 0..L
  OBVIOUS
<1> QED BY <1>2, <1>3

(* A power of ten is positive. *)
LEMMA PowerOfTenType ==
  ASSUME NEW k \in Nat
  PROVE  PowerOfTen(k) \in Nat \ {0}
<1> DEFINE Power(f) == [n \in 0..k |-> IF n = 0 THEN 1 ELSE 10 * f[n - 1]]
           power == CHOOSE f : f = Power(f)
           step == [p \in (1..k) \X Nat |-> 10 * p[2]]
<1>1. PICK f : IsSteps(f, k, 1, step)
  <2>1. step \in [(1..k) \X Nat -> Nat]
    OBVIOUS
  <2> HIDE DEF step
  <2> QED BY <2>1, StepsExist
<1>2. f = Power(f)
  <2>1. f \in [0..k -> Nat] /\ f[0] = 1
    BY <1>1 DEF IsSteps
  <2>2. ASSUME NEW m \in 1..k PROVE f[m] = 10 * f[m - 1]
    <3>1. f[m - 1] \in Nat /\ f[m] = step[<<m, f[m - 1]>>]
      <4> HIDE DEF step
      <4> QED BY <1>1, <2>1 DEF IsSteps
    <3>2. <<m, f[m - 1]>> \in (1..k) \X Nat
      BY <3>1
    <3> QED BY <3>1, <3>2
  <2>3. \A m \in 0..k : f[m] = IF m = 0 THEN 1 ELSE 10 * f[m - 1]
    BY <2>1, <2>2
  <2> QED BY <2>1, <2>3
<1>3. power = Power(power)
  BY <1>2, Zenon
<1>4. PowerOfTen(k) = power[k]
  BY Zenon DEF PowerOfTen
<1> HIDE DEF power
<1>5. power[0] = 1 /\ \A m \in 1..k : power[m] = 10 * power[m - 1]
  <2>1. \A m \in 0..k : power[m] = IF m = 0 THEN 1 ELSE 10 * power[m - 1]
    BY <1>3
  <2> QED BY <2>1
<1> DEFINE Bad == {n \in 0..k : power[n] \notin Nat \ {0}}
<1>6. Bad = {}
  <2> SUFFICES ASSUME Bad # {} PROVE FALSE
    OBVIOUS
  <2>1. PICK n \in Bad : \A other \in Bad : n <= other
    <3>1. Bad \in SUBSET Nat
      OBVIOUS
    <3> HIDE DEF Bad
    <3> QED BY <3>1, LeastNatural
  <2>2. n \in 1..k /\ n - 1 \in 0..k /\ n - 1 \notin Bad
    BY <1>5, <2>1
  <2>3. power[n] = 10 * power[n - 1] /\ power[n - 1] \in Nat \ {0}
    BY <1>5, <2>2
  <2> QED BY <2>1, <2>3
<1> QED BY <1>4, <1>6

(* The sums w of the first terms of d *)
IsSum(w, d, L) ==
  /\ w \in [0..L -> Nat]
  /\ w[0] = 0
  /\ \A m \in 1..L : w[m] = w[m - 1] + d[m]

LEMMA SumExists ==
  ASSUME NEW L \in Nat, NEW d \in [1..L -> Nat]
  PROVE  \E w : IsSum(w, d, L)
<1> DEFINE step == [p \in (1..L) \X Nat |-> p[2] + d[p[1]]]
<1>1. step \in [(1..L) \X Nat -> Nat]
  OBVIOUS
<1>2. PICK w : IsSteps(w, L, 0, step)
  <2> HIDE DEF step
  <2> QED BY <1>1, StepsExist
<1>3. w \in [0..L -> Nat] /\ w[0] = 0
  BY <1>2 DEF IsSteps
<1>4. ASSUME NEW m \in 1..L PROVE w[m] = w[m - 1] + d[m]
  <2>1. w[m - 1] \in Nat /\ w[m] = step[<<m, w[m - 1]>>]
    <3> HIDE DEF step
    <3> QED BY <1>2, <1>3 DEF IsSteps
  <2>2. <<m, w[m - 1]>> \in (1..L) \X Nat
    BY <2>1
  <2> QED BY <2>1, <2>2
<1> QED BY <1>3, <1>4 DEF IsSum

(* What is summed up, by minute *)
Amounts(tradesData, source, field) ==
  [m \in 1..Len(tradesData) |->
     IF m \in Known(tradesData, source) THEN tradesData[m][source][field] ELSE 0]

(* A total is the last of the sums of the minutes so far. *)
LEMMA TotalIsSum ==
  ASSUME NEW tradesData, NEW source, NEW field, NEW L \in Nat, L = Len(tradesData),
         NEW d \in [1..L -> Nat], d = Amounts(tradesData, source, field)
  PROVE  \E sum : IsSum(sum, d, L) /\ Total(tradesData, source, field) = sum[L]
<1> DEFINE Sum(f) == [m \in 0..Len(tradesData) |->
                        IF m = 0 THEN 0
                        ELSE IF m \in Known(tradesData, source)
                        THEN f[m - 1] + tradesData[m][source][field]
                        ELSE f[m - 1]]
           sum == CHOOSE f : f = Sum(f)
<1>0. \A m \in 1..L : d[m] = IF m \in Known(tradesData, source)
                             THEN tradesData[m][source][field] ELSE 0
  BY DEF Amounts
<1>1. PICK f : IsSum(f, d, L)
  BY SumExists
<1>2. f = Sum(f)
  <2>1. f \in [0..L -> Nat]
    BY <1>1 DEF IsSum
  <2>2. \A m \in 1..L : f[m - 1] \in Nat
    BY <2>1
  <2>3. \A m \in 0..L : f[m] = Sum(f)[m]
    BY <1>0, <1>1, <2>1, <2>2 DEF IsSum
  <2> QED BY <2>1, <2>3
<1>3. sum = Sum(sum)
  BY <1>2, Zenon
<1>4. Total(tradesData, source, field) = sum[L]
  BY Zenon DEF Total
<1> HIDE DEF sum
<1>5. sum = [m \in 0..L |-> sum[m]]
  BY <1>3
<1>6. sum[0] = 0
  BY <1>3
<1>7. \A m \in 1..L : sum[m - 1] \in Nat => sum[m] = sum[m - 1] + d[m]
  <2>1. \A m \in 1..L : sum[m] = IF m \in Known(tradesData, source)
                                 THEN sum[m - 1] + tradesData[m][source][field]
                                 ELSE sum[m - 1]
    BY <1>3
  <2> QED BY <1>0, <2>1
<1> DEFINE Bad == {n \in 0..L : sum[n] \notin Nat}
<1>8. Bad = {}
  <2> SUFFICES ASSUME Bad # {} PROVE FALSE
    OBVIOUS
  <2>1. PICK n \in Bad : \A other \in Bad : n <= other
    <3>1. Bad \in SUBSET Nat
      OBVIOUS
    <3> HIDE DEF Bad
    <3> QED BY <3>1, LeastNatural
  <2>2. n \in 1..L /\ n - 1 \in 0..L /\ n - 1 \notin Bad
    BY <1>6, <2>1
  <2>3. sum[n - 1] \in Nat /\ d[n] \in Nat
    BY <2>2
  <2>4. sum[n] \in Nat
    BY <1>7, <2>2, <2>3
  <2> QED BY <2>1, <2>4
<1>9. \A m \in 1..L : sum[m] = sum[m - 1] + d[m]
  <2>1. \A m \in 1..L : sum[m - 1] \in Nat
    BY <1>8
  <2> QED BY <1>7, <2>1
<1>10. sum \in [0..L -> Nat]
  BY <1>5, <1>8
<1> HIDE DEF Bad
<1> QED BY <1>4, <1>6, <1>9, <1>10 DEF IsSum

-----------------------------------------------------------------------------
(* Division *)

LEMMA ProductOrder ==
  ASSUME NEW x \in Int, NEW y \in Int, NEW d \in Nat, x <= y
  PROVE  d * x <= d * y
<1>1. d * (y - x) >= 0
  OBVIOUS
<1>2. d * (y - x) = d * y - d * x
  OBVIOUS
<1> QED BY <1>1, <1>2

LEMMA DivisionFacts ==
  ASSUME NEW d \in Nat \ {0}, NEW x \in Nat
  PROVE  /\ x \div d \in Nat
         /\ d * (x \div d) <= x
         /\ x < d * (x \div d + 1)
OBVIOUS

LEMMA DivisionAtLeast ==
  ASSUME NEW d \in Nat \ {0}, NEW x \in Nat, NEW q \in Nat, d * q <= x
  PROVE  q <= x \div d
<1> PICK p \in Nat : p = x \div d /\ x < d * (p + 1)
  BY DivisionFacts
<1>1. SUFFICES ASSUME p + 1 <= q PROVE FALSE
  OBVIOUS
<1>2. d * (p + 1) <= d * q
  BY <1>1, ProductOrder
<1> QED BY <1>2

LEMMA DivisionBelow ==
  ASSUME NEW d \in Nat \ {0}, NEW x \in Nat, NEW q \in Nat, x < d * q
  PROVE  x \div d < q
<1> PICK p \in Nat : p = x \div d /\ d * p <= x
  BY DivisionFacts
<1>1. SUFFICES ASSUME q <= p PROVE FALSE
  OBVIOUS
<1>2. d * q <= d * p
  BY <1>1, ProductOrder
<1> QED BY <1>2

-----------------------------------------------------------------------------
(* A sum is between the bounds of its terms *)

(* x is at least a and below b times w, where c is the unit of x; or there is
   nothing of either *)
IsWithin(x, w, a, b, c) ==
  (x = 0 /\ w = 0) \/ (a * w <= c * x /\ c * x < b * w)

LEMMA WithinSum ==
  ASSUME NEW a \in Nat, NEW b \in Nat, NEW c \in Nat,
         NEW x \in Nat, NEW w \in Nat, NEW y \in Nat, NEW v \in Nat,
         IsWithin(x, w, a, b, c), IsWithin(y, v, a, b, c)
  PROVE  IsWithin(x + y, w + v, a, b, c)
<1>1. /\ a * (w + v) = a * w + a * v
      /\ b * (w + v) = b * w + b * v
      /\ c * (x + y) = c * x + c * y
  OBVIOUS
<1>2. /\ a * w \in Int /\ a * v \in Int /\ b * w \in Int
      /\ b * v \in Int /\ c * x \in Int /\ c * y \in Int
  OBVIOUS
<1>3. CASE x = 0 /\ w = 0
  <2>1. x + y = y /\ w + v = v
    BY <1>3
  <2> QED BY <2>1
<1>4. CASE y = 0 /\ v = 0
  <2>1. x + y = x /\ w + v = w
    BY <1>4
  <2> QED BY <2>1
<1>5. CASE /\ a * w <= c * x /\ c * x < b * w
           /\ a * v <= c * y /\ c * y < b * v
  BY <1>1, <1>2, <1>5 DEF IsWithin
<1> QED BY <1>3, <1>4, <1>5 DEF IsWithin

LEMMA WithinTotal ==
  ASSUME NEW L \in Nat, NEW a \in Nat, NEW b \in Nat, NEW c \in Nat,
         NEW dx \in [1..L -> Nat], NEW dw \in [1..L -> Nat],
         NEW x, IsSum(x, dx, L), NEW w, IsSum(w, dw, L),
         \A m \in 1..L : IsWithin(dx[m], dw[m], a, b, c)
  PROVE  IsWithin(x[L], w[L], a, b, c)
<1> DEFINE Bad == {n \in 0..L : ~ IsWithin(x[n], w[n], a, b, c)}
<1>1. Bad \in SUBSET Nat
  OBVIOUS
<1>2. ASSUME Bad # {} PROVE FALSE
  <2>1. PICK n \in Bad : \A other \in Bad : n <= other
    <3> HIDE DEF Bad
    <3> QED BY <1>1, <1>2, LeastNatural
  <2>2. n # 0
    <3>1. IsWithin(x[0], w[0], a, b, c)
      BY DEF IsWithin, IsSum
    <3> QED BY <2>1, <3>1
  <2>3. n \in 1..L /\ n - 1 \in 0..L /\ n - 1 \notin Bad
    BY <2>1, <2>2
  <2>4. IsWithin(x[n - 1], w[n - 1], a, b, c)
    BY <2>3
  <2>5. /\ x[n - 1] \in Nat /\ w[n - 1] \in Nat /\ dx[n] \in Nat /\ dw[n] \in Nat
        /\ x[n] = x[n - 1] + dx[n] /\ w[n] = w[n - 1] + dw[n]
    BY <2>3 DEF IsSum
  <2>6. IsWithin(x[n - 1] + dx[n], w[n - 1] + dw[n], a, b, c)
    BY <2>3, <2>4, <2>5, WithinSum
  <2>7. IsWithin(x[n], w[n], a, b, c)
    BY <2>5, <2>6
  <2> QED BY <2>1, <2>7
<1>3. L \in 0..L
  OBVIOUS
<1> QED BY <1>2, <1>3

(* The minutes with a price are counted one by one. *)
LEMMA CountIsSum ==
  ASSUME NEW L \in Nat, NEW S \in SUBSET (1..L),
         NEW w, IsSum(w, [m \in 1..L |-> IF m \in S THEN 1 ELSE 0], L)
  PROVE  w[L] = Cardinality(S)
<1> DEFINE Bad == {n \in 0..L : w[n] # Cardinality(S \cap (1..n))}
<1>1. Bad \in SUBSET Nat
  OBVIOUS
<1>2. ASSUME Bad # {} PROVE FALSE
  <2>1. PICK n \in Bad : \A other \in Bad : n <= other
    <3> HIDE DEF Bad
    <3> QED BY <1>1, <1>2, LeastNatural
  <2>2. n # 0
    <3>1. S \cap (1..0) = {}
      OBVIOUS
    <3>2. Cardinality(S \cap (1..0)) = 0
      BY <3>1, FS_EmptySet
    <3> QED BY <2>1, <3>2 DEF IsSum
  <2>3. n \in 1..L /\ n - 1 \in 0..L /\ n - 1 \notin Bad
    BY <2>1, <2>2
  <2> DEFINE T == S \cap (1..n - 1)
  <2>4. w[n - 1] = Cardinality(T)
    BY <2>3
  <2>5. IsFiniteSet(T) /\ n \notin T
    <3>1. IsFiniteSet(1..n - 1)
      BY <2>3, FS_Interval
    <3>2. T \in SUBSET (1..n - 1)
      OBVIOUS
    <3> QED BY <2>3, <3>1, <3>2, FS_Subset
  <2>6. S \cap (1..n) = IF n \in S THEN T \cup {n} ELSE T
    BY <2>3
  <2>7. Cardinality(T \cup {n}) = Cardinality(T) + 1 /\ Cardinality(T) \in Nat
    BY <2>5, FS_AddElement, FS_CardinalityType
  <2>8. Cardinality(S \cap (1..n)) = w[n]
    <3>1. /\ w[n - 1] \in Nat
          /\ n \in S => w[n] = w[n - 1] + 1
          /\ n \notin S => w[n] = w[n - 1]
      BY <2>3 DEF IsSum
    <3> HIDE DEF T
    <3>2. CASE n \in S
      BY <2>4, <2>6, <2>7, <3>1, <3>2
    <3>3. CASE n \notin S
      BY <2>4, <2>6, <2>7, <3>1, <3>3
    <3> QED BY <3>2, <3>3
  <2> QED BY <2>1, <2>8
<1>3. S \cap (1..L) = S
  OBVIOUS
<1>4. L \in 0..L
  OBVIOUS
<1>5. w[L] = Cardinality(S \cap (1..L))
  BY <1>2, <1>4
<1> QED BY <1>3, <1>5

-----------------------------------------------------------------------------
(* The least and the largest of finitely many values *)

LEMMA LargestValue ==
  ASSUME NEW S, IsFiniteSet(S), S # {}, NEW f \in [S -> Nat]
  PROVE  \E m \in S : \A s \in S : f[s] <= f[m]
<1> DEFINE Above(s) == {t \in S : f[t] > f[s]}
           Counts == {Cardinality(Above(s)) : s \in S}
<1>1. \A s \in S : IsFiniteSet(Above(s)) /\ Cardinality(Above(s)) \in Nat
  <2> TAKE s \in S
  <2>1. Above(s) \in SUBSET S
    OBVIOUS
  <2> HIDE DEF Above
  <2> QED BY <2>1, FS_Subset, FS_CardinalityType
<1>2. Counts \in SUBSET Nat /\ Counts # {}
  <2> HIDE DEF Above
  <2> QED BY <1>1
<1>3. PICK x \in Counts : \A y \in Counts : x <= y
  <2> HIDE DEF Counts
  <2> QED BY <1>2, LeastNatural
<1>4. PICK m \in S : \A s \in S : Cardinality(Above(m)) <= Cardinality(Above(s))
  <2> HIDE DEF Above
  <2> QED BY <1>3
<1>5. ASSUME NEW s \in S, f[s] > f[m] PROVE FALSE
  <2>1. Above(s) \in SUBSET Above(m) /\ s \in Above(m) /\ s \notin Above(s)
    BY <1>5
  <2>2. Above(s) # Above(m)
    BY <2>1
  <2>3. Cardinality(Above(s)) <= Cardinality(Above(m))
        /\ Cardinality(Above(s)) # Cardinality(Above(m))
    <3> HIDE DEF Above
    <3> QED BY <1>1, <2>1, <2>2, FS_Subset
  <2>4. Cardinality(Above(m)) \in Nat /\ Cardinality(Above(s)) \in Nat
    <3> HIDE DEF Above
    <3> QED BY <1>1
  <2> HIDE DEF Above
  <2> QED BY <1>4, <2>3, <2>4
<1> QED BY <1>5

Values(f, S) == {f[s] : s \in S}

LEMMA RangeBounds ==
  ASSUME NEW S, IsFiniteSet(S), S # {}, NEW f \in [S -> Nat]
  PROVE  /\ Min(Values(f, S)) \in Nat /\ Max(Values(f, S)) \in Nat
         /\ \A s \in S : f[s] \in Min(Values(f, S))..Max(Values(f, S))
<1> DEFINE range == Values(f, S)
<1>1. range \in SUBSET Nat /\ range # {}
  BY DEF Values
<1>2. \A s \in S : f[s] \in range
  BY DEF Values
<1>3. \E x \in range : \A y \in range : x >= y
  <2>1. PICK m \in S : \A s \in S : f[s] <= f[m]
    BY LargestValue
  <2>2. \A y \in range : \E s \in S : y = f[s]
    BY DEF Values
  <2>3. \A y \in range : f[m] >= y
    BY <2>1, <2>2
  <2> QED BY <1>2, <2>3
<1> HIDE DEF range
<1>4. \E x \in range : \A y \in range : x <= y
  BY <1>1, LeastNatural
<1>5. Min(range) \in range /\ \A y \in range : Min(range) <= y
  BY <1>4, Zenon DEF Min
<1>6. Max(range) \in range /\ \A y \in range : Max(range) >= y
  BY <1>3, Zenon DEF Max
<1>7. ASSUME NEW s \in S PROVE f[s] \in Min(range)..Max(range)
  BY <1>1, <1>2, <1>5, <1>6
<1>8. Min(range) \in Nat /\ Max(range) \in Nat
  BY <1>1, <1>5, <1>6
<1> QED BY <1>7, <1>8 DEF range

LEMMA LeastIsValue ==
  ASSUME NEW S, S # {}, NEW f, \A s \in S : f[s] \in Nat
  PROVE  \E s \in S : f[s] = Min(Values(f, S))
<1>1. Values(f, S) \in SUBSET Nat /\ Values(f, S) # {}
  BY DEF Values
<1>2. \E x \in Values(f, S) : \A y \in Values(f, S) : x <= y
  BY <1>1, LeastNatural
<1>3. Min(Values(f, S)) \in Values(f, S)
  BY <1>2, Zenon DEF Min
<1> QED BY <1>3 DEF Values

-----------------------------------------------------------------------------
(* The price of a source *)

LEMMA DataShape ==
  ASSUME NEW source \in Source, NEW tradesData \in TradesData(source)
  PROVE  /\ Len(tradesData) \in Nat
         /\ DOMAIN tradesData = 1..Len(tradesData)
         /\ Known(tradesData, source) \subseteq 1..Len(tradesData)
         /\ Priced(tradesData, source) \subseteq Known(tradesData, source)
         /\ IsFiniteSet(Priced(tradesData, source))
         /\ \A m \in Known(tradesData, source) :
              /\ tradesData[m][source][1] \in Nat
              /\ TypeOf[source] = "volume" =>
                   /\ tradesData[m][source] \in Trade
                   /\ tradesData[m][source][2] \in Nat
<1>1. PICK n \in 0..MaxMinutes : tradesData \in [1..n -> [{source} -> Datum(source)]]
  BY DEF TradesData
<1>2. Len(tradesData) = n /\ n \in Nat /\ DOMAIN tradesData = 1..n
  BY <1>1, SourceAssumption
<1>3. Known(tradesData, source) \subseteq 1..n
  BY <1>2 DEF Known
<1>4. ASSUME NEW m \in Known(tradesData, source)
      PROVE  /\ tradesData[m][source][1] \in Nat
             /\ TypeOf[source] = "volume" =>
                  /\ tradesData[m][source] \in Trade
                  /\ tradesData[m][source][2] \in Nat
  <2>1. tradesData[m] \in [{source} -> Datum(source)]
    BY <1>1, <1>3
  <2>2. tradesData[m][source] \in Datum(source) /\ tradesData[m][source] # None
    BY <2>1 DEF Known
  <2>3. CASE TypeOf[source] = "price"
    <3>1. PICK price \in Price : tradesData[m][source] = <<price>>
      BY <2>2, <2>3 DEF Datum
    <3> QED BY <2>3, <3>1, SourceAssumption
  <2>4. CASE TypeOf[source] # "price"
    <3>1. tradesData[m][source] \in Trade
      BY <2>2, <2>4 DEF Datum
    <3>2. tradesData[m][source] \in Nat \X Nat
      BY <3>1, SourceAssumption
    <3> QED BY <3>1, <3>2
  <2> QED BY <2>3, <2>4
<1>5. Priced(tradesData, source) \subseteq Known(tradesData, source)
  BY DEF Priced
<1>6. IsFiniteSet(Priced(tradesData, source))
  <2>1. IsFiniteSet(1..n)
    BY <1>2, FS_Interval
  <2>2. Priced(tradesData, source) \in SUBSET (1..n)
    BY <1>3, <1>5
  <2> QED BY <2>1, <2>2, FS_Subset
<1> QED BY <1>2, <1>3, <1>4, <1>5, <1>6

LEMMA NormalizeType ==
  ASSUME NEW price \in Nat
  PROVE  NormalizePrice(price) \in Nat
<1>1. CASE Decimals > ProviderDecimals
  <2>1. Decimals - ProviderDecimals \in Nat
    BY <1>1, SourceAssumption
  <2>2. PowerOfTen(Decimals - ProviderDecimals) \in Nat
    BY <2>1, PowerOfTenType
  <2> QED BY <1>1, <2>2 DEF NormalizePrice
<1>2. CASE ~(Decimals > ProviderDecimals)
  <2>1. ProviderDecimals - Decimals \in Nat
    BY <1>2, SourceAssumption
  <2>2. PowerOfTen(ProviderDecimals - Decimals) \in Nat \ {0}
    BY <2>1, PowerOfTenType
  <2> QED BY <1>2, <2>2, DivisionFacts DEF NormalizePrice
<1> QED BY <1>1, <1>2

(* A bound of normalized prices, as a bound of sums of prices: the other decimals
   multiply a price or divide it. *)
LEMMA NormalizeBounds ==
  ASSUME NEW a \in Nat, NEW b \in Nat
  PROVE  \E A \in Nat, B \in Nat, c \in Nat :
           /\ \A price \in Nat :
                NormalizePrice(price) \in a..b => A <= c * price /\ c * price < B
           /\ \A sum \in Nat, k \in Nat \ {0} :
                A * k <= c * sum /\ c * sum < B * k
                  => NormalizePrice(sum) \div k \in a..b
<1>1. CASE Decimals > ProviderDecimals
  <2>1. Decimals - ProviderDecimals \in Nat
    BY <1>1, SourceAssumption
  <2>2. PICK c \in Nat : c = PowerOfTen(Decimals - ProviderDecimals)
    BY <2>1, PowerOfTenType
  <2>3. \A price \in Nat : NormalizePrice(price) = c * price
    BY <1>1, <2>2 DEF NormalizePrice
  <2>4. ASSUME NEW sum \in Nat, NEW k \in Nat \ {0},
               a * k <= c * sum, c * sum < (b + 1) * k
        PROVE  NormalizePrice(sum) \div k \in a..b
    <3>1. PICK x \in Nat : x = c * sum
      OBVIOUS
    <3>2. k * a <= x /\ x < k * (b + 1)
      BY <2>4, <3>1
    <3>3. a <= x \div k /\ x \div k < b + 1 /\ x \div k \in Nat
      BY <3>2, DivisionAtLeast, DivisionBelow, DivisionFacts
    <3> QED BY <2>3, <3>1, <3>3
  <2>5. \A price \in Nat :
          NormalizePrice(price) \in a..b => a <= c * price /\ c * price < b + 1
    BY <2>3
  <2>6. a \in Nat /\ b + 1 \in Nat
    OBVIOUS
  <2> QED BY <2>4, <2>5, <2>6
<1>2. CASE ~(Decimals > ProviderDecimals)
  <2>1. ProviderDecimals - Decimals \in Nat
    BY <1>2, SourceAssumption
  <2>2. PICK d \in Nat \ {0} : d = PowerOfTen(ProviderDecimals - Decimals)
    BY <2>1, PowerOfTenType
  <2>3. \A price \in Nat : NormalizePrice(price) = price \div d
    BY <1>2, <2>2 DEF NormalizePrice
  <2>4. ASSUME NEW sum \in Nat, NEW k \in Nat \ {0},
               (d * a) * k <= 1 * sum, 1 * sum < (d * (b + 1)) * k
        PROVE  NormalizePrice(sum) \div k \in a..b
    <3>1. /\ (d * a) * k = d * (k * a)
          /\ (d * (b + 1)) * k = d * (k * (b + 1))
      OBVIOUS
    <3>2. k * a \in Nat /\ k * (b + 1) \in Nat
      OBVIOUS
    <3>3. PICK x \in Nat : x = sum \div d
      BY DivisionFacts
    <3>4. k * a <= x /\ x < k * (b + 1)
      <4>1. d * (k * a) <= sum /\ sum < d * (k * (b + 1))
        BY <2>4, <3>1
      <4>2. \A q \in Nat : (d * q <= sum => q <= x) /\ (sum < d * q => x < q)
        BY <3>3, DivisionAtLeast, DivisionBelow
      <4> QED BY <3>2, <4>1, <4>2
    <3>5. a <= x \div k /\ x \div k < b + 1 /\ x \div k \in Nat
      BY <3>4, DivisionAtLeast, DivisionBelow, DivisionFacts
    <3> QED BY <2>3, <3>3, <3>5
  <2>5. ASSUME NEW price \in Nat, NormalizePrice(price) \in a..b
        PROVE  d * a <= 1 * price /\ 1 * price < d * (b + 1)
    <3>1. PICK q \in Nat : q = price \div d /\ d * q <= price /\ price < d * (q + 1)
      BY DivisionFacts
    <3>2. a <= q /\ q + 1 <= b + 1
      BY <2>3, <2>5, <3>1
    <3>3. d * a <= d * q /\ d * (q + 1) <= d * (b + 1)
      BY <3>2, ProductOrder
    <3> QED BY <3>1, <3>3
  <2>6. d * a \in Nat /\ d * (b + 1) \in Nat /\ 1 \in Nat
    OBVIOUS
  <2> QED BY <2>4, <2>5, <2>6
<1> QED BY <1>1, <1>2

(* No term is larger than the total. *)
LEMMA TotalAtLeast ==
  ASSUME NEW L \in Nat, NEW d \in [1..L -> Nat], NEW w, IsSum(w, d, L), NEW k \in 1..L
  PROVE  d[k] <= w[L]
<1> DEFINE Bad == {n \in k..L : w[n] < d[k]}
<1>1. Bad \in SUBSET Nat
  OBVIOUS
<1>2. ASSUME Bad # {} PROVE FALSE
  <2>1. PICK n \in Bad : \A other \in Bad : n <= other
    <3> HIDE DEF Bad
    <3> QED BY <1>1, <1>2, LeastNatural
  <2>2. /\ n \in 1..L /\ w[n] = w[n - 1] + d[n]
        /\ w[n - 1] \in Nat /\ d[n] \in Nat /\ w[n] < d[k]
    BY <2>1 DEF IsSum
  <2>3. n # k
    BY <2>2
  <2>4. n - 1 \in k..L /\ n - 1 \notin Bad
    BY <2>1, <2>3
  <2>5. d[k] <= w[n - 1] /\ d[k] \in Nat
    <3>1. ~(w[n - 1] < d[k])
      BY <2>4
    <3> QED BY <2>2, <3>1
  <2> QED BY <2>2, <2>5
<1>3. L \in k..L /\ w[L] \in Nat /\ d[k] \in Nat
  BY DEF IsSum
<1>4. L \notin Bad
  BY <1>2
<1>5. ~(w[L] < d[k])
  BY <1>3, <1>4
<1> QED BY <1>3, <1>5

LEMMA AmountsType ==
  ASSUME NEW source \in Source, NEW tradesData \in TradesData(source)
  PROVE  /\ Amounts(tradesData, source, 1) \in [1..Len(tradesData) -> Nat]
         /\ TypeOf[source] = "volume"
              => Amounts(tradesData, source, 2) \in [1..Len(tradesData) -> Nat]
BY DataShape DEF Amounts

(* What a minute adds: its datum if it has a price, and nothing otherwise. *)
LEMMA AmountsShape ==
  ASSUME NEW source \in Source, NEW tradesData \in TradesData(source),
         NEW m \in 1..Len(tradesData)
  PROVE  /\ m \in Priced(tradesData, source) =>
              /\ tradesData[m][source][1] \in Nat \ {0}
              /\ Amounts(tradesData, source, 1)[m] = tradesData[m][source][1]
              /\ TypeOf[source] = "volume" =>
                   /\ tradesData[m][source] \in Trade
                   /\ Amounts(tradesData, source, 2)[m] = tradesData[m][source][2]
         /\ m \notin Priced(tradesData, source) =>
              Amounts(tradesData, source, 1)[m] = 0
<1>1. CASE m \in Known(tradesData, source)
  <2>1. /\ tradesData[m][source][1] \in Nat
        /\ TypeOf[source] = "volume" => tradesData[m][source] \in Trade
    BY <1>1, DataShape
  <2>2. m \in Priced(tradesData, source) <=> tradesData[m][source][1] > 0
    BY <1>1 DEF Priced, Known
  <2> QED BY <1>1, <2>1, <2>2 DEF Amounts
<1>2. CASE m \notin Known(tradesData, source)
  BY <1>2, DataShape DEF Amounts
<1> QED BY <1>1, <1>2

(* Minutes without a price add nothing. *)
LEMMA EmptySource ==
  ASSUME NEW source \in Source, NEW tradesData \in TradesData(source),
         Priced(tradesData, source) = {}
  PROVE  SourcePrice(tradesData, source) = 0
<1>1. CASE TypeOf[source] = "price"
  BY <1>1, FS_EmptySet DEF SourcePrice, AveragePrice
<1>2. CASE TypeOf[source] # "price"
  <2>1. PICK L \in Nat : L = Len(tradesData)
    BY DataShape
  <2>2. PICK d \in [1..L -> Nat] : d = Amounts(tradesData, source, 1)
    BY <2>1, AmountsType
  <2>3. PICK x : IsSum(x, d, L) /\ Total(tradesData, source, 1) = x[L]
    BY <2>1, <2>2, TotalIsSum
  <2>4. \A m \in 1..L : IsWithin(d[m], d[m], 0, 0, 0)
    BY <2>1, <2>2, AmountsShape DEF IsWithin
  <2>5. IsWithin(x[L], x[L], 0, 0, 0)
    BY <2>3, <2>4, WithinTotal
  <2>6. x[L] = 0
    <3>1. x[L] \in Nat
      BY <2>3 DEF IsSum
    <3> QED BY <2>5, <3>1 DEF IsWithin
  <2> QED BY <1>2, <2>3, <2>6 DEF SourcePrice, VWAP
<1> QED BY <1>1, <1>2

LEMMA VWAPType ==
  ASSUME NEW v \in Nat, NEW q \in Nat
  PROVE  VWAP(v, q) \in Nat
<1>1. PICK c \in Nat : c = PowerOfTen(Decimals)
  BY PowerOfTenType, SourceAssumption
<1>2. v * c \in Nat
  OBVIOUS
<1> QED BY <1>1, <1>2, DivisionFacts DEF VWAP

LEMMA SourcePriceType ==
  ASSUME NEW source \in Source, NEW tradesData \in TradesData(source)
  PROVE  SourcePrice(tradesData, source) \in Nat
<1>1. PICK L \in Nat : L = Len(tradesData)
  BY DataShape
<1>2. PICK d \in [1..L -> Nat] : d = Amounts(tradesData, source, 1)
  BY <1>1, AmountsType
<1>3. PICK x : IsSum(x, d, L) /\ Total(tradesData, source, 1) = x[L]
  BY <1>1, <1>2, TotalIsSum
<1>4. x[L] \in Nat
  BY <1>3 DEF IsSum
<1>5. CASE TypeOf[source] = "price"
  <2>1. Cardinality(Priced(tradesData, source)) \in Nat
    BY DataShape, FS_CardinalityType
  <2>2. NormalizePrice(x[L]) \in Nat
    BY <1>4, NormalizeType
  <2> QED BY <1>3, <1>5, <2>1, <2>2, DivisionFacts DEF SourcePrice, AveragePrice
<1>6. CASE TypeOf[source] = "volume"
  <2>1. PICK e \in [1..L -> Nat] : e = Amounts(tradesData, source, 2)
    BY <1>1, <1>6, AmountsType
  <2>2. PICK w : IsSum(w, e, L) /\ Total(tradesData, source, 2) = w[L]
    BY <1>1, <2>1, TotalIsSum
  <2>3. PICK v \in Nat, q \in Nat : v = x[L] /\ q = w[L]
    BY <1>4, <2>2 DEF IsSum
  <2>4. VWAP(v, q) \in Nat
    BY VWAPType
  <2> QED BY <1>3, <1>6, <2>2, <2>3, <2>4 DEF SourcePrice
<1> QED BY <1>5, <1>6, SourceAssumption

MinutesWithin(tradesData, source, a, b) ==
  \A m \in Priced(tradesData, source) :
     MinutePrice(tradesData[m][source], source) \in a..b

LEMMA PriceSourceWithin ==
  ASSUME NEW source \in Source, NEW tradesData \in TradesData(source),
         TypeOf[source] = "price", Priced(tradesData, source) # {},
         NEW a \in Nat, NEW b \in Nat,
         MinutesWithin(tradesData, source, a, b)
  PROVE  SourcePrice(tradesData, source) \in a..b
<1>1. PICK L \in Nat : L = Len(tradesData)
  BY DataShape
<1>2. PICK priced \in SUBSET (1..L) : priced = Priced(tradesData, source)
  BY <1>1, DataShape
<1>3. PICK dx \in [1..L -> Nat] : dx = Amounts(tradesData, source, 1)
  BY <1>1, AmountsType
<1>4. PICK x : IsSum(x, dx, L) /\ Total(tradesData, source, 1) = x[L]
  BY <1>1, <1>3, TotalIsSum
<1> DEFINE dw == [m \in 1..L |-> IF m \in priced THEN 1 ELSE 0]
<1>5. dw \in [1..L -> Nat]
  OBVIOUS
<1>6. PICK w : IsSum(w, dw, L)
  <2> HIDE DEF dw
  <2> QED BY <1>5, SumExists
<1>7. PICK entries \in Nat \ {0} : entries = Cardinality(priced) /\ entries = w[L]
  <2>1. w[L] = Cardinality(priced)
    BY <1>6, CountIsSum
  <2> QED BY <1>2, <2>1, DataShape, FS_CardinalityType, FS_EmptySet
<1>8. PICK A \in Nat, B \in Nat, c \in Nat :
        /\ \A price \in Nat :
             NormalizePrice(price) \in a..b => A <= c * price /\ c * price < B
        /\ \A sum \in Nat, k \in Nat \ {0} :
             A * k <= c * sum /\ c * sum < B * k
               => NormalizePrice(sum) \div k \in a..b
  BY NormalizeBounds
<1>9. ASSUME NEW m \in 1..L PROVE IsWithin(dx[m], dw[m], A, B, c)
  <2>1. CASE m \in priced
    <3>1. dx[m] \in Nat /\ dx[m] = tradesData[m][source][1] /\ dw[m] = 1
      BY <1>1, <1>2, <1>3, <2>1, AmountsShape
    <3>2. NormalizePrice(dx[m]) \in a..b
      BY <1>2, <2>1, <3>1 DEF MinutePrice, MinutesWithin
    <3>3. A <= c * dx[m] /\ c * dx[m] < B
      BY <1>8, <3>1, <3>2
    <3>4. A * 1 = A /\ B * 1 = B
      OBVIOUS
    <3> QED BY <3>1, <3>3, <3>4 DEF IsWithin
  <2>2. CASE m \notin priced
    BY <1>1, <1>2, <1>3, <2>2, AmountsShape DEF IsWithin
  <2> QED BY <2>1, <2>2
<1>10. IsWithin(x[L], entries, A, B, c)
  <2>1. \A m \in 1..L : IsWithin(dx[m], dw[m], A, B, c)
    BY <1>9
  <2>2. IsWithin(x[L], w[L], A, B, c)
    <3> HIDE DEF dw
    <3> QED BY <1>4, <1>5, <1>6, <2>1, WithinTotal
  <2> QED BY <1>7, <2>2
<1>11. PICK sum \in Nat : sum = x[L]
  BY <1>4 DEF IsSum
<1>12. NormalizePrice(sum) \div entries \in a..b
  BY <1>7, <1>8, <1>10, <1>11 DEF IsWithin
<1> QED BY <1>2, <1>4, <1>7, <1>11, <1>12 DEF SourcePrice, AveragePrice

(* A trade that has a volume has a quote volume, and the other way round. *)
TradesAreWhole == \A trade \in Trade : trade[1] = 0 <=> trade[2] = 0

LEMMA TradeSourceWithin ==
  ASSUME TradesAreWhole,
         NEW source \in Source, NEW tradesData \in TradesData(source),
         TypeOf[source] = "volume", Priced(tradesData, source) # {},
         NEW a \in Nat, NEW b \in Nat,
         MinutesWithin(tradesData, source, a, b)
  PROVE  SourcePrice(tradesData, source) \in a..b
<1>1. PICK L \in Nat : L = Len(tradesData)
  BY DataShape
<1>2. PICK priced \in SUBSET (1..L) : priced = Priced(tradesData, source)
  BY <1>1, DataShape
<1>3. PICK dx \in [1..L -> Nat] : dx = Amounts(tradesData, source, 1)
  BY <1>1, AmountsType
<1>4. PICK x : IsSum(x, dx, L) /\ Total(tradesData, source, 1) = x[L]
  BY <1>1, <1>3, TotalIsSum
<1>5. PICK dw \in [1..L -> Nat] : dw = Amounts(tradesData, source, 2)
  BY <1>1, AmountsType
<1>6. PICK w : IsSum(w, dw, L) /\ Total(tradesData, source, 2) = w[L]
  BY <1>1, <1>5, TotalIsSum
<1>7. PICK c \in Nat \ {0} : c = PowerOfTen(Decimals)
  BY PowerOfTenType, SourceAssumption
<1>8. ASSUME NEW m \in priced
      PROVE  /\ dx[m] > 0 /\ dw[m] > 0
             /\ (dx[m] * c) \div dw[m] \in a..b
  <2>1. /\ tradesData[m][source] \in Trade
        /\ tradesData[m][source][1] = dx[m] /\ tradesData[m][source][2] = dw[m]
        /\ dx[m] \in Nat \ {0} /\ dw[m] \in Nat
    BY <1>1, <1>2, <1>3, <1>5, AmountsShape
  <2>2. dw[m] # 0
    BY <2>1 DEF TradesAreWhole
  <2>3. MinutePrice(tradesData[m][source], source) = (dx[m] * c) \div dw[m]
    BY <1>7, <2>1, <2>2 DEF MinutePrice, VWAP
  <2>4. dx[m] > 0 /\ dw[m] > 0
    BY <2>1, <2>2
  <2> QED BY <1>2, <2>3, <2>4 DEF MinutesWithin
<1>9. ASSUME NEW m \in 1..L PROVE IsWithin(dx[m], dw[m], a, b + 1, c)
  <2>1. CASE m \in priced
    <3>1. PICK v \in Nat, q \in Nat \ {0} : v = dx[m] /\ q = dw[m]
      BY <1>8, <2>1
    <3>2. v * c \in Nat /\ (v * c) \div q \in a..b
      <4>1. v * c \in Nat
        OBVIOUS
      <4>2. (v * c) \div q \in a..b
        BY <1>8, <2>1, <3>1, Zenon
      <4> QED BY <4>1, <4>2
    <3>3. PICK p \in Nat : p = (v * c) \div q /\ q * p <= v * c /\ v * c < q * (p + 1)
      BY <3>2, DivisionFacts
    <3>4. a <= p /\ p + 1 <= b + 1
      BY <3>2, <3>3
    <3>5. q * a <= q * p /\ q * (p + 1) <= q * (b + 1)
      BY <3>4, ProductOrder
    <3>6. q * a <= v * c /\ v * c < q * (b + 1)
      <4>1. \A i, j, k \in Int : (i <= j /\ j <= k => i <= k) /\ (i < j /\ j <= k => i < k)
        OBVIOUS
      <4>2. /\ q * a \in Int /\ q * p \in Int /\ v * c \in Int
            /\ q * (p + 1) \in Int /\ q * (b + 1) \in Int
        OBVIOUS
      <4> QED BY <3>3, <3>5, <4>1, <4>2, Zenon
    <3>7. q * a = a * q /\ q * (b + 1) = (b + 1) * q /\ v * c = c * v
      OBVIOUS
    <3> QED BY <3>1, <3>6, <3>7 DEF IsWithin
  <2>2. CASE m \notin priced
    <3>1. dx[m] = 0
      BY <1>1, <1>2, <1>3, <2>2, AmountsShape
    <3>2. dw[m] = 0
      BY <1>1, <1>3, <1>5, <3>1, DataShape DEF Amounts, TradesAreWhole
    <3> QED BY <3>1, <3>2 DEF IsWithin
  <2> QED BY <2>1, <2>2
<1>10. PICK v \in Nat, q \in Nat : v = x[L] /\ q = w[L]
  BY <1>4, <1>6 DEF IsSum
<1>11. IsWithin(v, q, a, b + 1, c)
  <2>1. b + 1 \in Nat
    OBVIOUS
  <2> QED BY <1>4, <1>6, <1>9, <1>10, <2>1, WithinTotal
<1>12. v # 0 /\ q # 0
  <2>1. PICK m \in priced : m \in 1..L
    BY <1>2
  <2>2. dx[m] <= v /\ dw[m] <= q
    BY <1>4, <1>6, <1>10, <2>1, TotalAtLeast
  <2>3. dx[m] \in Nat /\ dw[m] \in Nat /\ dx[m] > 0 /\ dw[m] > 0
    BY <1>8, <2>1
  <2> QED BY <2>2, <2>3
<1>13. (v * c) \div q \in a..b
  <2>1. q * a <= v * c /\ v * c < q * (b + 1) /\ v * c \in Nat
    BY <1>11, <1>12 DEF IsWithin
  <2>2. PICK y \in Nat : y = v * c
    BY <2>1
  <2>3. a <= y \div q /\ y \div q < b + 1 /\ y \div q \in Nat
    <3>1. q \in Nat \ {0} /\ b + 1 \in Nat
      BY <1>12
    <3> QED BY <2>1, <2>2, <3>1, DivisionAtLeast, DivisionBelow, DivisionFacts
  <2> QED BY <2>2, <2>3
<1> QED BY <1>4, <1>6, <1>7, <1>10, <1>12, <1>13 DEF SourcePrice, VWAP


LEMMA SourceNotDistorted ==
  ASSUME TradesAreWhole,
         NEW source \in Source, NEW tradesData \in TradesData(source)
  PROVE  ~IsDistorted(tradesData, source)
<1> DEFINE priced == Priced(tradesData, source)
           f == [m \in priced |-> MinutePrice(tradesData[m][source], source)]
           range == {f[m] : m \in priced}
<1>1. range = {MinutePrice(tradesData[m][source], source) : m \in priced}
  OBVIOUS
<1>2. CASE priced = {}
  <2>1. range = {}
    BY <1>2
  <2>2. SourcePrice(tradesData, source) = 0
    BY <1>2, EmptySource
  <2> HIDE DEF f, priced
  <2> QED BY <1>1, <2>1, <2>2 DEF IsDistorted, priced
<1>3. CASE priced # {}
  <2>1. f \in [priced -> Nat]
    <3> SUFFICES ASSUME NEW m \in priced
                 PROVE  MinutePrice(tradesData[m][source], source) \in Nat
      OBVIOUS
    <3>1. /\ m \in Known(tradesData, source)
          /\ tradesData[m][source][1] \in Nat
          /\ TypeOf[source] = "volume" => tradesData[m][source][2] \in Nat
      BY DataShape
    <3>2. CASE TypeOf[source] = "price"
      BY <3>1, <3>2, NormalizeType DEF MinutePrice
    <3>3. CASE TypeOf[source] = "volume"
      <4>1. PICK v \in Nat, q \in Nat :
              v = tradesData[m][source][1] /\ q = tradesData[m][source][2]
        BY <3>1, <3>3
      <4>2. VWAP(v, q) \in Nat
        BY VWAPType
      <4> QED BY <3>3, <4>1, <4>2 DEF MinutePrice
    <3> QED BY <3>2, <3>3, SourceAssumption
  <2>2. IsFiniteSet(priced)
    BY DataShape
  <2>3. range = Values(f, priced)
    BY DEF Values
  <2>4. PICK a \in Nat, b \in Nat :
          /\ a = Min(range) /\ b = Max(range)
          /\ \A m \in priced : f[m] \in a..b
    <3> HIDE DEF f, priced, range
    <3> QED BY <1>3, <2>1, <2>2, <2>3, RangeBounds
  <2>5. MinutesWithin(tradesData, source, a, b)
    BY <2>4 DEF MinutesWithin
  <2>6. SourcePrice(tradesData, source) \in a..b
    <3>1. CASE TypeOf[source] = "price"
      BY <1>3, <2>5, <3>1, PriceSourceWithin
    <3>2. CASE TypeOf[source] = "volume"
      BY <1>3, <2>5, <3>2, TradeSourceWithin
    <3> QED BY <3>1, <3>2, SourceAssumption
  <2>7. range # {}
    BY <1>3
  <2> HIDE DEF f, range
  <2> QED BY <1>1, <2>4, <2>6, <2>7 DEF IsDistorted
<1> QED BY <1>2, <1>3

(* SourceWithinMinutes: the price of a source over the timeframe is between the
   lowest and the highest of its minutes, as long as no trade has a volume
   without a quote volume or a quote volume without a volume (aggrTradesData,
   getAveragePrice, getVWAP). *)
THEOREM SourceWithinMinutesCorrect ==
  ASSUME TradesAreWhole
  PROVE  Spec => []SourceWithinMinutes
<1>1. SourceWithinMinutes
  BY SourceNotDistorted DEF SourceWithinMinutes, Distorted
<1> QED BY <1>1, PTL

-----------------------------------------------------------------------------
(* The median *)

Below(f, S, v) == {s \in S : f[s] < v}
UpTo(f, S, v) == {s \in S : f[s] <= v}

LEMMA CountsType ==
  ASSUME NEW f \in [Source -> Nat], NEW S \in SUBSET Source, NEW v \in Nat
  PROVE  /\ IsFiniteSet(S) /\ Cardinality(S) \in Nat
         /\ IsFiniteSet(Below(f, S, v)) /\ Cardinality(Below(f, S, v)) \in Nat
         /\ IsFiniteSet(UpTo(f, S, v)) /\ Cardinality(UpTo(f, S, v)) \in Nat
<1>1. Below(f, S, v) \in SUBSET Source /\ UpTo(f, S, v) \in SUBSET Source
  BY DEF Below, UpTo
<1>2. \A T \in SUBSET Source : IsFiniteSet(T) /\ Cardinality(T) \in Nat
  BY SourceAssumption, FS_Subset, FS_CardinalityType
<1> QED BY <1>1, <1>2

(* The CHOOSE of SortedAt has something to choose. *)
LEMMA SortedAtExists ==
  ASSUME NEW f \in [Source -> Nat], NEW S \in SUBSET Source,
         NEW k \in 1..Cardinality(S)
  PROVE  /\ SortedAt(k, f, S) \in Nat
         /\ Cardinality(Below(f, S, SortedAt(k, f, S))) < k
         /\ Cardinality(UpTo(f, S, SortedAt(k, f, S))) >= k
<1> DEFINE T == {v \in Values(f, S) : Cardinality(UpTo(f, S, v)) >= k}
<1>1. IsFiniteSet(S) /\ Cardinality(S) \in Nat /\ S # {} /\ 0 \in Nat
  <2>1. IsFiniteSet(S) /\ Cardinality(S) \in Nat
    BY CountsType
  <2> QED BY <2>1, FS_EmptySet
<1>2. \A R \in SUBSET S : R # {} => \E m \in R : \A s \in R : f[s] <= f[m]
  <2> TAKE R \in SUBSET S
  <2> HAVE R # {}
  <2>1. IsFiniteSet(R)
    BY <1>1, FS_Subset
  <2>2. PICK g \in [R -> Nat] : g = [s \in R |-> f[s]]
    OBVIOUS
  <2>3. PICK m \in R : \A s \in R : g[s] <= g[m]
    BY <2>1, LargestValue
  <2> QED BY <2>2, <2>3
<1>3. T \in SUBSET Nat
  BY DEF Values
<1>4. T # {}
  <2>1. PICK m \in S : \A s \in S : f[s] <= f[m]
    BY <1>1, <1>2
  <2>2. UpTo(f, S, f[m]) = S
    BY <2>1 DEF UpTo
  <2>3. f[m] \in Values(f, S) /\ Cardinality(UpTo(f, S, f[m])) >= k
    BY <1>1, <2>2 DEF Values
  <2> QED BY <2>3
<1>5. PICK v \in T : \A u \in T : v <= u
  <2> HIDE DEF T
  <2> QED BY <1>3, <1>4, LeastNatural
<1>6. v \in Nat /\ v \in Values(f, S) /\ Cardinality(UpTo(f, S, v)) >= k
  BY <1>3, <1>5
<1>7. ASSUME ~(Cardinality(Below(f, S, v)) < k) PROVE FALSE
  <2> DEFINE B == Below(f, S, v)
  <2>1. B \in SUBSET S /\ IsFiniteSet(B) /\ Cardinality(B) \in Nat
    BY <1>6, CountsType DEF Below
  <2>2. B # {}
    <3>1. Cardinality(B) # 0
      BY <1>7, <2>1
    <3> HIDE DEF B
    <3> QED BY <3>1, FS_EmptySet
  <2>3. PICK m \in B : \A s \in B : f[s] <= f[m]
    <3> HIDE DEF B
    <3> QED BY <1>2, <2>1, <2>2
  <2>4. m \in S /\ f[m] \in Nat /\ f[m] < v
    BY <2>3 DEF Below
  <2>5. B \in SUBSET UpTo(f, S, f[m])
    BY <2>3 DEF Below, UpTo
  <2>6. Cardinality(B) <= Cardinality(UpTo(f, S, f[m]))
        /\ Cardinality(UpTo(f, S, f[m])) \in Nat
    <3>1. IsFiniteSet(UpTo(f, S, f[m])) /\ Cardinality(UpTo(f, S, f[m])) \in Nat
      BY <2>4, CountsType
    <3> HIDE DEF B
    <3> QED BY <2>5, <3>1, FS_Subset
  <2>7. f[m] \in T
    <3>1. Cardinality(UpTo(f, S, f[m])) >= k
      BY <1>7, <2>1, <2>6
    <3> QED BY <2>4, <3>1 DEF Values
  <2> HIDE DEF T, B
  <2> QED BY <1>5, <1>6, <2>4, <2>7
<1>8. \E u \in Values(f, S) : /\ Cardinality(Below(f, S, u)) < k
                              /\ Cardinality(UpTo(f, S, u)) >= k
  BY <1>6, <1>7
<1>9. SortedAt(k, f, S) = CHOOSE u \in Values(f, S) :
                            /\ Cardinality(Below(f, S, u)) < k
                            /\ Cardinality(UpTo(f, S, u)) >= k
  BY Zenon DEF SortedAt, Values, Below, UpTo
<1>10. SortedAt(k, f, S) \in Values(f, S)
  BY <1>8, <1>9, Zenon
<1>11. /\ Cardinality(Below(f, S, SortedAt(k, f, S))) < k
       /\ Cardinality(UpTo(f, S, SortedAt(k, f, S))) >= k
  BY <1>8, <1>9, Zenon
<1>12. SortedAt(k, f, S) \in Nat
  BY <1>10 DEF Values
<1> QED BY <1>11, <1>12

(* A position that neither the others alone reach from below nor leaves out all of
   a group is between the values of the group. *)
LEMMA SortedAtWithin ==
  ASSUME NEW f \in [Source -> Nat], NEW S \in SUBSET Source, NEW H \in SUBSET S,
         NEW lo \in Nat, NEW hi \in Nat, \A h \in H : f[h] \in lo..hi,
         NEW k \in 1..Cardinality(H), k > Cardinality(S) - Cardinality(H)
  PROVE  SortedAt(k, f, S) \in lo..hi
<1>1. /\ IsFiniteSet(S) /\ Cardinality(S) \in Nat
      /\ IsFiniteSet(H) /\ Cardinality(H) \in Nat /\ Cardinality(H) <= Cardinality(S)
  <2>1. IsFiniteSet(S)
    BY SourceAssumption, FS_Subset
  <2> QED BY <2>1, FS_Subset, FS_CardinalityType
<1>2. k \in 1..Cardinality(S)
  BY <1>1
<1>3. PICK v \in Nat : /\ v = SortedAt(k, f, S)
                       /\ Cardinality(Below(f, S, v)) < k
                       /\ Cardinality(UpTo(f, S, v)) >= k
  BY <1>2, SortedAtExists
<1>4. /\ IsFiniteSet(Below(f, S, v)) /\ Cardinality(Below(f, S, v)) \in Nat
      /\ IsFiniteSet(UpTo(f, S, v)) /\ Cardinality(UpTo(f, S, v)) \in Nat
  BY CountsType
<1>5. ASSUME v < lo PROVE FALSE
  <2>1. UpTo(f, S, v) \in SUBSET (S \ H)
    BY <1>5 DEF UpTo
  <2>2. IsFiniteSet(S \ H) /\ Cardinality(S \ H) = Cardinality(S) - Cardinality(H)
    <3>1. S \cap H = H
      OBVIOUS
    <3> QED BY <1>1, <3>1, FS_Difference
  <2>3. Cardinality(UpTo(f, S, v)) <= Cardinality(S) - Cardinality(H)
    BY <2>1, <2>2, FS_Subset
  <2> QED BY <1>1, <1>3, <1>4, <2>3
<1>6. ASSUME v > hi PROVE FALSE
  <2>1. H \in SUBSET Below(f, S, v)
    BY <1>6 DEF Below
  <2>2. Cardinality(H) <= Cardinality(Below(f, S, v))
    BY <1>4, <2>1, FS_Subset
  <2> QED BY <1>1, <1>3, <1>4, <2>2
<1> QED BY <1>3, <1>5, <1>6

(* The median is between the values of any majority. *)
LEMMA MedianWithin ==
  ASSUME NEW f \in [Source -> Nat], NEW S \in SUBSET Source, NEW H \in SUBSET S,
         NEW lo \in Nat, NEW hi \in Nat, \A h \in H : f[h] \in lo..hi,
         2 * Cardinality(H) > Cardinality(S)
  PROVE  Median(f, S) \in lo..hi
<1>1. PICK n \in Nat, h \in Nat : n = Cardinality(S) /\ h = Cardinality(H) /\ h <= n
  <2>1. IsFiniteSet(S)
    BY SourceAssumption, FS_Subset
  <2> QED BY <2>1, FS_Subset, FS_CardinalityType
<1>2. PICK middle \in Nat : middle = n \div 2
  OBVIOUS
<1>3. PICK above : above = SortedAt(middle + 1, f, S)
  OBVIOUS
<1>4. PICK below : below = SortedAt(middle, f, S)
  OBVIOUS
<1>5. /\ middle + 1 \in 1..h /\ middle + 1 > n - h
      /\ n % 2 # 1 => middle \in 1..h /\ middle > n - h
  BY <1>1, <1>2
<1>6. above \in lo..hi
  BY <1>1, <1>3, <1>5, SortedAtWithin
<1>7. n % 2 # 1 => below \in lo..hi
  BY <1>1, <1>4, <1>5, SortedAtWithin
<1>8. Median(f, S) = IF n % 2 = 1 THEN above ELSE (below + above) \div 2
  BY <1>1, <1>2, <1>3, <1>4 DEF Median
<1> QED BY <1>6, <1>7, <1>8

(* Values within 4% of each other are no outliers to a median among them. *)
LEMMA CloseIsNoOutlier ==
  ASSUME NEW lo \in Nat \ {0}, NEW hi \in Nat, 100 * (hi - lo) <= 4 * lo,
         NEW value \in lo..hi, NEW median \in lo..hi
  PROVE  ~IsOutlier(value, median)
<1>1. median \in Nat \ {0} /\ 100 * value \in Nat
  OBVIOUS
<1>2. median * 96 <= 100 * value /\ 100 * value < median * 105
  OBVIOUS
<1>3. PICK ratio \in Nat : ratio = (100 * value) \div median
  BY <1>1, DivisionFacts
<1>4. 96 <= ratio /\ ratio < 105
  BY <1>1, <1>2, <1>3, DivisionAtLeast, DivisionBelow
<1>5. Deviation(value, median) = IF 100 - ratio < 0 THEN -(100 - ratio) ELSE 100 - ratio
  BY <1>3 DEF Deviation
<1>6. Deviation(value, median) <= 4
  BY <1>4, <1>5
<1>7. Deviation(value, median) \in Int
  BY <1>5
<1> QED BY <1>6, <1>7 DEF IsOutlier

LEMMA PriceNotMoved ==
  ASSUME NEW f \in [Source -> Nat]
  PROVE  ~IsMoved(f)
<1> SUFFICES ASSUME NEW H \in SUBSET Quoted(f),
                    2 * Cardinality(H) > Cardinality(Quoted(f)),
                    100 * (Max(Values(f, H)) - Min(Values(f, H))) <= 4 * Min(Values(f, H))
             PROVE  CalcPrice(f) \in Min(Values(f, H))..Max(Values(f, H))
  BY Zenon DEF IsMoved, Values
<1>1. /\ Quoted(f) \in SUBSET Source /\ IsFiniteSet(Quoted(f))
      /\ Cardinality(Quoted(f)) \in Nat
      /\ IsFiniteSet(H) /\ Cardinality(H) \in Nat
  <2>1. Quoted(f) \in SUBSET Source
    BY DEF Quoted
  <2> QED BY <2>1, SourceAssumption, FS_Subset, FS_CardinalityType
<1>2. H # {} /\ Quoted(f) # {}
  <2>1. Cardinality(H) # 0
    BY <1>1
  <2> QED BY <2>1, FS_EmptySet
<1>3. PICK lo \in Nat, hi \in Nat :
        /\ lo = Min(Values(f, H)) /\ hi = Max(Values(f, H))
        /\ \A h \in H : f[h] \in lo..hi
  <2>1. PICK g \in [H -> Nat] : g = [s \in H |-> f[s]]
    BY <1>1
  <2>2. Values(g, H) = Values(f, H)
    BY <2>1 DEF Values
  <2>3. /\ Min(Values(g, H)) \in Nat /\ Max(Values(g, H)) \in Nat
        /\ \A h \in H : g[h] \in Min(Values(g, H))..Max(Values(g, H))
    BY <1>1, <1>2, RangeBounds
  <2> QED BY <2>1, <2>2, <2>3
<1>4. lo # 0
  <2>1. PICK h \in H : f[h] = lo
    BY <1>1, <1>2, <1>3, LeastIsValue
  <2> QED BY <2>1 DEF Quoted
<1>5. Median(f, Quoted(f)) \in lo..hi
  BY <1>1, <1>3, MedianWithin
<1>6. H \in SUBSET Trimmed(f) /\ Trimmed(f) \in SUBSET Quoted(f)
  <2>1. ASSUME NEW h \in H PROVE ~IsOutlier(f[h], Median(f, Quoted(f)))
    BY <1>3, <1>4, <1>5, CloseIsNoOutlier
  <2> QED BY <2>1 DEF Trimmed
<1>7. Median(f, Trimmed(f)) \in lo..hi
  <2>1. Cardinality(Trimmed(f)) <= Cardinality(Quoted(f)) /\ Cardinality(Trimmed(f)) \in Nat
    BY <1>1, <1>6, FS_Subset, FS_CardinalityType
  <2>2. 2 * Cardinality(H) > Cardinality(Trimmed(f))
    BY <1>1, <2>1
  <2> QED BY <1>1, <1>3, <1>6, <2>2, MedianWithin
<1>8. CalcPrice(f) \in lo..hi
  BY <1>2, <1>5, <1>7 DEF CalcPrice, MedianPrice
<1> QED BY <1>3, <1>8

(* MinorityCannotMove: when most of the sources that have a price are within 4%
   of each other, the price of the asset is among theirs, whatever the others say
   (calcPrice). *)
THEOREM MinorityCannotMoveCorrect == Spec => []MinorityCannotMove
<1>1. ASSUME NEW sourcePrices \in Moved PROVE FALSE
  <2>1. /\ \A source \in Source : sourcePrices[source] \in PossiblePrices(source)
        /\ sourcePrices \in [Source -> UNION {PossiblePrices(source) : source \in Source}]
        /\ IsMoved(sourcePrices)
    BY DEF Moved
  <2>2. \A source \in Source : PossiblePrices(source) \subseteq Nat
    BY SourcePriceType DEF PossiblePrices
  <2>3. sourcePrices \in [Source -> Nat]
    BY <2>1, <2>2
  <2> QED BY <2>1, <2>3, PriceNotMoved
<1>2. MinorityCannotMove
  BY <1>1 DEF MinorityCannotMove
<1> QED BY <1>2, PTL

=============================================================================
