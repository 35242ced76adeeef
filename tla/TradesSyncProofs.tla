-------------------------- MODULE TradesSyncProofs --------------------------
(***************************************************************************)
(* The trades data the nodes share, for any nodes, minutes, delays, faults  *)
(* and answers of the data source.                                         *)
(***************************************************************************)
EXTENDS TradesSync, FiniteSetTheorems, WellFoundedInduction, TLAPS

-----------------------------------------------------------------------------
(* The inductive invariant behind the properties of TradesSync *)

Own(n) == trades[n][n]

Sent(c) == {queue[c][x] : x \in DOMAIN queue[c]}

(* A load that ends with an answer *)
Loads(n) == FinishLoad(n) \/ FinishShort(n)

(* Whatever anybody holds of the data of node n, and what is under way *)
Copies(n) == {trades[i][n] : i \in Node} \cup UNION {Sent(c) : c \in {n} \X (Node \ {n})}

(* A load is of what was missing after the last minute *)
LoadsFollowOwn ==
    \A n \in Node : load[n] # None =>
        /\ load[n].count = SampleSize(LastTimestamp(Own(n)), load[n].target)
        /\ load[n].target <= CurrentMinute

(* Nobody has data of node n of a minute to come, or of one after a load *)
CopiesArePast(n) ==
    \A data \in Copies(n) : \A m \in Cached(data) :
        /\ m <= CurrentMinute
        /\ load[n] # None => m <= load[n].target

(* What is known of a node that was not restarted is what it has, or had *)
CopiesAgree(n) ==
    n \notin restarted => \A data \in Copies(n) : \A m \in Cached(data) :
        /\ m <= LastTimestamp(Own(n))
        /\ \A other \in Copies(n) : m \in Cached(other) => other[m] = data[m]

(* From the first minute of the own data on, it has every minute that        *)
(* somebody has: also of what was known before a restart                    *)
OwnHasAll(n) ==
    \A m \in Cached(Own(n)) : \A data \in Copies(n) : \A k \in Cached(data) :
        k >= m => k \in Cached(Own(n))

OwnIsTrimmed(n) ==
    \A m \in Cached(Own(n)) : Cardinality({k \in Cached(Own(n)) : k >= m}) <= Heartbeat

OwnIsComplete(n) ==
    n \notin short => LET last == LastTimestamp(Own(n)) IN
    \A m \in Minutes : last - CacheSize < m /\ m <= last => Own(n)[m] # None

NodeInv(n) == /\ CopiesArePast(n)
              /\ CopiesAgree(n)
              /\ OwnHasAll(n)
              /\ OwnIsTrimmed(n)
              /\ OwnIsComplete(n)

(* What is under way is of the own data, not of the data before a restart *)
SentIsOwn(c) ==
    \A data \in Sent(c) : \A m \in Cached(data) :
        /\ m <= LastTimestamp(Own(c[1]))
        /\ m \in Cached(Own(c[1])) => data[m] = Own(c[1])[m]

(* Over a connection that said READY, what the receiver lacks is under way *)
LackingIsSent(c) ==
    link[c] = "synced" => \A m \in Cached(Own(c[1])) :
        \/ trades[c[2]][c[1]][m] = Own(c[1])[m]
        \/ \E data \in Sent(c) : data[m] # None

(* The nodes that an item counts have the data, as long as it is kept *)
PresentedIsThere ==
    \A n \in Node, m \in Minutes :
        item[n][m] # None /\ CurrentMinute - Heartbeat < m =>
            \A k \in item[n][m].presented : trades[n][k][m] # None

Inv == /\ CacheSize <= CurrentMinute
       /\ LoadsFollowOwn
       /\ \A n \in Node : NodeInv(n)
       /\ \A c \in Channels : SentIsOwn(c) /\ LackingIsSent(c)
       /\ PresentedIsThere


-----------------------------------------------------------------------------
(* Time *)

LEMMA Quotient ==
  ASSUME NEW a \in Nat, NEW b \in Nat \ {0}
  PROVE  /\ a \div b \in Nat
         /\ b * (a \div b) <= a
         /\ a < b * (a \div b) + b
OBVIOUS

(* A later time is not an earlier minute. *)
LEMMA QuotientGrows ==
  ASSUME NEW a \in Nat, NEW c \in Nat, a <= c, NEW b \in Nat \ {0}
  PROVE  a \div b <= c \div b
<1> DEFINE p == a \div b
<1> DEFINE q == c \div b
<1>1. p \in Nat /\ q \in Nat /\ b * p <= a /\ c < b * q + b
  BY Quotient
<1> HIDE DEF p, q
<1>2. SUFFICES ASSUME q < p PROVE FALSE
  BY <1>1 DEF p, q
<1>3. b * (q + 1) = b * q + b
  BY <1>1
<1>4. b * (q + 1) <= b * p
  BY <1>1, <1>2
<1> QED BY <1>1, <1>3, <1>4

LEMMA QuotientOfProduct ==
  ASSUME NEW a \in Nat, NEW b \in Nat \ {0}
  PROVE  (a * b) \div b = a
<1> DEFINE q == (a * b) \div b
<1>1. a * b \in Nat
  OBVIOUS
<1>2. q \in Nat /\ b * q <= a * b /\ a * b < b * q + b
  BY <1>1, Quotient
<1> HIDE DEF q
<1>3. ~(q < a)
  <2> SUFFICES ASSUME q < a PROVE FALSE
    OBVIOUS
  <2>1. b * (q + 1) <= b * a
    BY <1>2
  <2>2. b * (q + 1) = b * q + b /\ b * a = a * b
    BY <1>2
  <2> QED BY <1>1, <1>2, <2>1, <2>2
<1>4. ~(q > a)
  <2> SUFFICES ASSUME q > a PROVE FALSE
    OBVIOUS
  <2>1. b * (a + 1) <= b * q
    BY <1>2
  <2>2. b * (a + 1) = b * a + b /\ b * a = a * b
    BY <1>2
  <2> QED BY <1>1, <1>2, <2>1, <2>2
<1> QED BY <1>2, <1>3, <1>4 DEF q

(* The minutes are the numbers up to the last one. *)
LEMMA MinutesShape ==
  \E last \in Nat : last = MaxTime \div Minute /\ Minutes = 1..last
BY Quotient, TimeAssumption, LimitAssumption DEF Minutes

-----------------------------------------------------------------------------
(* Cached data *)

LEMMA MaxExists ==
  ASSUME NEW Q \in Nat, NEW S \in SUBSET (1..Q), S # {}
  PROVE  \E m \in S : \A k \in S : k <= m
<1> DEFINE R == {p \in Nat \X Nat : p[1] < p[2]}
<1>1. IsWellFoundedOn(R, Nat)
  BY NatLessThanWellFounded, Zenon DEF OpToRel
<1> DEFINE T == {Q - m : m \in S}
<1>2. T \subseteq Nat /\ T # {}
  <2>1. \A m \in S : m \in 1..Q
    OBVIOUS
  <2>2. \A m \in S : Q - m \in Nat
    BY <2>1
  <2> QED BY <2>2
<1> HIDE DEF R, T
<1>3. \E x \in T : \A y \in T : ~(<<y, x>> \in R)
  BY <1>1, <1>2, WFMin
<1>4. PICK x \in T : \A y \in T : ~(<<y, x>> \in R)
  BY <1>3
<1>5. \A y \in T : <<y, x>> \in R <=> y < x
  BY <1>2, <1>4 DEF R
<1>6. \A y \in T : x <= y
  <2>1. \A y \in T : y \in Nat /\ ~(y < x)
    BY <1>2, <1>4, <1>5
  <2>2. x \in Nat
    BY <1>2
  <2> QED BY <2>1, <2>2
<1>7. PICK m \in S : x = Q - m
  BY DEF T
<1>8. \A k \in S : Q - k \in T
  BY DEF T
<1>9. \A k \in S : x <= Q - k
  BY <1>6, <1>8
<1>10. m \in Int /\ \A k \in S : k \in Int
  OBVIOUS
<1> QED BY <1>7, <1>9, <1>10

LEMMA LastShape ==
  ASSUME NEW data \in Data
  PROVE  /\ Cached(data) \subseteq Minutes /\ Cached(data) \subseteq Nat
         /\ LastTimestamp(data) \in Nat
         /\ \A m \in Cached(data) : m >= 1 /\ m <= LastTimestamp(data)
         /\ Cached(data) # {} => LastTimestamp(data) \in Cached(data)
         /\ Cached(data) = {} => LastTimestamp(data) = 0
<1>1. PICK Q \in Nat : Minutes = 1..Q
  BY MinutesShape
<1>2. Cached(data) \subseteq 1..Q /\ Cached(data) \subseteq Nat
      /\ \A m \in Cached(data) : m >= 1
  BY <1>1 DEF Cached
<1>3. CASE Cached(data) = {}
  BY <1>3 DEF LastTimestamp
<1>4. CASE Cached(data) # {}
  <2>1. \E m \in Cached(data) : \A k \in Cached(data) : k <= m
    BY <1>2, <1>4, MaxExists
  <2>2. /\ LastTimestamp(data) \in Cached(data)
        /\ \A k \in Cached(data) : k <= LastTimestamp(data)
    BY <1>4, <2>1 DEF LastTimestamp
  <2> QED BY <1>1, <1>2, <1>4, <2>2
<1> QED BY <1>3, <1>4

(* The last minute is the one that is cached with nothing after it. *)
LEMMA LastIs ==
  ASSUME NEW data \in Data, NEW m \in Cached(data), \A k \in Cached(data) : k <= m
  PROVE  LastTimestamp(data) = m
BY LastShape

LEMMA NoDataShape == NoData \in Data /\ Cached(NoData) = {}
BY DEF NoData, Data, Cached

(* The minutes of S from m on *)
After(S, m) == {k \in S : k >= m}

LEMMA AfterFinite ==
  ASSUME NEW S \in SUBSET Minutes, NEW m \in Int
  PROVE  IsFiniteSet(After(S, m))
<1>1. PICK Q \in Nat : Minutes = 1..Q
  BY MinutesShape
<1>2. IsFiniteSet(1..Q)
  BY FS_Interval
<1>3. After(S, m) \in SUBSET (1..Q)
  BY <1>1 DEF After
<1> QED BY <1>2, <1>3, FS_Subset

LEMMA CountIsNat ==
  ASSUME NEW S \in SUBSET Minutes, NEW m \in Int
  PROVE  Cardinality(After(S, m)) \in Nat
BY AfterFinite, FS_CardinalityType

LEMMA CountToLast ==
  ASSUME NEW S \in SUBSET Minutes, NEW m \in Int, NEW last \in Int,
         m <= last + 1, \A k \in S : k <= last
  PROVE  Cardinality(After(S, m)) <= last - m + 1
<1>1. IsFiniteSet(m..last) /\ Cardinality(m..last) = last - m + 1
  BY FS_Interval
<1>2. After(S, m) \in SUBSET (m..last)
  <2>1. \A k \in S : k \in Int /\ k <= last
    BY MinutesShape
  <2> QED BY <2>1 DEF After
<1> QED BY <1>1, <1>2, FS_Subset

LEMMA CountIsLess ==
  ASSUME NEW S \in SUBSET Minutes, NEW T \in SUBSET Minutes,
         NEW m \in Int, NEW j \in Int, \A k \in S : k >= m => k \in T /\ k >= j
  PROVE  Cardinality(After(S, m)) <= Cardinality(After(T, j))
<1>1. After(S, m) \in SUBSET After(T, j)
  BY DEF After
<1>2. IsFiniteSet(After(T, j))
  BY AfterFinite
<1> QED BY <1>1, <1>2, FS_Subset

(* The minutes of the cached data and of what is pushed *)
Both(data, batch) == Cached(data) \cup Cached(batch)

(* A push keeps what it does not drop, and what it drops has enough minutes *)
(* after it.                                                               *)
LEMMA PushShape ==
  ASSUME NEW data \in Data, NEW batch \in Data
  PROVE  /\ Push(data, batch) \in Data /\ Both(data, batch) \in SUBSET Minutes
         /\ \A m \in Cached(Push(data, batch)) :
               /\ Push(data, batch)[m] = IF batch[m] # None THEN batch[m] ELSE data[m]
               /\ m \in Both(data, batch)
               /\ Cardinality(After(Both(data, batch), m)) <= Heartbeat
         /\ \A m \in Both(data, batch) :
               Cardinality(After(Both(data, batch), m)) <= Heartbeat =>
                  /\ Push(data, batch)[m] = IF batch[m] # None THEN batch[m] ELSE data[m]
                  /\ m \in Cached(Push(data, batch))
<1>1. PICK both, next : both = Both(data, batch) /\ next = Push(data, batch)
  OBVIOUS
<1> DEFINE New(m) == IF batch[m] # None THEN batch[m] ELSE data[m]
<1>2. PICK all : all = [m \in Minutes |-> New(m)]
  OBVIOUS
<1>3. /\ \A m \in Minutes : all[m] = New(m) /\ all[m] \in Value \cup {None}
      /\ Cached(all) = both /\ both \in SUBSET Minutes
  BY <1>1, <1>2 DEF Cached, Data, Both
<1>4. next = [m \in Minutes |->
                IF Cardinality(After(both, m)) <= Heartbeat THEN all[m] ELSE None]
  <2>1. next = [m \in Minutes |->
                  IF Cardinality({k \in Cached(all) : k >= m}) <= Heartbeat
                  THEN all[m] ELSE None]
    BY <1>1, <1>2 DEF Push
  <2> QED BY <1>3, <2>1 DEF After
<1>5. \A m \in Minutes :
        next[m] = IF Cardinality(After(both, m)) <= Heartbeat THEN New(m) ELSE None
  BY <1>3, <1>4
<1>6. next \in Data
  BY <1>3, <1>4 DEF Data
<1>7. \A m \in Minutes : New(m) # None <=> m \in both
  BY <1>1, <1>3 DEF Cached, Both
<1>8. \A m : m \in Cached(next) <=> m \in Minutes /\ next[m] # None
  BY DEF Cached
<1> HIDE DEF New
<1>9. \A m \in Cached(next) :
         next[m] = New(m) /\ m \in both /\ Cardinality(After(both, m)) <= Heartbeat
  BY <1>5, <1>7, <1>8
<1>10. \A m \in both : Cardinality(After(both, m)) <= Heartbeat =>
         next[m] = New(m) /\ m \in Cached(next)
  BY <1>3, <1>5, <1>7, <1>8
<1> QED BY <1>1, <1>3, <1>6, <1>9, <1>10 DEF New

-----------------------------------------------------------------------------
(* Loads *)

LEMMA SampleShape ==
  ASSUME NEW last \in Nat, NEW current \in Nat
  PROVE  /\ SampleSize(last, current) \in 0..CacheSize
         /\ SampleSize(last, current) # 0 =>
               /\ last < current
               /\ SampleSize(last, current) <= current - last
               /\ \/ SampleSize(last, current) = CacheSize
                  \/ SampleSize(last, current) = current - last
BY TimeAssumption DEF SampleSize

LEMMA CurrentShape ==
  ASSUME now \in 0..MaxTime
  PROVE  /\ CurrentMinute \in Nat /\ CurrentMinute <= MaxTime \div Minute
         /\ CacheSize <= CurrentMinute => CurrentMinute \in Minutes
<1>1. now \in Nat /\ MaxTime \in Nat /\ now <= MaxTime /\ Minute \in Nat \ {0}
  BY LimitAssumption, TimeAssumption
<1>2. CurrentMinute \in Nat /\ CurrentMinute <= MaxTime \div Minute /\ MaxTime \div Minute \in Nat
  BY <1>1, Quotient, QuotientGrows DEF CurrentMinute
<1> QED BY <1>2, TimeAssumption DEF Minutes

LEMMA NewLoadShape ==
  ASSUME now \in 0..MaxTime, CacheSize <= CurrentMinute, NEW last \in Nat
  PROVE  /\ NewLoad(last) \in Load \cup {None}
         /\ NewLoad(last) # None =>
               /\ NewLoad(last).target = CurrentMinute
               /\ NewLoad(last).count = SampleSize(last, CurrentMinute)
<1>1. CurrentMinute \in Minutes /\ CurrentMinute \in Nat
  BY CurrentShape
<1>2. SampleSize(last, CurrentMinute) \in 0..CacheSize
  BY <1>1, SampleShape
<1>3. PICK count : count = SampleSize(last, CurrentMinute)
  OBVIOUS
<1>4. CASE count = 0
  BY <1>3, <1>4 DEF NewLoad
<1>5. CASE count # 0
  <2>1. count \in 1..CacheSize
    BY <1>2, <1>3, <1>5, TimeAssumption
  <2>2. NewLoad(last) = [target |-> CurrentMinute, count |-> count, next |-> FALSE]
    BY <1>3, <1>5 DEF NewLoad
  <2>3. NewLoad(last) \in Load
    BY <1>1, <2>1, <2>2 DEF Load
  <2> QED BY <1>3, <2>2, <2>3
<1> QED BY <1>4, <1>5

LEMMA OwnType ==
  ASSUME TypeOK, NEW i \in Node, NEW n \in Node
  PROVE  trades[i][n] \in Data /\ Own(n) \in Data /\ Own(n) = trades[n][n]
BY DEF TypeOK, Own

(* The minutes of a load, all after the last of the own data *)
LEMMA LoadShape ==
  ASSUME TypeOK, LoadsFollowOwn, NEW n \in Node, load[n] # None
  PROVE  /\ load[n] \in Load /\ load[n].target \in Minutes /\ load[n].target \in Nat
         /\ load[n].count \in 1..CacheSize /\ load[n].count \in Nat
         /\ LastTimestamp(Own(n)) + 1 <= load[n].target - load[n].count + 1
         /\ load[n].count # CacheSize =>
               load[n].target - load[n].count + 1 = LastTimestamp(Own(n)) + 1
         /\ load[n].target - load[n].count + 1 .. load[n].target \subseteq Minutes
<1>1. load[n] \in Load
  BY DEF TypeOK
<1>2. /\ load[n].target \in Minutes /\ load[n].count \in 1..CacheSize
  BY <1>1 DEF Load
<1>3. PICK Q \in Nat : Minutes = 1..Q
  BY MinutesShape
<1>4. load[n].target \in Nat /\ load[n].target <= Q /\ load[n].count \in Nat /\ load[n].count >= 1
  BY <1>2, <1>3, TimeAssumption
<1>5. LastTimestamp(Own(n)) \in Nat
  BY OwnType, LastShape
<1>6. load[n].count = SampleSize(LastTimestamp(Own(n)), load[n].target)
  BY DEF LoadsFollowOwn
<1>7. /\ load[n].count <= load[n].target - LastTimestamp(Own(n))
      /\ \/ load[n].count = CacheSize
         \/ load[n].count = load[n].target - LastTimestamp(Own(n))
  <2>1. PICK last \in Nat, target \in Nat :
          last = LastTimestamp(Own(n)) /\ target = load[n].target
    BY <1>4, <1>5
  <2>2. SampleSize(last, target) # 0
    BY <1>4, <1>6, <2>1
  <2>3. /\ SampleSize(last, target) <= target - last
        /\ \/ SampleSize(last, target) = CacheSize
           \/ SampleSize(last, target) = target - last
    BY <2>2, SampleShape
  <2> QED BY <1>6, <2>1, <2>3
<1>8. load[n].target - load[n].count + 1 >= 1
  BY <1>4, <1>5, <1>7
<1>9. load[n].target - load[n].count + 1 .. load[n].target \subseteq Minutes
  BY <1>3, <1>4, <1>8
<1> QED BY <1>1, <1>2, <1>4, <1>5, <1>7, <1>9

-----------------------------------------------------------------------------
(* What Take and Send do *)

LEMMA TakeShape ==
  ASSUME TypeOK, NEW n \in Node, NEW from \in Node, NEW batch \in Data,
         Take(n, from, batch)
  PROVE  /\ trades' \in [Node -> [Node -> Data]]
         /\ item' \in [Node -> [Minutes -> SyncItem \cup {None}]]
         /\ trades'[n][from] = Push(trades[n][from], batch)
         /\ \A i, k \in Node : i # n \/ k # from => trades'[i][k] = trades[i][k]
         /\ \A i \in Node, m \in Minutes :
               \/ item'[i][m] = item[i][m]
               \/ i = n /\ batch[m] # None /\ item'[n][m] = Add(n, GetOrAdd(n, m), from)
<1>1. trades[n][from] \in Data /\ Push(trades[n][from], batch) \in Data
  BY PushShape DEF TypeOK
<1>2. trades' = [trades EXCEPT ![n][from] = Push(@, batch)]
  BY DEF Take
<1>3. /\ trades' \in [Node -> [Node -> Data]]
      /\ trades'[n][from] = Push(trades[n][from], batch)
      /\ \A i, k \in Node : i # n \/ k # from => trades'[i][k] = trades[i][k]
  BY <1>1, <1>2 DEF TypeOK
<1>4. \A m \in Minutes : Add(n, GetOrAdd(n, m), from) \in SyncItem
  <2> SUFFICES ASSUME NEW m \in Minutes PROVE Add(n, GetOrAdd(n, m), from) \in SyncItem
    OBVIOUS
  <2>1. GetOrAdd(n, m) \in SyncItem
    BY DEF GetOrAdd, NewItem, SyncItem, TypeOK
  <2> QED BY <2>1 DEF Add, SyncItem
<1>5. item' = [item EXCEPT ![n] =
                 [m \in Minutes |-> IF batch[m] = None THEN item[n][m]
                                    ELSE Add(n, GetOrAdd(n, m), from)]]
  BY DEF Take
<1>6. [m \in Minutes |-> IF batch[m] = None THEN item[n][m]
                        ELSE Add(n, GetOrAdd(n, m), from)]
        \in [Minutes -> SyncItem \cup {None}]
  BY <1>4 DEF TypeOK
<1>7. /\ item' \in [Node -> [Minutes -> SyncItem \cup {None}]]
      /\ \A i \in Node \ {n} : item'[i] = item[i]
      /\ \A m \in Minutes : item'[n][m] = IF batch[m] = None THEN item[n][m]
                                          ELSE Add(n, GetOrAdd(n, m), from)
  BY <1>5, <1>6 DEF TypeOK
<1> QED BY <1>3, <1>7

LEMMA AddShape ==
  ASSUME NEW n, NEW i, NEW from
  PROVE  /\ Add(n, i, from).presented = i.presented \cup {from}
         /\ Add(n, i, from).status = "ready" /\ i.status # "ready" =>
               n \in i.presented \cup {from} /\ HasMajority(i.presented \cup {from})
BY DEF Add, IsReady

LEMMA SendShape ==
  ASSUME TypeOK, NEW from, NEW peers, NEW batch \in Data, Send(from, peers, batch)
  PROVE  /\ queue' \in [Channels -> Seq(Data)]
         /\ \A c \in Channels :
               /\ Sent(c) \subseteq Sent(c)' /\ Sent(c)' \subseteq Sent(c) \cup {batch}
               /\ c[1] = from /\ c[2] \in peers => batch \in Sent(c)'
               /\ ~(c[1] = from /\ c[2] \in peers) => queue'[c] = queue[c]
<1>1. \A c \in Channels : queue'[c] = IF c[1] = from /\ c[2] \in peers
                                      THEN Append(queue[c], batch) ELSE queue[c]
  BY DEF Send
<1>2. \A c \in Channels : queue[c] \in Seq(Data)
  BY DEF TypeOK
<1>3. \A c \in Channels : queue'[c] \in Seq(Data)
  <2> SUFFICES ASSUME NEW c \in Channels PROVE queue'[c] \in Seq(Data)
    OBVIOUS
  <2>1. queue[c] \in Seq(Data) /\ Append(queue[c], batch) \in Seq(Data)
    BY <1>2
  <2> QED BY <1>1, <2>1
<1>4. queue' \in [Channels -> Seq(Data)]
  BY <1>3 DEF Send
<1>5. ASSUME NEW c \in Channels, c[1] = from /\ c[2] \in peers
      PROVE  /\ Sent(c) \subseteq Sent(c)' /\ Sent(c)' \subseteq Sent(c) \cup {batch}
             /\ batch \in Sent(c)'
  <2>1. queue'[c] = Append(queue[c], batch) /\ queue[c] \in Seq(Data)
    BY <1>1, <1>2, <1>5
  <2>2. /\ DOMAIN queue[c] = 1..Len(queue[c]) /\ Len(queue[c]) \in Nat
        /\ DOMAIN queue'[c] = 1..Len(queue[c]) + 1
        /\ \A x \in 1..Len(queue[c]) : queue'[c][x] = queue[c][x]
        /\ queue'[c][Len(queue[c]) + 1] = batch
    BY <2>1
  <2>3. \A x \in 1..Len(queue[c]) : x \in DOMAIN queue'[c]
    BY <2>2
  <2>4. \A x \in DOMAIN queue'[c] : x \in 1..Len(queue[c]) \/ x = Len(queue[c]) + 1
    BY <2>2
  <2>5. Len(queue[c]) + 1 \in DOMAIN queue'[c]
    BY <2>2
  <2> QED BY <2>2, <2>3, <2>4, <2>5 DEF Sent
<1>6. ASSUME NEW c \in Channels, ~(c[1] = from /\ c[2] \in peers)
      PROVE  queue'[c] = queue[c] /\ Sent(c)' = Sent(c)
  BY <1>1, <1>6 DEF Sent
<1> QED BY <1>4, <1>5, <1>6

LEMMA SentType ==
  ASSUME TypeOK, NEW c \in Channels
  PROVE  Sent(c) \subseteq Data
BY DEF TypeOK, Sent

(* A load that ends, with data of the last minutes it was for *)
LEMMA FinishShape ==
  ASSUME TypeOK, LoadsFollowOwn, NEW n \in Node, Loads(n)
  PROVE  /\ load[n] # None
         /\ \E count \in 1..load[n].count, batch \in Data :
               /\ Cached(batch) = load[n].target - count + 1 .. load[n].target
               /\ Take(n, n, batch) /\ Send(n, Connected(n), batch)
               /\ n \notin short' => count = load[n].count
         /\ load' = [load EXCEPT ![n] = IF load[n].next THEN NewLoad(load[n].target) ELSE None]
         /\ UNCHANGED <<now, due, link, restarted>>
<1>1. load[n] # None /\ UNCHANGED <<now, due, link, restarted>>
  BY DEF Loads, FinishLoad, FinishShort
<1>2. /\ load[n].count \in Nat /\ load[n].count >= 1 /\ load[n].target \in Nat
      /\ load[n].target - load[n].count + 1 .. load[n].target \subseteq Minutes
  BY <1>1, LoadShape
<1>3. PICK count \in 1..load[n].count :
          Answered(n, count) /\ (n \notin short' => count = load[n].count)
  <2>1. CASE FinishLoad(n)
    BY <1>2, <2>1 DEF FinishLoad
  <2>2. CASE FinishShort(n)
    <3>1. n \in short' /\ \E count \in 1..load[n].count - 1 : Answered(n, count)
      BY <2>2 DEF FinishShort
    <3>2. \A count \in 1..load[n].count - 1 : count \in 1..load[n].count
      BY <1>2
    <3> QED BY <3>1, <3>2
  <2> QED BY <2>1, <2>2 DEF Loads
<1> DEFINE from == load[n].target - count + 1
<1> DEFINE to == load[n].target
<1> DEFINE Batch(values) == [m \in Minutes |-> IF m \in from..to THEN values[m] ELSE None]
<1>4. /\ load' = [load EXCEPT ![n] = IF load[n].next THEN NewLoad(to) ELSE None]
      /\ \E values \in [from..to -> Value] :
            Take(n, n, Batch(values)) /\ Send(n, Connected(n), Batch(values))
  BY <1>3 DEF Answered
<1>5. PICK values \in [from..to -> Value] :
          Take(n, n, Batch(values)) /\ Send(n, Connected(n), Batch(values))
  BY <1>4
<1>6. from..to \subseteq Minutes
  BY <1>2
<1>7. PICK batch : batch = Batch(values)
  OBVIOUS
<1>8. \A m \in from..to : values[m] \in Value /\ values[m] # None
  BY ClusterAssumption
<1> HIDE DEF from, to
<1>9. batch \in Data /\ Cached(batch) = from..to
  BY <1>6, <1>7, <1>8 DEF Data, Cached
<1> QED BY <1>1, <1>3, <1>4, <1>5, <1>7, <1>9 DEF from, to

(* Nobody gets rid of the fact that its source left minutes out *)
LEMMA ShortGrows ==
  ASSUME [Next]_vars
  PROVE  short \subseteq short'
BY DEF Next, LoadStep, LoadTradesData, FinishLoad, FinishShort, FailLoad, WaitStep,
       GetTradesData, SyncTimeout, ClearPendingTradesData, Restart, ChannelStep,
       ReceiveSync, Disconnect, Connect, PeerReady, Tick, vars

-----------------------------------------------------------------------------
(* Type correctness *)

LEMMA TimeStep ==
  ASSUME TypeOK, CacheSize <= CurrentMinute, [Next]_vars
  PROVE  /\ now' \in 0..MaxTime
         /\ CurrentMinute \in Nat /\ CurrentMinute' \in Nat
         /\ CurrentMinute <= CurrentMinute' /\ CacheSize <= CurrentMinute'
<1>1. now \in Nat /\ now' \in 0..MaxTime /\ now <= now'
  <2>1. CASE Tick
    BY <2>1, LimitAssumption DEF Tick, TypeOK
  <2>2. CASE ~Tick
    <3>1. now' = now
      BY <2>2 DEF Next, LoadStep, LoadTradesData, FinishLoad, FinishShort, Answered, FailLoad,
                  WaitStep,
                  GetTradesData, SyncTimeout, ClearPendingTradesData, Restart,
                  ChannelStep, ReceiveSync, Disconnect, Connect, PeerReady, vars
    <3> QED BY <3>1, LimitAssumption DEF TypeOK
  <2> QED BY <2>1, <2>2
<1>2. now' \in Nat /\ Minute \in Nat \ {0}
  BY <1>1, LimitAssumption, TimeAssumption
<1>3. CurrentMinute \in Nat /\ CurrentMinute' \in Nat /\ CurrentMinute <= CurrentMinute'
  BY <1>1, <1>2, Quotient, QuotientGrows DEF CurrentMinute
<1> QED BY <1>1, <1>3, TimeAssumption

(* What becomes of a request for data *)
LEMMA LoadStepShape ==
  ASSUME TypeOK, CacheSize <= CurrentMinute, LoadsFollowOwn, [Next]_vars, NEW n \in Node
  PROVE  /\ load' \in [Node -> Load \cup {None}]
         /\ ~Loads(n) /\ load'[n] # None =>
               \/ /\ load'[n].target = CurrentMinute
                  /\ load'[n].count = SampleSize(LastTimestamp(Own(n)), CurrentMinute)
                  /\ ~Restart(n)
               \/ /\ load[n] # None
                  /\ load'[n].target = load[n].target /\ load'[n].count = load[n].count
                  /\ ~Restart(n)
         /\ Loads(n) /\ load'[n] # None =>
               /\ load'[n].target = CurrentMinute
               /\ load'[n].count = SampleSize(load[n].target, CurrentMinute)
<1>1. ASSUME NEW k \in Node
      PROVE  /\ NewLoad(LastTimestamp(Own(k))) \in Load \cup {None}
             /\ NewLoad(LastTimestamp(Own(k))) # None =>
                   /\ NewLoad(LastTimestamp(Own(k))).target = CurrentMinute
                   /\ NewLoad(LastTimestamp(Own(k))).count =
                        SampleSize(LastTimestamp(Own(k)), CurrentMinute)
  <2>1. PICK last \in Nat : last = LastTimestamp(Own(k))
    BY OwnType, LastShape
  <2>2. /\ NewLoad(last) \in Load \cup {None}
        /\ NewLoad(last) # None => /\ NewLoad(last).target = CurrentMinute
                                  /\ NewLoad(last).count = SampleSize(last, CurrentMinute)
    BY NewLoadShape DEF TypeOK
  <2> QED BY <2>1, <2>2
<1>2. ASSUME NEW k \in Node, LoadTradesData(k)
      PROVE  /\ load' \in [Node -> Load \cup {None}]
             /\ load'[n] # None =>
                  \/ /\ load'[n].target = CurrentMinute
                     /\ load'[n].count = SampleSize(LastTimestamp(Own(n)), CurrentMinute)
                  \/ /\ load[n] # None
                     /\ load'[n].target = load[n].target /\ load'[n].count = load[n].count
  <2>1. load' = [load EXCEPT ![k] = IF load[k] = None THEN NewLoad(LastTimestamp(Own(k)))
                                    ELSE [load[k] EXCEPT !.next = TRUE]]
    BY <1>2 DEF LoadTradesData, Own
  <2>2. CASE load[k] = None
    <3>1. load' = [load EXCEPT ![k] = NewLoad(LastTimestamp(Own(k)))]
      BY <2>1, <2>2
    <3> QED BY <1>1, <3>1 DEF TypeOK
  <2>3. CASE load[k] # None
    <3>1. PICK new : new = [load[k] EXCEPT !.next = TRUE]
      OBVIOUS
    <3>2. load[k] \in Load
      BY <2>3 DEF TypeOK
    <3>3. new \in Load /\ new.target = load[k].target /\ new.count = load[k].count
      BY <3>1, <3>2 DEF Load
    <3>4. load' = [load EXCEPT ![k] = new]
      BY <2>1, <2>3, <3>1
    <3> QED BY <2>3, <3>3, <3>4 DEF TypeOK
  <2> QED BY <2>2, <2>3
<1>3. ASSUME NEW k \in Node, Loads(k)
      PROVE  /\ load' \in [Node -> Load \cup {None}]
             /\ n # k => load'[n] = load[n]
             /\ n = k /\ load'[n] # None =>
                   /\ load'[n].target = CurrentMinute
                   /\ load'[n].count = SampleSize(load[n].target, CurrentMinute)
  <2>1. load[k].target \in Nat
    BY <1>3, FinishShape, LoadShape
  <2>2. PICK to \in Nat : to = load[k].target
    BY <2>1
  <2>3. /\ NewLoad(to) \in Load \cup {None}
        /\ NewLoad(to) # None => /\ NewLoad(to).target = CurrentMinute
                                /\ NewLoad(to).count = SampleSize(to, CurrentMinute)
    BY NewLoadShape DEF TypeOK
  <2>4. load' = [load EXCEPT ![k] = NewLoad(to)] \/ load' = [load EXCEPT ![k] = None]
    BY <1>3, <2>2, FinishShape
  <2> QED BY <2>2, <2>3, <2>4 DEF TypeOK
<1>4. ASSUME NEW k \in Node, FailLoad(k)
      PROVE  /\ load' \in [Node -> Load \cup {None}]
             /\ load'[n] # None =>
                  \/ /\ load'[n].target = CurrentMinute
                     /\ load'[n].count = SampleSize(LastTimestamp(Own(n)), CurrentMinute)
                  \/ load[n] # None /\ load'[n] = load[n]
  <2>1. \/ load' = [load EXCEPT ![k] = NewLoad(LastTimestamp(Own(k)))]
        \/ load' = [load EXCEPT ![k] = None]
    BY <1>4 DEF FailLoad, Own
  <2> QED BY <1>1, <2>1 DEF TypeOK
<1>5. ASSUME NEW k \in Node, Restart(k)
      PROVE  /\ load' \in [Node -> Load \cup {None}]
             /\ n = k => load'[n] = None
             /\ n # k => load'[n] = load[n]
  BY <1>5 DEF Restart, TypeOK
<1>6. load \in [Node -> Load \cup {None}]
  BY DEF TypeOK
<1>7. \/ \E k \in Node : LoadTradesData(k) \/ Loads(k) \/ FailLoad(k) \/ Restart(k)
      \/ UNCHANGED load
  BY DEF Next, LoadStep, Loads, WaitStep, GetTradesData, SyncTimeout, ClearPendingTradesData,
         ChannelStep, ReceiveSync, Disconnect, Connect, PeerReady, Tick, vars
<1>8. /\ load' \in [Node -> Load \cup {None}]
      /\ Loads(n) /\ load'[n] # None =>
               /\ load'[n].target = CurrentMinute
               /\ load'[n].count = SampleSize(load[n].target, CurrentMinute)
  <2>1. load' \in [Node -> Load \cup {None}]
    BY <1>2, <1>3, <1>4, <1>5, <1>6, <1>7
  <2> QED BY <1>3, <2>1
<1>9. ASSUME ~Loads(n), load'[n] # None
      PROVE  \/ /\ load'[n].target = CurrentMinute
                /\ load'[n].count = SampleSize(LastTimestamp(Own(n)), CurrentMinute)
             \/ /\ load[n] # None
                /\ load'[n].target = load[n].target /\ load'[n].count = load[n].count
  BY <1>2, <1>3, <1>4, <1>5, <1>6, <1>7, <1>9
<1>10. load'[n] # None => ~Restart(n)
  BY <1>5
<1> QED BY <1>8, <1>9, <1>10

LEMMA TypeStep ==
  ASSUME TypeOK, CacheSize <= CurrentMinute, LoadsFollowOwn, [Next]_vars
  PROVE  TypeOK'
<1>1. now' \in 0..MaxTime
  BY TimeStep
<1>2. load' \in [Node -> Load \cup {None}]
  <2>1. CASE Node = {}
    BY <2>1 DEF Next, Channels, Tick, vars, TypeOK
  <2>2. CASE Node # {}
    BY <2>2, LoadStepShape
  <2> QED BY <2>1, <2>2
<1>3. \A k \in 0..MaxFaults : k < MaxFaults => k + 1 \in 0..MaxFaults
  BY LimitAssumption
<1>4. ASSUME NEW n \in Node, LoadTradesData(n) PROVE TypeOK'
  BY <1>1, <1>2, <1>4 DEF LoadTradesData, TypeOK
<1>5. ASSUME NEW n \in Node, Loads(n) PROVE TypeOK'
  <2>1. PICK batch \in Data : Take(n, n, batch) /\ Send(n, Connected(n), batch)
    BY <1>5, FinishShape
  <2>2. /\ trades' \in [Node -> [Node -> Data]]
        /\ item' \in [Node -> [Minutes -> SyncItem \cup {None}]]
        /\ queue' \in [Channels -> Seq(Data)]
    BY <2>1, TakeShape, SendShape
  <2>3. due' = due /\ link' = link /\ restarted' = restarted
    BY <1>5, FinishShape
  <2>4. short' \subseteq Node /\ faults' \in 0..MaxFaults
    BY <1>3, <1>5 DEF Loads, FinishLoad, FinishShort, Fault, TypeOK
  <2> QED BY <1>1, <1>2, <2>2, <2>3, <2>4 DEF TypeOK
<1>6. ASSUME NEW n \in Node, FailLoad(n) PROVE TypeOK'
  BY <1>1, <1>2, <1>3, <1>6 DEF FailLoad, Fault, TypeOK
<1>7. ASSUME NEW n \in Node, WaitStep(n) PROVE TypeOK'
  <2>1. item' \in [Node -> [Minutes -> SyncItem \cup {None}]]
    <3>1. ASSUME NEW m \in Minutes, GetTradesData(n, m)
          PROVE  item' \in [Node -> [Minutes -> SyncItem \cup {None}]]
      <4>1. NewItem \in SyncItem
        BY DEF NewItem, SyncItem
      <4> QED BY <3>1, <4>1 DEF GetTradesData, TypeOK
    <3>2. ASSUME NEW m \in Minutes, SyncTimeout(n, m)
          PROVE  item' \in [Node -> [Minutes -> SyncItem \cup {None}]]
      <4>1. item[n][m] \in SyncItem
        BY <3>2 DEF SyncTimeout, IsOverdue, TypeOK
      <4>2. PICK new : new = [item[n][m] EXCEPT !.status = "timedOut"]
        OBVIOUS
      <4>3. new \in SyncItem
        BY <4>1, <4>2 DEF SyncItem
      <4>4. item' = [item EXCEPT ![n][m] = new]
        BY <3>2, <4>2 DEF SyncTimeout, TypeOK
      <4> QED BY <4>3, <4>4 DEF TypeOK
    <3>3. CASE ClearPendingTradesData(n)
      BY <3>3 DEF ClearPendingTradesData, TypeOK
    <3> QED BY <1>7, <3>1, <3>2, <3>3 DEF WaitStep
  <2>2. UNCHANGED <<now, due, load, trades, link, queue, short, restarted, faults>>
    BY <1>7 DEF WaitStep, GetTradesData, SyncTimeout, ClearPendingTradesData
  <2> QED BY <2>1, <2>2 DEF TypeOK
<1>8. ASSUME NEW n \in Node, Restart(n) PROVE TypeOK'
  <2>1. CurrentMinute \in Nat /\ NoData \in Data
    BY TimeStep, NoDataShape
  <2>2. /\ due' \in [Node -> Nat] /\ trades' \in [Node -> [Node -> Data]]
        /\ item' \in [Node -> [Minutes -> SyncItem \cup {None}]]
    BY <1>8, <2>1 DEF Restart, TypeOK
  <2>3. link' \in [Channels -> {"down", "open", "synced"}] /\ queue' \in [Channels -> Seq(Data)]
    BY <1>8 DEF Restart, TypeOK
  <2>4. restarted' \subseteq Node /\ short' \subseteq Node /\ faults' \in 0..MaxFaults
    BY <1>3, <1>8 DEF Restart, Fault, TypeOK
  <2> QED BY <1>1, <1>2, <2>2, <2>3, <2>4 DEF TypeOK
<1>9. ASSUME NEW c \in Channels, ReceiveSync(c) PROVE TypeOK'
  <2>1. /\ queue[c] # <<>> /\ queue' = [queue EXCEPT ![c] = Tail(queue[c])]
        /\ Take(c[2], c[1], Head(queue[c]))
        /\ UNCHANGED <<now, due, load, link, short, restarted, faults>>
    BY <1>9 DEF ReceiveSync
  <2>2. Head(queue[c]) \in Data /\ Tail(queue[c]) \in Seq(Data)
    <3>1. queue[c] \in Seq(Data)
      BY DEF TypeOK
    <3> QED BY <2>1, <3>1
  <2>3. c[1] \in Node /\ c[2] \in Node
    BY DEF Channels
  <2>4. /\ trades' \in [Node -> [Node -> Data]]
        /\ item' \in [Node -> [Minutes -> SyncItem \cup {None}]]
    BY <2>1, <2>2, <2>3, TakeShape
  <2>5. queue' \in [Channels -> Seq(Data)]
    BY <2>1, <2>2 DEF TypeOK
  <2> QED BY <2>1, <2>4, <2>5 DEF TypeOK
<1>10. ASSUME NEW c \in Channels, Disconnect(c) PROVE TypeOK'
  <2>1. link' \in [Channels -> {"down", "open", "synced"}] /\ queue' \in [Channels -> Seq(Data)]
    BY <1>10 DEF Disconnect, TypeOK
  <2>2. faults' \in 0..MaxFaults
    BY <1>3, <1>10 DEF Disconnect, Fault, TypeOK
  <2> QED BY <1>10, <2>1, <2>2 DEF Disconnect, TypeOK
<1>11. ASSUME NEW c \in Channels, PeerReady(c) PROVE TypeOK'
  <2>1. AllData(c[1]) \in Data
    BY OwnType DEF AllData, Channels
  <2>2. queue' \in [Channels -> Seq(Data)]
    BY <1>11, <2>1, SendShape DEF PeerReady
  <2>3. link' \in [Channels -> {"down", "open", "synced"}]
    BY <1>11 DEF PeerReady, TypeOK
  <2> QED BY <1>11, <2>2, <2>3 DEF PeerReady, TypeOK
<1>12. ASSUME NEW c \in Channels, Connect(c) PROVE TypeOK'
  <2>1. link' \in [Channels -> {"down", "open", "synced"}]
    BY <1>12 DEF Connect, TypeOK
  <2> QED BY <1>12, <2>1 DEF Connect, TypeOK
<1>13. CASE Tick
  BY <1>1, <1>13 DEF Tick, TypeOK
<1>14. CASE UNCHANGED vars
  BY <1>14 DEF vars, TypeOK
<1> QED
  BY <1>4, <1>5, <1>6, <1>7, <1>8, <1>9, <1>10, <1>11, <1>12, <1>13, <1>14
  DEF Next, LoadStep, Loads, ChannelStep

-----------------------------------------------------------------------------
(* The own data and its copies *)

(* What becomes of the own data when the minutes from..to, all after its    *)
(* last one, are pushed into it                                            *)
LEMMA OwnPush ==
  ASSUME NEW own \in Data, NEW batch \in Data, NEW from \in Nat, NEW to \in Nat,
         Cached(batch) = from..to, from <= to, to - from + 1 <= CacheSize,
         LastTimestamp(own) < from,
         NEW next, next = Push(own, batch)
  PROVE  /\ next \in Data /\ LastTimestamp(next) = to
         /\ \A m \in from..to : m \in Cached(next) /\ next[m] = batch[m]
         /\ \A m \in Cached(next) :
               \/ m \in from..to
               \/ m \in Cached(own) /\ m < from /\ next[m] = own[m]
         /\ \A m \in Cached(next), k \in Cached(own) : k >= m => k \in Cached(next)
         /\ \A m \in Cached(next) : Cardinality(After(Cached(next), m)) <= Heartbeat
         /\ \A m \in Cached(own) : to - CacheSize < m => m \in Cached(next)
<1>1. PICK both : both = Both(own, batch)
  OBVIOUS
<1>2. /\ next \in Data /\ both \in SUBSET Minutes
      /\ \A m \in Cached(next) :
            /\ next[m] = IF batch[m] # None THEN batch[m] ELSE own[m]
            /\ m \in both /\ Cardinality(After(both, m)) <= Heartbeat
      /\ \A m \in both : Cardinality(After(both, m)) <= Heartbeat =>
            /\ next[m] = IF batch[m] # None THEN batch[m] ELSE own[m]
            /\ m \in Cached(next)
  BY <1>1, PushShape
<1>3. /\ \A m \in Cached(own) : m \in Nat /\ m < from /\ batch[m] = None
      /\ \A m \in from..to : m \in Nat /\ batch[m] # None
  <2>1. /\ Cached(own) \subseteq Minutes
        /\ \A m \in Cached(own) : m \in Nat /\ m < from
    BY LastShape
  <2>2. \A m \in from..to : m \in Nat /\ m >= from /\ batch[m] # None
    BY DEF Cached
  <2>3. \A m \in Cached(own) : m \notin from..to
    BY <2>1
  <2>4. \A m \in Minutes : m \notin from..to => batch[m] = None
    BY DEF Cached
  <2> QED BY <2>1, <2>2, <2>3, <2>4
<1>4. \A m \in both : m \in Nat /\ m <= to
  BY <1>1, <1>3 DEF Both
<1>5. \A m \in both : m \in Int /\ Cardinality(After(both, m)) \in Nat
  BY <1>2, <1>4, CountIsNat
<1>6. \A m \in both : to - CacheSize < m => m \in Cached(next)
  <2> SUFFICES ASSUME NEW m \in both, to - CacheSize < m
               PROVE  Cardinality(After(both, m)) <= Heartbeat
    BY <1>2
  <2>1. Cardinality(After(both, m)) <= to - m + 1
    BY <1>2, <1>4, CountToLast
  <2> QED BY <1>4, <1>5, <2>1, TimeAssumption
<1>7. \A m \in from..to : m \in both /\ to - CacheSize < m
  BY <1>1, TimeAssumption DEF Both
<1>8. \A m \in from..to : m \in Cached(next) /\ next[m] = batch[m]
  BY <1>2, <1>3, <1>6, <1>7
<1>9. \A m \in Cached(next) :
        \/ m \in from..to
        \/ m \in Cached(own) /\ m < from /\ next[m] = own[m]
  BY <1>1, <1>2, <1>3 DEF Both
<1>10. \A m \in Cached(next), k \in both : k >= m => k \in Cached(next)
  <2> SUFFICES ASSUME NEW m \in Cached(next), NEW k \in both, k >= m
               PROVE  Cardinality(After(both, k)) <= Heartbeat
    BY <1>2
  <2>1. m \in both /\ Cardinality(After(both, m)) <= Heartbeat
    BY <1>2
  <2>2. m \in Nat /\ k \in Nat /\ \A j \in both : j \in Nat
    BY <1>4, <2>1
  <2>3. \A j \in both : j >= k => j \in both /\ j >= m
    BY <2>2
  <2>4. Cardinality(After(both, k)) <= Cardinality(After(both, m))
    BY <1>2, <2>2, <2>3, CountIsLess
  <2> QED BY <1>5, <2>1, <2>4, TimeAssumption
<1>11. \A m \in Cached(next) : Cardinality(After(Cached(next), m)) <= Heartbeat
  <2> SUFFICES ASSUME NEW m \in Cached(next)
               PROVE  Cardinality(After(Cached(next), m)) <= Heartbeat
    OBVIOUS
  <2>1. m \in both /\ Cardinality(After(both, m)) <= Heartbeat
    BY <1>2
  <2>2. m \in Int /\ Cached(next) \in SUBSET Minutes
        /\ \A k \in Cached(next) : k >= m => k \in both /\ k >= m
    BY <1>2, <1>4, <2>1
  <2>3. /\ Cardinality(After(Cached(next), m)) <= Cardinality(After(both, m))
        /\ Cardinality(After(Cached(next), m)) \in Nat
    BY <1>2, <2>2, CountIsLess, CountIsNat
  <2> QED BY <1>5, <2>1, <2>3, TimeAssumption
<1>12. LastTimestamp(next) = to
  <2>1. to \in Cached(next)
    BY <1>8
  <2>2. \A k \in Cached(next) : k <= to
    BY <1>2, <1>4
  <2> QED BY <1>2, <2>1, <2>2, LastIs
<1>13. \A m \in Cached(own) : m \in both
  BY <1>1 DEF Both
<1> QED BY <1>2, <1>6, <1>8, <1>9, <1>10, <1>11, <1>12, <1>13

LEMMA CopiesShape ==
  ASSUME TypeOK, NEW n \in Node
  PROVE  /\ Copies(n) \subseteq Data
         /\ Own(n) \in Copies(n)
         /\ \A i \in Node : trades[i][n] \in Copies(n)
         /\ \A c \in Channels : c[1] = n => Sent(c) \subseteq Copies(n)
         /\ \A data \in Copies(n) : \/ \E i \in Node : data = trades[i][n]
                                  \/ \E c \in Channels : c[1] = n /\ data \in Sent(c)
<1>1. {n} \X (Node \ {n}) = {c \in Channels : c[1] = n}
  BY DEF Channels
<1>2. \A data : data \in Copies(n) <=>
         \/ \E i \in Node : data = trades[i][n]
         \/ \E c \in Channels : c[1] = n /\ data \in Sent(c)
  BY <1>1 DEF Copies
<1>3. \A c \in Channels : Sent(c) \subseteq Data
  BY SentType
<1>4. \A i \in Node : trades[i][n] \in Data
  BY DEF TypeOK
<1> QED BY <1>2, <1>3, <1>4 DEF Own

(* All of the data is in some copy *)
Known(n, data) ==
  \A m \in Cached(data) : \E old \in Copies(n) : m \in Cached(old) /\ old[m] = data[m]

LEMMA CopiesKnown ==
  ASSUME NEW n \in Node,
         \A i \in Node : Known(n, trades'[i][n]),
         \A c \in Channels : c[1] = n => \A data \in Sent(c)' : Known(n, data)
  PROVE  \A data \in Copies(n)' : Known(n, data)
<1>1. {n} \X (Node \ {n}) = {c \in Channels : c[1] = n}
  BY DEF Channels
<1>2. \A data \in Copies(n)' :
        \/ \E i \in Node : data = trades'[i][n]
        \/ \E c \in Channels : c[1] = n /\ data \in Sent(c)'
  BY <1>1 DEF Copies
<1> QED BY <1>2

LEMMA KnownCopies ==
  ASSUME TypeOK, NEW n \in Node
  PROVE  /\ \A data \in Copies(n) : Known(n, data)
         /\ \A i \in Node : Known(n, trades[i][n])
         /\ \A c \in Channels : c[1] = n => \A data \in Sent(c) : Known(n, data)
         /\ Known(n, NoData)
<1>1. \A data \in Copies(n) : Known(n, data)
  BY DEF Known
<1> QED BY <1>1, CopiesShape, NoDataShape DEF Known

(* As long as the own data stays as it is, whatever is passed on *)
LEMMA NodeKept ==
  ASSUME TypeOK, TypeOK', CacheSize <= CurrentMinute, LoadsFollowOwn, [Next]_vars,
         NEW n \in Node, NodeInv(n), ~Loads(n), Own(n)' = Own(n),
         n \notin restarted' => n \notin restarted,
         \A data \in Copies(n)' : Known(n, data)
  PROVE  NodeInv(n)'
<1>1. \A data \in Copies(n)' : \A m \in Cached(data) : m \in Nat
  BY CopiesShape, LastShape DEF Known
<1>2. CopiesArePast(n)'
  <2> SUFFICES ASSUME NEW data \in Copies(n)', NEW m \in Cached(data)
               PROVE  m <= CurrentMinute' /\ (load'[n] # None => m <= load'[n].target)
    BY DEF CopiesArePast, Cached
  <2>1. PICK old \in Copies(n) : m \in Cached(old)
    BY DEF Known
  <2>2. m <= CurrentMinute /\ (load[n] # None => m <= load[n].target)
    BY <2>1 DEF NodeInv, CopiesArePast
  <2>3. CurrentMinute \in Nat /\ CurrentMinute' \in Nat /\ CurrentMinute <= CurrentMinute'
    BY TimeStep
  <2>4. load'[n] # None => load'[n].target = CurrentMinute
                           \/ (load[n] # None /\ load'[n].target = load[n].target)
    BY LoadStepShape
  <2> QED BY <1>1, <2>2, <2>3, <2>4
<1>3. CopiesAgree(n)'
  <2> SUFFICES ASSUME n \notin restarted, NEW data \in Copies(n)', NEW m \in Cached(data),
                      NEW other \in Copies(n)'
               PROVE  /\ m <= LastTimestamp(Own(n))
                      /\ m \in Cached(other) => other[m] = data[m]
    BY CopiesShape DEF CopiesAgree, Cached
  <2>1. PICK old \in Copies(n) : m \in Cached(old) /\ old[m] = data[m]
    BY DEF Known
  <2>2. m \in Cached(other) => \E o \in Copies(n) : m \in Cached(o) /\ o[m] = other[m]
    BY DEF Known
  <2> QED BY <2>1, <2>2 DEF NodeInv, CopiesAgree
<1>4. OwnHasAll(n)'
  <2> SUFFICES ASSUME NEW m \in Cached(Own(n)), NEW data \in Copies(n)',
                      NEW k \in Cached(data), k >= m
               PROVE  k \in Cached(Own(n))
    BY DEF OwnHasAll, Cached
  <2>1. \E old \in Copies(n) : k \in Cached(old)
    BY DEF Known
  <2> QED BY <2>1 DEF NodeInv, OwnHasAll
<1>5. OwnIsTrimmed(n)' /\ OwnIsComplete(n)'
  BY ShortGrows DEF NodeInv, OwnIsTrimmed, OwnIsComplete, Cached
<1> QED BY <1>2, <1>3, <1>4, <1>5 DEF NodeInv

-----------------------------------------------------------------------------
(* A load that ends *)

(* The data of the minutes from..to lands in the own data, and on the way to *)
(* the others                                                              *)
Lands(n, from, to, batch) ==
  /\ from <= to /\ to = load[n].target /\ LastTimestamp(Own(n)) < from
  /\ Cached(batch) = from..to
  /\ LastTimestamp(Own(n)') = to /\ Own(n)' \in Data
  /\ \A m \in from..to : m \in Cached(Own(n)') /\ Own(n)'[m] = batch[m]
  /\ \A m \in Cached(Own(n)') :
        \/ m \in from..to
        \/ m \in Cached(Own(n)) /\ m < from /\ Own(n)'[m] = Own(n)[m]
  /\ \A m \in Cached(Own(n)'), k \in Cached(Own(n)) : k >= m => k \in Cached(Own(n)')
  /\ OwnIsTrimmed(n)'
  /\ \A m \in Cached(Own(n)) : to - CacheSize < m => m \in Cached(Own(n)')
  /\ n \notin short' => to - CacheSize + 1 = from \/ from = LastTimestamp(Own(n)) + 1

Spreads(n, batch) ==
  /\ Copies(n)' \subseteq Copies(n) \cup {Own(n)', batch}
  /\ \A c \in Channels :
        /\ Sent(c) \subseteq Sent(c)'
        /\ c[1] = n => Sent(c)' \subseteq Sent(c) \cup {batch}
        /\ c[1] # n => Sent(c)' = Sent(c)
        /\ c[1] = n /\ link[c] = "synced" => batch \in Sent(c)'
  /\ \A i, k \in Node : i # n \/ k # n => trades'[i][k] = trades[i][k]

LEMMA FinishCopies ==
  ASSUME TypeOK, TypeOK', LoadsFollowOwn, NEW n \in Node, Loads(n)
  PROVE  \E from, to \in Nat : \E batch \in Data : Lands(n, from, to, batch) /\ Spreads(n, batch)
<1>1. PICK count \in 1..load[n].count, batch \in Data :
         /\ Cached(batch) = load[n].target - count + 1 .. load[n].target
         /\ Take(n, n, batch) /\ Send(n, Connected(n), batch)
         /\ n \notin short' => count = load[n].count
  BY FinishShape
<1>2. load[n] # None
  BY FinishShape
<1>3. PICK from, to : to = load[n].target /\ from = load[n].target - count + 1
  OBVIOUS
<1>4. /\ LastTimestamp(Own(n)) \in Nat /\ Own(n) \in Data /\ Own(n) = trades[n][n]
      /\ Own(n)' \in Data /\ Own(n)' = trades'[n][n]
  <2>1. trades'[n][n] \in Data
    BY DEF TypeOK
  <2> QED BY <2>1, OwnType, LastShape DEF Own
<1>5. /\ to \in Nat /\ from \in Nat /\ from <= to /\ LastTimestamp(Own(n)) < from
      /\ to - from + 1 <= CacheSize
      /\ n \notin short' => to - CacheSize + 1 = from \/ from = LastTimestamp(Own(n)) + 1
  <2>1. /\ load[n].target \in Nat /\ load[n].count \in 1..CacheSize /\ load[n].count \in Nat
        /\ LastTimestamp(Own(n)) + 1 <= load[n].target - load[n].count + 1
        /\ load[n].count # CacheSize =>
              load[n].target - load[n].count + 1 = LastTimestamp(Own(n)) + 1
    BY <1>2, LoadShape
  <2>2. count \in Nat /\ 1 <= count /\ count <= load[n].count
    BY <2>1
  <2>3. PICK last \in Nat : last = LastTimestamp(Own(n))
    BY <1>4
  <2>4. /\ to \in Nat /\ from \in Nat /\ from <= to /\ last < from
        /\ to - from + 1 <= CacheSize
    BY <1>3, <2>1, <2>2, <2>3, TimeAssumption
  <2>5. ASSUME n \notin short' PROVE to - CacheSize + 1 = from \/ from = last + 1
    <3>1. from = load[n].target - load[n].count + 1
      BY <1>1, <1>3, <2>5
    <3> QED BY <1>3, <2>1, <2>3, <3>1
  <2> QED BY <2>3, <2>4, <2>5
<1>6. /\ trades'[n][n] = Push(trades[n][n], batch)
      /\ \A i, k \in Node : i # n \/ k # n => trades'[i][k] = trades[i][k]
  BY <1>1, TakeShape
<1>7. Own(n)' = Push(Own(n), batch)
  BY <1>4, <1>6
<1>8. Cached(batch) = from..to
  BY <1>1, <1>3
<1>9. PICK own, next : own = Own(n) /\ next = Own(n)'
  OBVIOUS
<1>10. /\ LastTimestamp(next) = to
       /\ \A m \in from..to : m \in Cached(next) /\ next[m] = batch[m]
       /\ \A m \in Cached(next) :
             \/ m \in from..to
             \/ m \in Cached(own) /\ m < from /\ next[m] = own[m]
       /\ \A m \in Cached(next), k \in Cached(own) : k >= m => k \in Cached(next)
       /\ \A m \in Cached(next) : Cardinality(After(Cached(next), m)) <= Heartbeat
       /\ \A m \in Cached(own) : to - CacheSize < m => m \in Cached(next)
  <2>1. own \in Data /\ LastTimestamp(own) < from /\ next = Push(own, batch)
    BY <1>4, <1>5, <1>7, <1>9
  <2> QED BY <1>5, <1>8, <2>1, OwnPush
<1>11. OwnIsTrimmed(n)'
  <2>1. \A m \in Cached(next) : Cardinality({k \in Cached(next) : k >= m}) <= Heartbeat
    BY <1>10 DEF After
  <2> QED BY <1>9, <2>1 DEF OwnIsTrimmed, Cached
<1>12. \A c \in Channels :
         /\ Sent(c) \subseteq Sent(c)' /\ Sent(c)' \subseteq Sent(c) \cup {batch}
         /\ c[1] = n /\ c[2] \in Connected(n) => batch \in Sent(c)'
         /\ ~(c[1] = n /\ c[2] \in Connected(n)) => queue'[c] = queue[c]
  BY <1>1, SendShape
<1>13. \A c \in Channels :
         /\ Sent(c) \subseteq Sent(c)'
         /\ c[1] = n => Sent(c)' \subseteq Sent(c) \cup {batch}
         /\ c[1] # n => Sent(c)' = Sent(c)
         /\ c[1] = n /\ link[c] = "synced" => batch \in Sent(c)'
  <2>1. \A c \in Channels : c[1] = n /\ link[c] = "synced" => c[2] \in Connected(n)
    BY DEF Channels, Connected
  <2> QED BY <1>12, <2>1 DEF Sent
<1>14. Copies(n)' \subseteq Copies(n) \cup {Own(n)', batch}
  <2> SUFFICES ASSUME NEW data \in Copies(n)'
               PROVE  data \in Copies(n) \cup {Own(n)', batch}
    OBVIOUS
  <2>1. CASE \E i \in Node : data = trades'[i][n]
    <3>1. PICK i \in Node : data = trades'[i][n]
      BY <2>1
    <3>2. CASE i = n
      BY <1>4, <3>1, <3>2
    <3>3. CASE i # n
      BY <1>6, <3>1, <3>3, CopiesShape
    <3> QED BY <3>2, <3>3
  <2>2. CASE \E c \in Channels : c[1] = n /\ data \in Sent(c)'
    BY <1>13, <2>2, CopiesShape
  <2>3. {n} \X (Node \ {n}) = {c \in Channels : c[1] = n}
    BY DEF Channels
  <2>4. \/ \E i \in Node : data = trades'[i][n]
        \/ \E c \in Channels : c[1] = n /\ data \in Sent(c)'
    BY <2>3 DEF Copies
  <2> QED BY <2>1, <2>2, <2>4
<1>15. Lands(n, from, to, batch)
  BY <1>3, <1>4, <1>5, <1>8, <1>9, <1>10, <1>11 DEF Lands
<1>16. Spreads(n, batch)
  BY <1>6, <1>13, <1>14 DEF Spreads
<1> QED BY <1>1, <1>5, <1>15, <1>16

(* The own data and its copies after a load that ended *)
LEMMA FinishNode ==
  ASSUME TypeOK, TypeOK', CacheSize <= CurrentMinute, LoadsFollowOwn, [Next]_vars,
         NEW n \in Node, NodeInv(n), Loads(n)
  PROVE  NodeInv(n)'
<1>1. PICK from, to \in Nat, batch \in Data :
         Lands(n, from, to, batch) /\ Spreads(n, batch)
  BY FinishCopies
<1>2. PICK own, next : own = Own(n) /\ next = Own(n)'
  OBVIOUS
<1>3. PICK last \in Nat : last = LastTimestamp(own)
  BY <1>2, OwnType, LastShape
<1>4. /\ from <= to /\ to = load[n].target /\ last < from /\ Cached(batch) = from..to
      /\ LastTimestamp(next) = to /\ own \in Data /\ next \in Data
      /\ \A m \in from..to : m \in Cached(next) /\ next[m] = batch[m]
      /\ \A m \in Cached(next) :
            m \in from..to \/ (m \in Cached(own) /\ m < from /\ next[m] = own[m])
      /\ \A m \in Cached(next), k \in Cached(own) : k >= m => k \in Cached(next)
      /\ \A m \in Cached(own) : to - CacheSize < m => m \in Cached(next)
      /\ n \notin short' => to - CacheSize + 1 = from \/ from = last + 1
  BY <1>1, <1>2, <1>3, OwnType DEF Lands
<1>5. Copies(n)' \subseteq Copies(n) \cup {next, batch} /\ own \in Copies(n)
  BY <1>1, <1>2, CopiesShape DEF Spreads
<1>6. /\ to <= CurrentMinute /\ CurrentMinute \in Nat /\ CurrentMinute' \in Nat
      /\ CurrentMinute <= CurrentMinute'
      /\ load'[n] # None => load'[n].target = CurrentMinute
  BY <1>4, TimeStep, LoadStepShape, FinishShape DEF LoadsFollowOwn
<1>7. \A data \in Copies(n) : \A m \in Cached(data) : m \in Nat /\ m <= to
  BY <1>4, <1>6, FinishShape, CopiesShape, LastShape DEF NodeInv, CopiesArePast
(* What is cached comes from an old copy, or from the load *)
<1>8. \A data \in Copies(n)' : \A m \in Cached(data) :
         \/ \E old \in Copies(n) : m \in Cached(old) /\ old[m] = data[m]
         \/ m \in from..to /\ data[m] = batch[m]
  BY <1>4, <1>5
<1>9. \A data \in Copies(n)' : \A m \in Cached(data) : m \in Nat /\ m <= to
  BY <1>4, <1>7, <1>8
<1>10. CopiesArePast(n)'
  <2> SUFFICES ASSUME NEW data \in Copies(n)', NEW m \in Cached(data)
               PROVE  m <= CurrentMinute' /\ (load'[n] # None => m <= load'[n].target)
    BY DEF CopiesArePast, Cached
  <2> QED BY <1>6, <1>9
<1>11. CopiesAgree(n)'
  <2>1. n \notin restarted' => n \notin restarted
    BY FinishShape
  <2> SUFFICES ASSUME n \notin restarted, NEW data \in Copies(n)', NEW m \in Cached(data),
                      NEW other \in Copies(n)'
               PROVE  /\ m <= LastTimestamp(next)
                      /\ m \in Cached(other) => other[m] = data[m]
    BY <1>2, <2>1 DEF CopiesAgree, Cached
  <2>2. m <= LastTimestamp(next)
    BY <1>4, <1>9
  <2>3. \A old \in Copies(n) : \A k \in Cached(old) :
          /\ k <= last
          /\ \A o \in Copies(n) : k \in Cached(o) => o[k] = old[k]
    BY <1>2, <1>3 DEF NodeInv, CopiesAgree
  <2>4. m \in Nat
    BY <1>9
  <2>5. CASE m \in from..to
    <3>1. \A old \in Copies(n) : m \notin Cached(old)
      BY <1>4, <2>3, <2>5
    <3>2. data[m] = batch[m]
      BY <1>8, <3>1
    <3>3. m \in Cached(other) => other[m] = batch[m]
      BY <1>8, <3>1
    <3> QED BY <2>2, <3>2, <3>3
  <2>6. CASE m \notin from..to
    <3>1. PICK old \in Copies(n) : m \in Cached(old) /\ old[m] = data[m]
      BY <1>8, <2>6
    <3>2. m \in Cached(other) => \E o \in Copies(n) : m \in Cached(o) /\ o[m] = other[m]
      BY <1>8, <2>6
    <3> QED BY <2>2, <2>3, <3>1, <3>2
  <2> QED BY <2>5, <2>6
<1>12. OwnHasAll(n)'
  <2> SUFFICES ASSUME NEW m \in Cached(next), NEW data \in Copies(n)',
                      NEW k \in Cached(data), k >= m
               PROVE  k \in Cached(next)
    BY <1>2 DEF OwnHasAll, Cached
  <2>1. k \in Nat /\ k <= to
    BY <1>9
  <2>2. CASE m \in from..to
    BY <1>4, <2>1, <2>2
  <2>3. CASE m \in Cached(own) /\ data \in Copies(n)
    BY <1>2, <1>4, <2>3 DEF NodeInv, OwnHasAll
  <2>4. CASE data = batch \/ data = next
    BY <1>4, <2>4
  <2> QED BY <1>4, <1>5, <2>2, <2>3, <2>4
<1>13. OwnIsTrimmed(n)'
  BY <1>1 DEF Lands
<1>14. OwnIsComplete(n)'
  <2> SUFFICES ASSUME n \notin short', NEW m \in Minutes, to - CacheSize < m, m <= to
               PROVE  next[m] # None
    BY <1>2, <1>4 DEF OwnIsComplete
  <2>1. \A k \in Minutes : last - CacheSize < k /\ k <= last => own[k] # None
    BY <1>2, <1>3, ShortGrows DEF NodeInv, OwnIsComplete
  <2>2. m \in Nat
    BY MinutesShape
  <2>3. CASE m >= from
    BY <1>4, <2>2, <2>3 DEF Cached
  <2>4. CASE m < from
    <3>1. last - CacheSize < m /\ m <= last
      BY <1>4, <2>2, <2>4, TimeAssumption
    <3>2. m \in Cached(own)
      BY <2>1, <3>1 DEF Cached
    <3> QED BY <1>4, <3>2 DEF Cached
  <2> QED BY <2>2, <2>3, <2>4
<1> QED BY <1>10, <1>11, <1>12, <1>13, <1>14 DEF NodeInv

-----------------------------------------------------------------------------
(* The invariant of a node's data, step by step *)

(* What is taken off the queue *)
LEMMA ReceiveShape ==
  ASSUME TypeOK, NEW c \in Channels, ReceiveSync(c)
  PROVE  \E batch \in Sent(c) :
           /\ batch \in Data /\ batch = Head(queue[c]) /\ Take(c[2], c[1], batch)
           /\ Sent(c) \subseteq Sent(c)' \cup {batch}
           /\ Sent(c)' \subseteq Sent(c)
           /\ \A d \in Channels \ {c} : queue'[d] = queue[d] /\ Sent(d)' = Sent(d)
           /\ UNCHANGED <<now, due, load, link, short, restarted, faults>>
<1>1. /\ queue[c] # <<>> /\ queue' = [queue EXCEPT ![c] = Tail(queue[c])]
      /\ Take(c[2], c[1], Head(queue[c]))
      /\ UNCHANGED <<now, due, load, link, short, restarted, faults>>
  BY DEF ReceiveSync
<1>2. queue[c] \in Seq(Data) /\ queue'[c] = Tail(queue[c])
  BY <1>1 DEF TypeOK
<1>3. PICK q : q = queue[c]
  OBVIOUS
<1>4. q \in Seq(Data) /\ q # <<>>
  BY <1>1, <1>2, <1>3
<1>5. /\ DOMAIN q = 1..Len(q) /\ Len(q) \in Nat /\ Len(q) >= 1
      /\ DOMAIN Tail(q) = 1..(Len(q) - 1)
      /\ \A x \in 1..(Len(q) - 1) : Tail(q)[x] = q[x + 1]
      /\ Head(q) = q[1] /\ Head(q) \in Data
  BY <1>4
<1>6. \A x \in DOMAIN q : x # 1 => x - 1 \in DOMAIN Tail(q) /\ q[x] = Tail(q)[x - 1]
  BY <1>5
<1>7. \A x \in DOMAIN Tail(q) : x + 1 \in DOMAIN q /\ q[x + 1] = Tail(q)[x]
  BY <1>5
<1>8. 1 \in DOMAIN q /\ q[1] = Head(q)
  BY <1>5
<1>9. Sent(c) = {q[x] : x \in DOMAIN q} /\ Sent(c)' = {Tail(q)[x] : x \in DOMAIN Tail(q)}
  BY <1>2, <1>3 DEF Sent
<1>10. /\ Head(q) \in Sent(c) /\ Sent(c)' \subseteq Sent(c)
       /\ Sent(c) \subseteq Sent(c)' \cup {Head(q)}
  BY <1>6, <1>7, <1>8, <1>9
<1>11. \A d \in Channels \ {c} : queue'[d] = queue[d] /\ Sent(d)' = Sent(d)
  BY <1>1 DEF TypeOK, Sent
<1> QED BY <1>1, <1>3, <1>5, <1>10, <1>11

LEMMA ReceiveKnown ==
  ASSUME TypeOK, NEW c \in Channels, ReceiveSync(c), NEW n \in Node
  PROVE  Own(n)' = Own(n) /\ \A data \in Copies(n)' : Known(n, data)
<1>1. PICK batch \in Sent(c) :
         /\ batch \in Data /\ Take(c[2], c[1], batch) /\ Sent(c)' \subseteq Sent(c)
         /\ \A d \in Channels \ {c} : Sent(d)' = Sent(d)
  BY ReceiveShape
<1>2. c[1] \in Node /\ c[2] \in Node /\ c[1] # c[2]
  BY DEF Channels
<1>3. /\ trades'[c[2]][c[1]] = Push(trades[c[2]][c[1]], batch)
      /\ \A i, k \in Node : i # c[2] \/ k # c[1] => trades'[i][k] = trades[i][k]
  BY <1>1, <1>2, TakeShape
<1>4. Own(n)' = Own(n)
  BY <1>2, <1>3 DEF Own
<1>5. \A i \in Node : Known(n, trades'[i][n])
  <2> SUFFICES ASSUME NEW i \in Node PROVE Known(n, trades'[i][n])
    OBVIOUS
  <2>1. CASE i # c[2] \/ n # c[1]
    BY <1>3, <2>1, KnownCopies
  <2>2. CASE i = c[2] /\ n = c[1]
    <3>1. PICK data, next : data = trades[i][n] /\ next = Push(data, batch)
      OBVIOUS
    <3>2. /\ data \in Copies(n) /\ batch \in Copies(n) /\ data \in Data
          /\ trades'[i][n] = next
      BY <1>1, <1>3, <2>2, <3>1, CopiesShape
    <3>3. \A m \in Cached(next) :
            /\ m \in Both(data, batch)
            /\ next[m] = IF batch[m] # None THEN batch[m] ELSE data[m]
      BY <1>1, <3>1, <3>2, PushShape
    <3>4. \A m \in Both(data, batch) :
            IF batch[m] # None THEN m \in Cached(batch) ELSE m \in Cached(data)
      BY <1>1, <3>2 DEF Both, Cached, Data
    <3> QED BY <3>2, <3>3, <3>4 DEF Known
  <2> QED BY <2>1, <2>2
<1>6. \A d \in Channels : d[1] = n => \A data \in Sent(d)' : Known(n, data)
  BY <1>1, KnownCopies
<1> QED BY <1>4, <1>5, <1>6, CopiesKnown

LEMMA DisconnectShape ==
  ASSUME TypeOK, NEW c \in Channels, Disconnect(c)
  PROVE  /\ link'[c] = "down" /\ \A d \in Channels \ {c} : link'[d] = link[d]
         /\ queue'[c] = <<>> /\ Sent(c)' = {}
         /\ \A d \in Channels \ {c} : queue'[d] = queue[d] /\ Sent(d)' = Sent(d)
         /\ UNCHANGED <<now, due, load, trades, item, short, restarted>>
<1>1. queue'[c] = <<>> /\ \A d \in Channels \ {c} : queue'[d] = queue[d]
  BY DEF Disconnect, TypeOK
<1>2. Sent(c)' = {} /\ \A d \in Channels \ {c} : Sent(d)' = Sent(d)
  BY <1>1 DEF Sent
<1> QED BY <1>1, <1>2 DEF Disconnect, TypeOK

LEMMA PeerReadyShape ==
  ASSUME TypeOK, NEW c \in Channels, PeerReady(c)
  PROVE  /\ link'[c] = "synced" /\ \A d \in Channels \ {c} : link'[d] = link[d]
         /\ Own(c[1]) \in Sent(c)' /\ Sent(c)' \subseteq Sent(c) \cup {Own(c[1])}
         /\ \A d \in Channels \ {c} : queue'[d] = queue[d] /\ Sent(d)' = Sent(d)
         /\ UNCHANGED <<now, due, load, trades, item, short, restarted, faults>>
<1>1. AllData(c[1]) = Own(c[1]) /\ Own(c[1]) \in Data
  BY OwnType DEF AllData, Own, Channels
<1>2. \A d \in Channels \ {c} : ~(d[1] = c[1] /\ d[2] \in {c[2]})
  BY DEF Channels
<1>3. Own(c[1]) \in Sent(c)' /\ Sent(c)' \subseteq Sent(c) \cup {Own(c[1])}
      /\ \A d \in Channels \ {c} : queue'[d] = queue[d]
  BY <1>1, <1>2, SendShape DEF PeerReady
<1>4. \A d \in Channels \ {c} : Sent(d)' = Sent(d)
  BY <1>3 DEF Sent
<1> QED BY <1>3, <1>4 DEF PeerReady, TypeOK

LEMMA ConnectShape ==
  ASSUME TypeOK, NEW c \in Channels, Connect(c)
  PROVE  /\ link'[c] = "open" /\ \A d \in Channels \ {c} : link'[d] = link[d]
         /\ \A d \in Channels : Sent(d)' = Sent(d)
         /\ UNCHANGED <<now, due, load, trades, item, queue, short, restarted, faults>>
BY DEF Connect, Sent, TypeOK

LEMMA RestartShape ==
  ASSUME TypeOK, NEW n \in Node, Restart(n)
  PROVE  /\ restarted' = restarted \cup {n} /\ load'[n] = None
         /\ \A k \in Node : trades'[n][k] = NoData
         /\ \A i \in Node \ {n}, k \in Node : trades'[i][k] = trades[i][k]
         /\ \A m \in Minutes : item'[n][m] = None
         /\ \A i \in Node \ {n} : item'[i] = item[i]
         /\ \A c \in Channels : IF n \in {c[1], c[2]}
                                THEN link'[c] = "down" /\ Sent(c)' = {}
                                ELSE link'[c] = link[c] /\ queue'[c] = queue[c]
                                     /\ Sent(c)' = Sent(c)
         /\ now' = now
<1>1. \A c \in Channels : IF n \in {c[1], c[2]} THEN queue'[c] = <<>>
                          ELSE queue'[c] = queue[c]
  BY DEF Restart
<1>2. \A c \in Channels : IF n \in {c[1], c[2]} THEN Sent(c)' = {}
                          ELSE Sent(c)' = Sent(c)
  BY <1>1 DEF Sent
<1> QED BY <1>1, <1>2 DEF Restart, TypeOK

LEMMA RestartNode ==
  ASSUME TypeOK, TypeOK', CacheSize <= CurrentMinute, LoadsFollowOwn, [Next]_vars,
         NEW n \in Node, NodeInv(n), Restart(n)
  PROVE  NodeInv(n)'
<1>1. /\ n \in restarted' /\ load'[n] = None /\ now' = now
      /\ \A k \in Node : trades'[n][k] = NoData
      /\ \A i \in Node \ {n}, k \in Node : trades'[i][k] = trades[i][k]
      /\ \A c \in Channels : c[1] = n => Sent(c)' = {}
  BY RestartShape
<1>2. Own(n)' = NoData /\ Cached(NoData) = {} /\ NoData \in Data
      /\ LastTimestamp(NoData) = 0
  BY <1>1, NoDataShape, LastShape DEF Own
<1>3. \A i \in Node : Known(n, trades'[i][n])
  BY <1>1, KnownCopies
<1>4. \A data \in Copies(n)' : Known(n, data)
  BY <1>1, <1>3, CopiesKnown
<1>5. CopiesArePast(n)'
  <2> SUFFICES ASSUME NEW data \in Copies(n)', NEW m \in Cached(data)
               PROVE  m <= CurrentMinute
    BY <1>1 DEF CopiesArePast, Cached, CurrentMinute
  <2> QED BY <1>4 DEF Known, NodeInv, CopiesArePast
<1>6. CopiesAgree(n)'
  BY <1>1 DEF CopiesAgree
<1>7. OwnHasAll(n)'
  <2>1. \A m : m \notin Cached(Own(n)')
    BY <1>2
  <2> QED BY <2>1 DEF OwnHasAll, Cached
<1>8. OwnIsTrimmed(n)'
  <2>1. \A m : m \notin Cached(Own(n)')
    BY <1>2
  <2> QED BY <2>1 DEF OwnIsTrimmed, Cached
<1>9. OwnIsComplete(n)'
  <2>1. LastTimestamp(Own(n)') = 0
    BY <1>2
  <2>2. \A m \in Minutes : ~(m <= 0)
    BY MinutesShape
  <2> QED BY <2>1, <2>2 DEF OwnIsComplete
<1> QED BY <1>5, <1>6, <1>7, <1>8, <1>9 DEF NodeInv

LEMMA NodeStep ==
  ASSUME TypeOK, TypeOK', Inv, [Next]_vars, NEW n \in Node
  PROVE  NodeInv(n)'
<1>1. CacheSize <= CurrentMinute /\ LoadsFollowOwn /\ NodeInv(n)
  BY DEF Inv
<1>2. CASE Loads(n)
  BY <1>1, <1>2, FinishNode
<1>3. CASE Restart(n)
  BY <1>1, <1>3, RestartNode
<1>4. CASE ~Loads(n) /\ ~Restart(n)
  <2>1. SUFFICES /\ Own(n)' = Own(n) /\ (n \notin restarted' => n \notin restarted)
                 /\ \A data \in Copies(n)' : Known(n, data)
    BY <1>1, <1>4, NodeKept
  <2>2. ASSUME NEW k \in Node, Loads(k)
        PROVE  /\ Own(n)' = Own(n) /\ restarted' = restarted
               /\ \A data \in Copies(n)' : Known(n, data)
    <3>1. k # n /\ restarted' = restarted
      BY <1>4, <2>2, FinishShape, <1>1
    <3>2. /\ \A c \in Channels : c[1] # k => Sent(c)' = Sent(c)
          /\ \A i, j \in Node : i # k \/ j # k => trades'[i][j] = trades[i][j]
      BY <1>1, <2>2, FinishCopies DEF Spreads
    <3>3. Own(n)' = Own(n)
      BY <3>1, <3>2 DEF Own
    <3>4. \A i \in Node : Known(n, trades'[i][n])
      BY <3>1, <3>2, KnownCopies
    <3>5. \A c \in Channels : c[1] = n => \A data \in Sent(c)' : Known(n, data)
      BY <3>1, <3>2, KnownCopies
    <3> QED BY <3>1, <3>3, <3>4, <3>5, CopiesKnown
  <2>3. ASSUME NEW k \in Node, Restart(k)
        PROVE  /\ Own(n)' = Own(n) /\ (n \notin restarted' => n \notin restarted)
               /\ \A data \in Copies(n)' : Known(n, data)
    <3>1. k # n
      BY <1>4, <2>3
    <3>2. /\ restarted' = restarted \cup {k}
          /\ \A j \in Node : trades'[k][j] = NoData
          /\ \A i \in Node \ {k}, j \in Node : trades'[i][j] = trades[i][j]
          /\ \A c \in Channels : Sent(c)' = {} \/ Sent(c)' = Sent(c)
      BY <2>3, RestartShape
    <3>3. Own(n)' = Own(n)
      BY <3>1, <3>2 DEF Own
    <3>4. \A i \in Node : Known(n, trades'[i][n])
      BY <3>2, KnownCopies
    <3>5. \A c \in Channels : c[1] = n => \A data \in Sent(c)' : Known(n, data)
      BY <3>2, KnownCopies
    <3> QED BY <3>2, <3>3, <3>4, <3>5, CopiesKnown
  <2>4. ASSUME NEW c \in Channels, ReceiveSync(c)
        PROVE  /\ Own(n)' = Own(n) /\ restarted' = restarted
               /\ \A data \in Copies(n)' : Known(n, data)
    BY <2>4, ReceiveKnown DEF ReceiveSync
  <2>5. ASSUME NEW c \in Channels, Disconnect(c)
        PROVE  /\ Own(n)' = Own(n) /\ restarted' = restarted
               /\ \A data \in Copies(n)' : Known(n, data)
    <3>1. /\ trades' = trades /\ restarted' = restarted
          /\ \A d \in Channels : Sent(d)' = {} \/ Sent(d)' = Sent(d)
      BY <2>5, DisconnectShape
    <3>2. \A i \in Node : Known(n, trades'[i][n])
      BY <3>1, KnownCopies
    <3>3. \A d \in Channels : d[1] = n => \A data \in Sent(d)' : Known(n, data)
      BY <3>1, KnownCopies
    <3> QED BY <3>1, <3>2, <3>3, CopiesKnown DEF Own
  <2>6. ASSUME NEW c \in Channels, PeerReady(c)
        PROVE  /\ Own(n)' = Own(n) /\ restarted' = restarted
               /\ \A data \in Copies(n)' : Known(n, data)
    <3>1. /\ trades' = trades /\ restarted' = restarted
          /\ Sent(c)' \subseteq Sent(c) \cup {Own(c[1])}
          /\ \A d \in Channels \ {c} : Sent(d)' = Sent(d)
      BY <2>6, PeerReadyShape
    <3>2. \A i \in Node : Known(n, trades'[i][n])
      BY <3>1, KnownCopies
    <3>3. Known(n, Own(n))
      BY KnownCopies, CopiesShape
    <3>4. \A d \in Channels : d[1] = n => \A data \in Sent(d)' : Known(n, data)
      BY <3>1, <3>3, KnownCopies
    <3> QED BY <3>1, <3>2, <3>4, CopiesKnown DEF Own
  <2>7. ASSUME UNCHANGED <<trades, queue, restarted>>
        PROVE  /\ Own(n)' = Own(n) /\ restarted' = restarted
               /\ \A data \in Copies(n)' : Known(n, data)
    <3>1. Copies(n)' = Copies(n) /\ Own(n)' = Own(n)
      BY <2>7 DEF Copies, Sent, Own
    <3> QED BY <2>7, <3>1, KnownCopies
  <2> QED
    BY <2>2, <2>3, <2>4, <2>5, <2>6, <2>7
    DEF Next, LoadStep, Loads, LoadTradesData, FailLoad, WaitStep, GetTradesData, SyncTimeout,
        ClearPendingTradesData, ChannelStep, Connect, Tick, vars
<1> QED BY <1>2, <1>3, <1>4

(* Only a load and a restart change the own data. *)
LEMMA OwnKept ==
  ASSUME TypeOK, LoadsFollowOwn, [Next]_vars, NEW n \in Node, ~Loads(n), ~Restart(n)
  PROVE  Own(n)' = Own(n)
<1>1. ASSUME NEW k \in Node, Loads(k) PROVE Own(n)' = Own(n)
  <2>1. PICK batch \in Data : Take(k, k, batch)
    BY <1>1, FinishShape
  <2>2. k # n
    BY <1>1
  <2> QED BY <2>1, <2>2, TakeShape DEF Own
<1>2. ASSUME NEW k \in Node, Restart(k) PROVE Own(n)' = Own(n)
  <2>1. k # n
    BY <1>2
  <2> QED BY <1>2, <2>1, RestartShape DEF Own
<1>3. ASSUME NEW c \in Channels, ReceiveSync(c) PROVE Own(n)' = Own(n)
  BY <1>3, ReceiveKnown
<1>4. ASSUME UNCHANGED trades PROVE Own(n)' = Own(n)
  BY <1>4 DEF Own
<1> QED
  BY <1>1, <1>2, <1>3, <1>4
  DEF Next, LoadStep, Loads, LoadTradesData, FailLoad, WaitStep, GetTradesData, SyncTimeout,
      ClearPendingTradesData, ChannelStep, Disconnect, Connect, PeerReady, Tick, vars

LEMMA LoadsStep ==
  ASSUME TypeOK, TypeOK', Inv, [Next]_vars
  PROVE  LoadsFollowOwn'
<1>1. CacheSize <= CurrentMinute /\ LoadsFollowOwn
  BY DEF Inv
<1>2. /\ CurrentMinute \in Nat /\ CurrentMinute' \in Nat
      /\ CurrentMinute <= CurrentMinute'
  BY <1>1, TimeStep
<1> SUFFICES ASSUME NEW n \in Node, load'[n] # None
             PROVE  /\ load'[n].count = SampleSize(LastTimestamp(Own(n)'), load'[n].target)
                    /\ load'[n].target <= CurrentMinute'
  BY DEF LoadsFollowOwn
<1>3. CASE Loads(n)
  <2>1. /\ load'[n].target = CurrentMinute
        /\ load'[n].count = SampleSize(load[n].target, CurrentMinute)
    BY <1>1, <1>3, LoadStepShape
  <2>2. LastTimestamp(Own(n)') = load[n].target
    BY <1>1, <1>3, FinishCopies DEF Lands
  <2> QED BY <1>2, <2>1, <2>2
<1>4. CASE ~Loads(n)
  <2>1. /\ ~Restart(n)
        /\ \/ /\ load'[n].target = CurrentMinute
              /\ load'[n].count = SampleSize(LastTimestamp(Own(n)), CurrentMinute)
           \/ /\ load[n] # None
              /\ load'[n].target = load[n].target /\ load'[n].count = load[n].count
    BY <1>1, <1>4, LoadStepShape
  <2>2. Own(n)' = Own(n)
    BY <1>1, <1>4, <2>1, OwnKept
  <2>3. load[n] # None => /\ load[n].count = SampleSize(LastTimestamp(Own(n)), load[n].target)
                          /\ load[n].target <= CurrentMinute /\ load[n].target \in Nat
    BY <1>1, LoadShape DEF LoadsFollowOwn
  <2> QED BY <1>2, <2>1, <2>2, <2>3
<1> QED BY <1>3, <1>4

-----------------------------------------------------------------------------
(* The invariant of a connection, step by step *)

LEMMA SentKept ==
  ASSUME TypeOK, NEW c \in Channels, SentIsOwn(c), Own(c[1])' = Own(c[1]),
         Sent(c)' \subseteq Sent(c) \cup {Own(c[1])}
  PROVE  SentIsOwn(c)'
<1>1. Own(c[1]) \in Data
  BY OwnType DEF Channels
<1>2. \A m \in Cached(Own(c[1])) : m <= LastTimestamp(Own(c[1]))
  BY <1>1, LastShape
<1> SUFFICES ASSUME NEW data \in Sent(c)', NEW m \in Cached(data)
             PROVE  /\ m <= LastTimestamp(Own(c[1]))
                    /\ m \in Cached(Own(c[1])) => data[m] = Own(c[1])[m]
  BY DEF SentIsOwn, Cached
<1> QED BY <1>2 DEF SentIsOwn

LEMMA LackingKept ==
  ASSUME NEW c \in Channels, LackingIsSent(c), Own(c[1])' = Own(c[1]),
         link'[c] = "synced" => link[c] = "synced",
         trades'[c[2]][c[1]] = trades[c[2]][c[1]], Sent(c) \subseteq Sent(c)'
  PROVE  LackingIsSent(c)'
BY DEF LackingIsSent, Cached

LEMMA FinishSent ==
  ASSUME TypeOK, TypeOK', LoadsFollowOwn, NEW n \in Node, Loads(n),
         NEW c \in Channels, c[1] = n, SentIsOwn(c), LackingIsSent(c)
  PROVE  SentIsOwn(c)' /\ LackingIsSent(c)'
<1>1. PICK from, to \in Nat, batch \in Data :
         Lands(n, from, to, batch) /\ Spreads(n, batch)
  BY FinishCopies
<1>2. PICK own, next : own = Own(n) /\ next = Own(n)'
  OBVIOUS
<1>3. PICK last \in Nat : last = LastTimestamp(own)
  BY <1>2, OwnType, LastShape
<1>4. /\ from <= to /\ last < from /\ Cached(batch) = from..to /\ LastTimestamp(next) = to
      /\ \A m \in from..to : m \in Cached(next) /\ next[m] = batch[m]
      /\ \A m \in Cached(next) :
            m \in from..to \/ (m \in Cached(own) /\ m < from /\ next[m] = own[m])
  BY <1>1, <1>2, <1>3 DEF Lands
<1>5. /\ Sent(c) \subseteq Sent(c)' /\ Sent(c)' \subseteq Sent(c) \cup {batch}
      /\ link[c] = "synced" => batch \in Sent(c)'
      /\ trades'[c[2]][n] = trades[c[2]][n] /\ link' = link
  <2>1. c[2] \in Node /\ c[2] # n
    BY DEF Channels
  <2> QED BY <1>1, <2>1, FinishShape DEF Spreads
<1>6. SentIsOwn(c)'
  <2> SUFFICES ASSUME NEW data \in Sent(c)', NEW m \in Cached(data)
               PROVE  m <= LastTimestamp(next) /\ (m \in Cached(next) => data[m] = next[m])
    BY <1>2 DEF SentIsOwn, Cached
  <2>1. CASE data = batch
    BY <1>4, <2>1
  <2>2. CASE data \in Sent(c)
    <3>1. m <= last /\ (m \in Cached(own) => data[m] = own[m])
      BY <1>2, <1>3, <2>2 DEF SentIsOwn
    <3>2. m \in Nat
      BY <2>2, SentType, LastShape
    <3> QED BY <1>4, <3>1, <3>2
  <2> QED BY <1>5, <2>1, <2>2
<1>7. LackingIsSent(c)'
  <2> SUFFICES ASSUME link[c] = "synced", NEW m \in Cached(next)
               PROVE  \/ trades[c[2]][n][m] = next[m]
                      \/ \E data \in Sent(c)' : data[m] # None
    BY <1>2, <1>5 DEF LackingIsSent, Cached
  <2>1. CASE m \in from..to
    BY <1>4, <1>5, <2>1 DEF Cached
  <2>2. CASE m \in Cached(own) /\ next[m] = own[m]
    BY <1>2, <1>5, <2>2 DEF LackingIsSent
  <2> QED BY <1>4, <2>1, <2>2
<1> QED BY <1>6, <1>7

(* The receiver keeps what the sender has of its own. *)
LEMMA ReceiveLacking ==
  ASSUME TypeOK, NEW c \in Channels, ReceiveSync(c), NodeInv(c[1]),
         SentIsOwn(c), LackingIsSent(c)
  PROVE  LackingIsSent(c)'
<1>1. PICK batch \in Sent(c) :
         /\ batch \in Data /\ Take(c[2], c[1], batch)
         /\ Sent(c) \subseteq Sent(c)' \cup {batch} /\ link' = link
  BY ReceiveShape
<1>2. PICK n, r \in Node : n = c[1] /\ r = c[2]
  BY DEF Channels
<1>3. PICK data, next, own :
         data = trades[r][n] /\ next = Push(data, batch) /\ own = Own(n)
  OBVIOUS
<1>4. /\ data \in Data /\ own \in Data /\ data \in Copies(n) /\ batch \in Copies(n)
      /\ trades'[r][n] = next /\ Own(n)' = own
  BY <1>1, <1>2, <1>3, OwnType, CopiesShape, TakeShape, ReceiveKnown
<1> SUFFICES ASSUME link[c] = "synced", NEW m \in Cached(own),
                    \A d \in Sent(c)' : d[m] = None
             PROVE  next[m] = own[m]
  BY <1>1, <1>2, <1>4 DEF LackingIsSent, Cached
<1>5. batch[m] # None => batch[m] = own[m]
  BY <1>1, <1>2, <1>3, <1>4, LastShape DEF SentIsOwn, Cached
<1>6. batch[m] = None => data[m] = own[m]
  BY <1>1, <1>2, <1>3 DEF LackingIsSent
<1>7. m \in Minutes /\ own[m] # None
  BY DEF Cached
<1>8. m \in Both(data, batch) /\ Both(data, batch) \in SUBSET Minutes
  BY <1>1, <1>4, <1>5, <1>6, <1>7, PushShape DEF Both, Cached
<1>9. \A k \in Both(data, batch) : k >= m => k \in Cached(own)
  BY <1>2, <1>3, <1>4 DEF NodeInv, OwnHasAll, Both
<1>10. Cardinality(After(Both(data, batch), m)) <= Heartbeat
  <2>1. m \in Int /\ Cached(own) \in SUBSET Minutes
    BY <1>4, LastShape
  <2>2. PICK both : both = Both(data, batch)
    OBVIOUS
  <2>3. both \in SUBSET Minutes /\ \A k \in both : k >= m => k \in Cached(own) /\ k >= m
    BY <1>8, <1>9, <2>2
  <2>4. /\ Cardinality(After(both, m)) <= Cardinality(After(Cached(own), m))
        /\ Cardinality(After(both, m)) \in Nat
        /\ Cardinality(After(Cached(own), m)) \in Nat
    BY <2>1, <2>3, CountIsLess, CountIsNat
  <2>5. Cardinality(After(Cached(own), m)) <= Heartbeat
    BY <1>2, <1>3 DEF NodeInv, OwnIsTrimmed, After
  <2> QED BY <2>2, <2>4, <2>5, TimeAssumption
<1>11. next[m] = IF batch[m] # None THEN batch[m] ELSE data[m]
  BY <1>1, <1>3, <1>4, <1>8, <1>10, PushShape
<1> QED BY <1>5, <1>6, <1>11

LEMMA ConnectionStep ==
  ASSUME TypeOK, TypeOK', Inv, [Next]_vars, NEW c \in Channels
  PROVE  SentIsOwn(c)' /\ LackingIsSent(c)'
<1>1. /\ CacheSize <= CurrentMinute /\ LoadsFollowOwn
      /\ c[1] \in Node /\ c[2] \in Node /\ c[1] # c[2]
      /\ NodeInv(c[1]) /\ SentIsOwn(c) /\ LackingIsSent(c)
  BY DEF Inv, Channels
<1>2. ASSUME NEW n \in Node, Loads(n) PROVE SentIsOwn(c)' /\ LackingIsSent(c)'
  <2>1. CASE c[1] = n
    BY <1>1, <1>2, <2>1, FinishSent
  <2>2. CASE c[1] # n
    <3>1. /\ Sent(c)' = Sent(c) /\ link' = link
          /\ \A i, k \in Node : i # n \/ k # n => trades'[i][k] = trades[i][k]
      BY <1>1, <1>2, <2>2, FinishCopies, FinishShape DEF Spreads
    <3>2. Own(c[1])' = Own(c[1]) /\ trades'[c[2]][c[1]] = trades[c[2]][c[1]]
      BY <1>1, <2>2, <3>1 DEF Own
    <3> QED BY <1>1, <3>1, <3>2, SentKept, LackingKept
  <2> QED BY <2>1, <2>2
<1>3. ASSUME NEW n \in Node, Restart(n) PROVE SentIsOwn(c)' /\ LackingIsSent(c)'
  <2>1. CASE n \in {c[1], c[2]}
    <3>1. link'[c] = "down" /\ Sent(c)' = {}
      BY <1>3, <2>1, RestartShape
    <3> QED BY <3>1 DEF SentIsOwn, LackingIsSent
  <2>2. CASE n \notin {c[1], c[2]}
    <3>1. link'[c] = link[c] /\ Sent(c)' = Sent(c)
      BY <1>3, <2>2, RestartShape
    <3>2. Own(c[1])' = Own(c[1]) /\ trades'[c[2]][c[1]] = trades[c[2]][c[1]]
      BY <1>1, <1>3, <2>2, RestartShape DEF Own
    <3> QED BY <1>1, <3>1, <3>2, SentKept, LackingKept
  <2> QED BY <2>1, <2>2
<1>4. ASSUME NEW d \in Channels, ReceiveSync(d) PROVE SentIsOwn(c)' /\ LackingIsSent(c)'
  <2>1. Own(c[1])' = Own(c[1]) /\ Sent(c)' \subseteq Sent(c)
    BY <1>1, <1>4, ReceiveKnown, ReceiveShape
  <2>2. SentIsOwn(c)'
    BY <1>1, <2>1, SentKept
  <2>3. CASE d = c
    BY <1>1, <1>4, <2>2, <2>3, ReceiveLacking
  <2>4. CASE d # c
    <3>1. PICK batch \in Data :
            Take(d[2], d[1], batch) /\ link' = link /\ Sent(c)' = Sent(c)
      BY <1>4, <2>4, ReceiveShape
    <3>2. d[1] \in Node /\ d[2] \in Node /\ (d[1] # c[1] \/ d[2] # c[2])
      BY <2>4 DEF Channels
    <3>3. trades'[c[2]][c[1]] = trades[c[2]][c[1]]
      BY <1>1, <3>1, <3>2, TakeShape
    <3> QED BY <1>1, <2>1, <2>2, <3>1, <3>3, LackingKept
  <2> QED BY <2>3, <2>4
<1>5. ASSUME NEW d \in Channels, Disconnect(d) PROVE SentIsOwn(c)' /\ LackingIsSent(c)'
  <2>1. CASE d = c
    <3>1. link'[c] = "down" /\ Sent(c)' = {}
      BY <1>5, <2>1, DisconnectShape
    <3> QED BY <3>1 DEF SentIsOwn, LackingIsSent
  <2>2. CASE d # c
    <3>1. link'[c] = link[c] /\ Sent(c)' = Sent(c) /\ trades' = trades
      BY <1>5, <2>2, DisconnectShape
    <3>2. Own(c[1])' = Own(c[1])
      BY <3>1 DEF Own
    <3> QED BY <1>1, <3>1, <3>2, SentKept, LackingKept
  <2> QED BY <2>1, <2>2
<1>6. ASSUME NEW d \in Channels, PeerReady(d) PROVE SentIsOwn(c)' /\ LackingIsSent(c)'
  <2>1. trades' = trades /\ Own(c[1])' = Own(c[1])
    BY <1>6, PeerReadyShape DEF Own
  <2>2. CASE d = c
    <3>1. Own(c[1]) \in Sent(c)' /\ Sent(c)' \subseteq Sent(c) \cup {Own(c[1])}
      BY <1>6, <2>2, PeerReadyShape
    <3>2. SentIsOwn(c)'
      BY <1>1, <2>1, <3>1, SentKept
    <3>3. LackingIsSent(c)'
      BY <2>1, <3>1 DEF LackingIsSent, Cached
    <3> QED BY <3>2, <3>3
  <2>3. CASE d # c
    <3>1. link'[c] = link[c] /\ Sent(c)' = Sent(c)
      BY <1>6, <2>3, PeerReadyShape
    <3> QED BY <1>1, <2>1, <3>1, SentKept, LackingKept
  <2> QED BY <2>2, <2>3
<1>7. ASSUME NEW d \in Channels, Connect(d) PROVE SentIsOwn(c)' /\ LackingIsSent(c)'
  <2>1. /\ trades' = trades /\ Own(c[1])' = Own(c[1]) /\ Sent(c)' = Sent(c)
        /\ link'[c] = "open" \/ link'[c] = link[c]
    BY <1>7, ConnectShape DEF Own
  <2> QED BY <1>1, <2>1, SentKept, LackingKept
<1>8. ASSUME UNCHANGED <<trades, queue, link>> PROVE SentIsOwn(c)' /\ LackingIsSent(c)'
  <2>1. Own(c[1])' = Own(c[1]) /\ Sent(c)' = Sent(c)
    BY <1>8 DEF Own, Sent
  <2> QED BY <1>1, <1>8, <2>1, SentKept, LackingKept
<1> QED
  BY <1>2, <1>3, <1>4, <1>5, <1>6, <1>7, <1>8
  DEF Next, LoadStep, Loads, LoadTradesData, FailLoad, WaitStep, GetTradesData, SyncTimeout,
      ClearPendingTradesData, ChannelStep, Tick, vars

-----------------------------------------------------------------------------
(* The items, step by step *)

Past(data) == \A m \in Cached(data) : m <= CurrentMinute

(* What is not older than the heartbeat is not dropped. *)
LEMMA TakeThere ==
  ASSUME TypeOK, NEW n \in Node, NEW from \in Node, NEW batch \in Data,
         Take(n, from, batch), Past(trades[n][from]), Past(batch),
         NEW m \in Minutes, CurrentMinute - Heartbeat < m,
         trades[n][from][m] # None \/ batch[m] # None
  PROVE  trades'[n][from][m] # None
<1>1. PICK data, next, both : /\ data = trades[n][from] /\ next = Push(data, batch)
                              /\ both = Both(data, batch)
  OBVIOUS
<1>2. data \in Data /\ trades'[n][from] = next
  BY <1>1, OwnType, TakeShape
<1>3. m \in both /\ both \in SUBSET Minutes
  BY <1>1, <1>2, PushShape DEF Both, Cached
<1>4. \A k \in both : k <= CurrentMinute
  BY <1>1 DEF Both, Past
<1>5. m \in Nat /\ CurrentMinute \in Nat
  BY MinutesShape, CurrentShape DEF TypeOK
<1>6. PICK current \in Nat : current = CurrentMinute
  BY <1>5
<1>7. /\ Cardinality(After(both, m)) <= CurrentMinute - m + 1
      /\ Cardinality(After(both, m)) \in Nat
  <2>1. m \in Int /\ m <= current + 1 /\ \A k \in both : k <= current
    BY <1>3, <1>4, <1>5, <1>6
  <2>2. Cardinality(After(both, m)) <= current - m + 1
    BY <1>3, <2>1, CountToLast
  <2> QED BY <1>3, <1>6, <2>1, <2>2, CountIsNat
<1>8. Cardinality(After(both, m)) <= Heartbeat
  BY <1>5, <1>7, TimeAssumption
<1>9. m \in Cached(next)
  BY <1>1, <1>2, <1>3, <1>8, PushShape
<1> QED BY <1>2, <1>9 DEF Cached

(* Data of a node is taken by a load, or from the queue. *)
LEMMA TakeSteps ==
  ASSUME TypeOK, Inv, [Next]_vars
  PROVE  /\ \A n \in Node : Loads(n) =>
               \E batch \in Data : Past(batch) /\ Take(n, n, batch)
         /\ \A c \in Channels : ReceiveSync(c) =>
               \E batch \in Data : Past(batch) /\ Take(c[2], c[1], batch)
         /\ \A i, k \in Node : Past(trades[i][k])
<1>1. \A k \in Node : CopiesArePast(k)
  BY DEF Inv, NodeInv
<1>2. \A k \in Node : \A data \in Copies(k) : Past(data)
  BY <1>1 DEF CopiesArePast, Past
<1>3. ASSUME NEW n \in Node, Loads(n)
      PROVE  \E batch \in Data : Past(batch) /\ Take(n, n, batch)
  <2>1. LoadsFollowOwn
    BY DEF Inv
  <2>2. PICK count \in 1..load[n].count, batch \in Data :
          /\ Cached(batch) = load[n].target - count + 1 .. load[n].target
          /\ Take(n, n, batch)
    BY <1>3, <2>1, FinishShape
  <2>3. /\ load[n].target <= CurrentMinute /\ load[n].target \in Nat
        /\ load[n].count \in Nat /\ CurrentMinute \in Nat
    BY <1>3, <2>1, FinishShape, LoadShape, CurrentShape DEF LoadsFollowOwn, TypeOK
  <2>4. Past(batch)
    BY <2>2, <2>3 DEF Past
  <2> QED BY <2>2, <2>4
<1>4. ASSUME NEW c \in Channels, ReceiveSync(c)
      PROVE  \E batch \in Data : Past(batch) /\ Take(c[2], c[1], batch)
  <2>1. PICK batch \in Sent(c) : batch \in Data /\ Take(c[2], c[1], batch)
    BY <1>4, ReceiveShape
  <2>2. c[1] \in Node
    BY DEF Channels
  <2> QED BY <1>2, <2>1, <2>2, CopiesShape
<1> QED BY <1>2, <1>3, <1>4, CopiesShape

LEMMA ThereKept ==
  ASSUME TypeOK, Inv, [Next]_vars, NEW n \in Node, NEW k \in Node, ~Restart(n),
         NEW m \in Minutes, CurrentMinute - Heartbeat < m, trades[n][k][m] # None
  PROVE  trades'[n][k][m] # None
<1>1. ASSUME NEW i \in Node, NEW from \in Node, NEW batch \in Data,
             Past(batch), Take(i, from, batch)
      PROVE  trades'[n][k][m] # None
  <2>1. CASE i = n /\ from = k
    BY <1>1, <2>1, TakeThere, TakeSteps
  <2>2. CASE i # n \/ from # k
    BY <1>1, <2>2, TakeShape
  <2> QED BY <2>1, <2>2
<1>2. ASSUME NEW i \in Node, Loads(i) PROVE trades'[n][k][m] # None
  BY <1>1, <1>2, TakeSteps
<1>3. ASSUME NEW c \in Channels, ReceiveSync(c) PROVE trades'[n][k][m] # None
  BY <1>1, <1>3, TakeSteps DEF Channels
<1>4. ASSUME NEW i \in Node, Restart(i) PROVE trades'[n][k][m] # None
  <2>1. i # n
    BY <1>4
  <2> QED BY <1>4, <2>1, RestartShape
<1> QED
  BY <1>2, <1>3, <1>4
  DEF Next, LoadStep, Loads, LoadTradesData, FailLoad, WaitStep, GetTradesData, SyncTimeout,
      ClearPendingTradesData, ChannelStep, Disconnect, Connect, PeerReady, Tick, vars

(* An item gets data of a node, or nothing new is there. *)
LEMMA ItemStep ==
  ASSUME TypeOK, Inv, [Next]_vars, NEW n \in Node, NEW m \in Minutes, item'[n][m] # None
  PROVE  \/ item'[n][m] = NewItem
         \/ /\ item[n][m] # None /\ ~Restart(n)
            /\ item'[n][m].presented = item[n][m].presented
            /\ item'[n][m].status \in {item[n][m].status, "timedOut"}
         \/ \E from \in Node, batch \in Data :
               /\ Past(batch) /\ Take(n, from, batch) /\ batch[m] # None
               /\ item'[n][m] = Add(n, GetOrAdd(n, m), from) /\ ~Restart(n)
<1>1. ~Restart(n)
  BY RestartShape
<1>2. ASSUME NEW i \in Node, NEW from \in Node, NEW batch \in Data,
             Past(batch), Take(i, from, batch)
      PROVE  \/ item'[n][m] = item[n][m]
             \/ /\ Past(batch) /\ Take(n, from, batch) /\ batch[m] # None
                /\ item'[n][m] = Add(n, GetOrAdd(n, m), from)
  BY <1>2, TakeShape
<1>3. ASSUME NEW i \in Node, Loads(i)
      PROVE  \/ item'[n][m] = item[n][m]
             \/ \E from \in Node, batch \in Data :
                   /\ Past(batch) /\ Take(n, from, batch) /\ batch[m] # None
                   /\ item'[n][m] = Add(n, GetOrAdd(n, m), from)
  BY <1>2, <1>3, TakeSteps
<1>4. ASSUME NEW c \in Channels, ReceiveSync(c)
      PROVE  \/ item'[n][m] = item[n][m]
             \/ \E from \in Node, batch \in Data :
                   /\ Past(batch) /\ Take(n, from, batch) /\ batch[m] # None
                   /\ item'[n][m] = Add(n, GetOrAdd(n, m), from)
  BY <1>2, <1>4, TakeSteps DEF Channels
<1>5. ASSUME NEW i \in Node, Restart(i) PROVE item'[n][m] = item[n][m]
  <2>1. i # n
    BY <1>1, <1>5
  <2> QED BY <1>5, <2>1, RestartShape
<1>6. ASSUME NEW i \in Node, WaitStep(i)
      PROVE  \/ item'[n][m] \in {item[n][m], NewItem}
             \/ /\ item[n][m] # None /\ item'[n][m].status = "timedOut"
                /\ item'[n][m].presented = item[n][m].presented
  <2>1. ASSUME NEW k \in Minutes, GetTradesData(i, k)
        PROVE  item'[n][m] \in {item[n][m], NewItem}
    BY <2>1 DEF GetTradesData, TypeOK
  <2>2. ASSUME NEW k \in Minutes, SyncTimeout(i, k)
        PROVE  \/ item'[n][m] = item[n][m]
               \/ /\ item[n][m] # None /\ item'[n][m].status = "timedOut"
                  /\ item'[n][m].presented = item[n][m].presented
    <3>1. item[i][k] # None /\ item' = [item EXCEPT ![i][k].status = "timedOut"]
      BY <2>2 DEF SyncTimeout, IsOverdue
    <3>2. item[i][k] \in SyncItem
      BY <3>1 DEF TypeOK
    <3>3. PICK new : new = [item[i][k] EXCEPT !.status = "timedOut"]
      OBVIOUS
    <3>4. new.status = "timedOut" /\ new.presented = item[i][k].presented
      BY <3>2, <3>3 DEF SyncItem
    <3>5. item' = [item EXCEPT ![i][k] = new]
      BY <3>1, <3>3 DEF TypeOK
    <3> QED BY <3>1, <3>4, <3>5 DEF TypeOK
  <2>3. ASSUME ClearPendingTradesData(i) PROVE item'[n][m] = item[n][m]
    BY <2>3 DEF ClearPendingTradesData, TypeOK
  <2> QED BY <1>6, <2>1, <2>2, <2>3 DEF WaitStep
<1>7. ASSUME UNCHANGED item PROVE item'[n][m] = item[n][m]
  BY <1>7
<1>8. \/ item'[n][m] \in {item[n][m], NewItem}
      \/ /\ item[n][m] # None /\ item'[n][m].status = "timedOut"
         /\ item'[n][m].presented = item[n][m].presented
      \/ \E from \in Node, batch \in Data :
            /\ Past(batch) /\ Take(n, from, batch) /\ batch[m] # None
            /\ item'[n][m] = Add(n, GetOrAdd(n, m), from)
  BY <1>3, <1>4, <1>5, <1>6, <1>7
  DEF Next, LoadStep, Loads, LoadTradesData, FailLoad, ChannelStep, Disconnect, Connect, PeerReady, Tick, vars
<1> QED BY <1>1, <1>8

LEMMA PresentedStep ==
  ASSUME TypeOK, TypeOK', Inv, [Next]_vars
  PROVE  PresentedIsThere'
<1>1. /\ CurrentMinute \in Nat /\ CurrentMinute' \in Nat /\ CurrentMinute <= CurrentMinute'
      /\ PresentedIsThere
  BY TimeStep DEF Inv
<1>2. \A n \in Node, m \in Minutes : item'[n][m] # None => item'[n][m].presented \subseteq Node
  BY DEF TypeOK, SyncItem
<1> SUFFICES ASSUME NEW n \in Node, NEW m \in Minutes, item'[n][m] # None,
                    CurrentMinute' - Heartbeat < m,
                    NEW k \in Node, k \in item'[n][m].presented
             PROVE  trades'[n][k][m] # None
  BY <1>2 DEF PresentedIsThere
<1>3. CurrentMinute - Heartbeat < m
  <2>1. PICK old, new \in Nat : old = CurrentMinute /\ new = CurrentMinute'
    BY <1>1
  <2>2. old <= new /\ new - Heartbeat < m /\ m \in Nat
    BY <1>1, <2>1, MinutesShape
  <2>3. old - Heartbeat < m
    BY <2>2, TimeAssumption
  <2> QED BY <2>1, <2>3
<1>4. CASE item'[n][m] = NewItem
  BY <1>4 DEF NewItem
<1>5. CASE /\ item[n][m] # None /\ ~Restart(n)
           /\ item'[n][m].presented = item[n][m].presented
  <2>1. trades[n][k][m] # None
    BY <1>1, <1>3, <1>5 DEF PresentedIsThere
  <2> QED BY <1>3, <1>5, <2>1, ThereKept
<1>6. CASE \E from \in Node, batch \in Data :
              /\ Past(batch) /\ Take(n, from, batch) /\ batch[m] # None
              /\ item'[n][m] = Add(n, GetOrAdd(n, m), from) /\ ~Restart(n)
  <2>1. PICK from \in Node, batch \in Data :
          /\ Past(batch) /\ Take(n, from, batch) /\ batch[m] # None
          /\ item'[n][m] = Add(n, GetOrAdd(n, m), from) /\ ~Restart(n)
    BY <1>6
  <2>2. k \in GetOrAdd(n, m).presented \cup {from}
    <3>1. PICK i, next : i = GetOrAdd(n, m) /\ next = item'[n][m]
      OBVIOUS
    <3>2. next = Add(n, i, from) /\ k \in next.presented
      BY <2>1, <3>1
    <3>3. Add(n, i, from).presented = i.presented \cup {from}
      BY DEF Add
    <3> QED BY <3>1, <3>2, <3>3
  <2>3. CASE k = from
    BY <1>3, <2>1, <2>3, TakeThere, TakeSteps
  <2>4. CASE k # from
    <3>1. item[n][m] # None /\ k \in item[n][m].presented
      BY <2>2, <2>4 DEF GetOrAdd, NewItem
    <3>2. trades[n][k][m] # None
      BY <1>1, <1>3, <3>1 DEF PresentedIsThere
    <3> QED BY <1>3, <2>1, <3>2, ThereKept
  <2> QED BY <2>3, <2>4
<1> QED BY <1>4, <1>5, <1>6, ItemStep

-----------------------------------------------------------------------------
(* The inductive invariant *)

LEMMA InitInv ==
  ASSUME Init
  PROVE  TypeOK /\ Inv
<1>1. CacheSize \in Nat /\ Minute \in Nat \ {0} /\ MaxTime \in Nat
      /\ CacheSize * Minute \in Nat /\ CacheSize * Minute <= MaxTime
  BY TimeAssumption, LimitAssumption
<1>2. now = CacheSize * Minute /\ now \in 0..MaxTime
  BY <1>1 DEF Init
<1>3. CurrentMinute = CacheSize
  BY <1>1, <1>2, QuotientOfProduct DEF CurrentMinute
<1>4. NoData \in Data /\ Cached(NoData) = {} /\ LastTimestamp(NoData) = 0
  BY NoDataShape, LastShape
<1>5. TypeOK
  BY <1>1, <1>2, <1>4, LimitAssumption DEF Init, TypeOK
<1>6. \A i, n \in Node : trades[i][n] = NoData
  BY DEF Init
<1>7. \A c \in Channels : Sent(c) = {}
  BY DEF Init, Sent
<1>8. \A n \in Node : Own(n) = NoData /\ \A data \in Copies(n) : data = NoData
  BY <1>5, <1>6, <1>7, CopiesShape DEF Own
<1>9. \A n \in Node : CopiesArePast(n) /\ CopiesAgree(n) /\ OwnHasAll(n) /\ OwnIsTrimmed(n)
  BY <1>4, <1>8 DEF CopiesArePast, CopiesAgree, OwnHasAll, OwnIsTrimmed
<1>10. \A n \in Node : OwnIsComplete(n)
  <2>1. \A m \in Minutes : ~(m <= 0)
    BY MinutesShape
  <2> QED BY <1>4, <1>8, <2>1 DEF OwnIsComplete
<1>11. \A c \in Channels : SentIsOwn(c) /\ LackingIsSent(c)
  <2>1. \A c \in Channels : Own(c[1]) = NoData
    BY <1>8 DEF Channels
  <2> QED BY <1>4, <1>7, <2>1 DEF SentIsOwn, LackingIsSent
<1>12. LoadsFollowOwn /\ PresentedIsThere
  BY DEF Init, LoadsFollowOwn, PresentedIsThere
<1> QED BY <1>3, <1>5, <1>9, <1>10, <1>11, <1>12, TimeAssumption DEF Inv, NodeInv

LEMMA InvStep ==
  ASSUME TypeOK, Inv, [Next]_vars
  PROVE  TypeOK' /\ Inv'
<1>1. TypeOK'
  BY TypeStep DEF Inv
<1>2. CacheSize <= CurrentMinute'
  BY TimeStep DEF Inv
<1>3. LoadsFollowOwn' /\ PresentedIsThere'
  BY <1>1, LoadsStep, PresentedStep
<1>4. \A n \in Node : NodeInv(n)'
  BY <1>1, NodeStep
<1>5. \A c \in Channels : SentIsOwn(c)' /\ LackingIsSent(c)'
  BY <1>1, ConnectionStep
<1>6. Inv'
  BY <1>2, <1>3, <1>4, <1>5 DEF Inv, Channels
<1> QED BY <1>1, <1>6

LEMMA Invariance == Spec => [](TypeOK /\ Inv)
<1>1. TypeOK /\ Inv /\ [Next]_vars => TypeOK' /\ Inv'
  BY InvStep
<1>2. Init => TypeOK /\ Inv
  BY InitInv
<1> QED BY <1>1, <1>2, PTL DEF Spec

-----------------------------------------------------------------------------
(* What the nodes can rely on *)

(* The variables keep their types: the time, the minutes that are loaded, the *)
(* cached data and the messages stay within their bounds.                   *)
THEOREM TypeCorrect == Spec => []TypeOK
BY Invariance, PTL

(* The caches, the loads, the messages and the items of TradesManager and    *)
(* PriceRunner fit together as the invariant says.                         *)
THEOREM InvCorrect == Spec => []Inv
BY Invariance, PTL

(* Whoever holds data of a node that was not restarted for a minute holds    *)
(* the same: addTradesData is never given two answers for one minute.      *)
THEOREM ViewsAgreeCorrect == Spec => []ViewsAgree
<1>1. TypeOK /\ Inv => ViewsAgree
  <2> SUFFICES ASSUME TypeOK, Inv, NEW i \in Node, NEW j \in Node, NEW k \in Node,
                      NEW m \in Minutes, k \notin restarted,
                      trades[i][k][m] # None, trades[j][k][m] # None
               PROVE  trades[i][k][m] = trades[j][k][m]
    BY DEF ViewsAgree
  <2>1. trades[i][k] \in Copies(k) /\ trades[j][k] \in Copies(k)
    BY CopiesShape
  <2>2. m \in Cached(trades[i][k]) /\ m \in Cached(trades[j][k])
    BY DEF Cached
  <2>3. CopiesAgree(k)
    BY DEF Inv, NodeInv
  <2> QED BY <2>1, <2>2, <2>3 DEF CopiesAgree
<1> QED BY <1>1, Invariance, PTL

(* The own data of the last minutes has no hole, whatever loads failed:      *)
(* loadTradesDataForSource asks for what is missing after the last minute.  *)
(* This needs a source that answers for all minutes it is asked for.        *)
THEOREM RecentCompleteCorrect == Spec => []RecentComplete
<1>1. Inv => RecentComplete
  BY DEF Inv, NodeInv, OwnIsComplete, RecentComplete, Own
<1> QED BY <1>1, Invariance, PTL

(* Over a connection that is up and said READY, with nothing under way, the  *)
(* receiver has what the sender has of its own: what a broadcast did not     *)
(* reach, and what was lost, came with the data that answers READY.        *)
THEOREM ViewsMeetCorrect == Spec => []ViewsMeet
<1>1. TypeOK /\ Inv => ViewsMeet
  <2> SUFFICES ASSUME TypeOK, Inv, NEW c \in Channels, NEW m \in Minutes,
                      link[c] = "synced", queue[c] = <<>>, trades[c[1]][c[1]][m] # None
               PROVE  trades[c[2]][c[1]][m] = trades[c[1]][c[1]][m]
    BY DEF ViewsMeet
  <2>1. Sent(c) = {}
    BY DEF Sent
  <2>2. m \in Cached(Own(c[1]))
    BY DEF Cached, Own
  <2>3. LackingIsSent(c)
    BY DEF Inv
  <2> QED BY <2>1, <2>2, <2>3 DEF LackingIsSent, Own
<1> QED BY <1>1, Invariance, PTL

(* A TimestampSyncItem that becomes ready before its deadline has the own     *)
(* data and that of a majority of nodes: push dropped none of it.          *)
THEOREM ReadyIsCompleteCorrect == Spec => ReadyIsComplete
<1>1. TypeOK /\ Inv /\ [Next]_vars => 
        \A n \in Node, m \in Minutes :
          BecomesReady(n, m) /\ CurrentMinute - Heartbeat < m =>
             LET there == {k \in Node : trades'[n][k][m] # None} IN
             n \in there /\ HasMajority(there)
  <2> SUFFICES ASSUME TypeOK, Inv, [Next]_vars, NEW n \in Node, NEW m \in Minutes,
                      BecomesReady(n, m), CurrentMinute - Heartbeat < m,
                      NEW there, there = {k \in Node : trades'[n][k][m] # None}
               PROVE  n \in there /\ HasMajority(there)
    OBVIOUS
  <2>1. /\ item'[n][m] # None /\ item'[n][m].status = "ready"
        /\ item[n][m] # None => item[n][m].status # "ready"
    BY DEF BecomesReady
  <2>2. PICK from \in Node, batch \in Data :
          /\ Past(batch) /\ Take(n, from, batch) /\ batch[m] # None
          /\ item'[n][m] = Add(n, GetOrAdd(n, m), from) /\ ~Restart(n)
    BY <2>1, ItemStep DEF NewItem
  <2>3. PICK presented : presented = GetOrAdd(n, m).presented \cup {from}
    OBVIOUS
  <2>4. GetOrAdd(n, m).status # "ready"
    BY <2>1 DEF GetOrAdd, NewItem
  <2>5. n \in presented /\ HasMajority(presented)
    BY <2>1, <2>2, <2>3, <2>4, AddShape
  <2>6. presented \subseteq there
    <3> SUFFICES ASSUME NEW k \in presented PROVE k \in Node /\ trades'[n][k][m] # None
      OBVIOUS
    <3>1. CASE k = from
      BY <2>2, <3>1, TakeThere, TakeSteps
    <3>2. CASE k # from
      <4>1. item[n][m] # None /\ k \in item[n][m].presented
        BY <2>3, <3>2 DEF GetOrAdd, NewItem
      <4>2. k \in Node
        BY <4>1 DEF TypeOK, SyncItem
      <4>3. trades[n][k][m] # None
        BY <4>1 DEF Inv, PresentedIsThere
      <4> QED BY <2>2, <4>2, <4>3, ThereKept
    <3> QED BY <3>1, <3>2
  <2>7. IsFiniteSet(there) /\ there \subseteq Node
    BY ClusterAssumption, FS_Subset
  <2>8. /\ Cardinality(presented) <= Cardinality(there)
        /\ Cardinality(presented) \in Nat /\ Cardinality(there) \in Nat
        /\ Cardinality(Node) \in Nat
    BY <2>6, <2>7, ClusterAssumption, FS_Subset, FS_CardinalityType
  <2> QED BY <2>5, <2>6, <2>8 DEF HasMajority
<1> QED BY <1>1, Invariance, PTL DEF Spec, ReadyIsComplete

=============================================================================
