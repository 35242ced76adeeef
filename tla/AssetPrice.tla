----------------------------- MODULE AssetPrice -----------------------------
(***************************************************************************)
(* The price of an asset, computed from the trades data the consensus       *)
(* leaves a node (PriceConsensus): the data of each source are summed up    *)
(* over the minutes of the timeframe (aggrTradesData), the sum of a source *)
(* gives its price, and the price of the asset is the median of its sources *)
(* without the outliers (calcPrice, price-utils.js).                       *)
(*                                                                         *)
(* A computation without state of its own, on any data the consensus may    *)
(* leave of one asset: tradesData has a datum, or None, per minute and     *)
(* source.                                                                 *)
(***************************************************************************)
EXTENDS PriceConsensus, Sequences, FiniteSetsExt

CONSTANTS
    Source,            \* the sources of the asset
    TypeOf,            \* per source: "price", or "volume" if it has trades
    Price,             \* the prices a source of prices may give
    Trade,             \* the pairs <<volume, quoteVolume>> of a source of trades
    ProviderDecimals,  \* PROVIDER_PRICE_DECIMALS: decimals of a source's price (14)
    Decimals,          \* decimals of the contract
    MaxMinutes         \* bound: minutes of the timeframe

ASSUME SourceAssumption ==
    /\ IsFiniteSet(Source)
    /\ TypeOf \in [Source -> {"price", "volume"}]
    /\ Price \subseteq Nat
    /\ Trade \subseteq Nat \X Nat
    /\ ProviderDecimals \in Nat
    /\ Decimals \in Nat
    /\ MaxMinutes \in Nat

-----------------------------------------------------------------------------
(* aggrTradesData: the data of a source are summed up *)

(* The minutes the source has data of *)
Known(tradesData, source) == {m \in DOMAIN tradesData : tradesData[m][source] # None}

(* Prices of zero are skipped *)
Priced(tradesData, source) ==
    {m \in Known(tradesData, source) : tradesData[m][source][1] > 0}

Total(tradesData, source, field) ==
    LET sum[m \in 0..Len(tradesData)] ==
          IF m = 0 THEN 0
          ELSE IF m \in Known(tradesData, source)
          THEN sum[m - 1] + tradesData[m][source][field]
          ELSE sum[m - 1]
    IN sum[Len(tradesData)]

-----------------------------------------------------------------------------
(* price-utils.js *)

PowerOfTen(exponent) ==
    LET power[n \in 0..exponent] == IF n = 0 THEN 1 ELSE 10 * power[n - 1]
    IN power[exponent]

(* From the decimals of the providers to those of the contract *)
NormalizePrice(price) ==
    IF Decimals > ProviderDecimals
    THEN price * PowerOfTen(Decimals - ProviderDecimals)
    ELSE price \div PowerOfTen(ProviderDecimals - Decimals)

(* Mutant: the average over all the minutes of the timeframe *)
AveragePriceAll(sum, entries) ==
    IF entries = 0 THEN 0 ELSE NormalizePrice(sum) \div MaxMinutes

AveragePrice(sum, entries) ==
    IF entries = 0 THEN 0 ELSE NormalizePrice(sum) \div entries

VWAP(volume, quoteVolume) ==
    IF quoteVolume = 0 \/ volume = 0 THEN 0
    ELSE (volume * PowerOfTen(Decimals)) \div quoteVolume

(* The price at a position of the sorted prices of the sources *)
SortedAt(position, values, sources) ==
    CHOOSE price \in {values[source] : source \in sources} :
        /\ Cardinality({source \in sources : values[source] < price}) < position
        /\ Cardinality({source \in sources : values[source] <= price}) >= position

(* The middle of the sorted prices *)
Median(values, sources) ==
    LET middle == Cardinality(sources) \div 2
        above == SortedAt(middle + 1, values, sources)
    IN IF Cardinality(sources) % 2 = 1 THEN above
       ELSE (SortedAt(middle, values, sources) + above) \div 2

(* The distance of a value to the median in percent, as BigInt divides: the
   ratio is truncated before it is compared *)
Deviation(value, median) ==
    LET ratio == 100 - (100 * value) \div median
    IN IF ratio < 0 THEN -ratio ELSE ratio

IsOutlier(value, median) == Deviation(value, median) > 4

(* The sources that have a price: zeros are skipped *)
Quoted(values) == {source \in Source : values[source] > 0}

Trimmed(values) ==
    {source \in Quoted(values) :
        ~IsOutlier(values[source], Median(values, Quoted(values)))}

(* Mutant: the sum of the prices is divided by their number *)
MedianPriceMean(values) ==
    IF Quoted(values) = {} THEN 0
    ELSE MapThenSumSet(LAMBDA source : values[source], Quoted(values))
           \div Cardinality(Quoted(values))

(* getMedianPrice, 0 for null *)
MedianPrice(values) ==
    IF Quoted(values) = {} THEN 0
    ELSE IF Trimmed(values) # Quoted(values) /\ Cardinality(Trimmed(values)) > 1
    THEN Median(values, Trimmed(values))
    ELSE Median(values, Quoted(values))

-----------------------------------------------------------------------------
(* calcPrice *)

SourcePrice(tradesData, source) ==
    IF TypeOf[source] = "price"
    THEN AveragePrice(Total(tradesData, source, 1), Cardinality(Priced(tradesData, source)))
    ELSE VWAP(Total(tradesData, source, 1), Total(tradesData, source, 2))

(* The price of the asset, of those of its sources.  A source that has no data
   at all is not in the aggregated data; its price of zero is left out by the
   median all the same. *)
CalcPrice(sourcePrices) == MedianPrice(sourcePrices)

-----------------------------------------------------------------------------
(* Properties *)

(* What a source may have of a minute: its price, or volume and quoteVolume *)
Datum(source) ==
    (IF TypeOf[source] = "price" THEN {<<price>> : price \in Price} ELSE Trade)
    \cup {None}

(* The trades data of a source in a timeframe *)
TradesData(source) == UNION {[1..n -> [{source} -> Datum(source)]] : n \in 0..MaxMinutes}

PossiblePrices(source) ==
    {SourcePrice(tradesData, source) : tradesData \in TradesData(source)}

(* Most of the sources that have a price are within 4% of each other, and the
   price of the asset is not among theirs *)
IsMoved(sourcePrices) ==
    \E honest \in SUBSET Quoted(sourcePrices) :
        LET range == {sourcePrices[source] : source \in honest}
        IN /\ 2 * Cardinality(honest) > Cardinality(Quoted(sourcePrices))
           /\ 100 * (Max(range) - Min(range)) <= 4 * Min(range)
           /\ CalcPrice(sourcePrices) \notin Min(range)..Max(range)

(* The prices of the sources do not depend on each other *)
Moved ==
    {sourcePrices \in [Source -> UNION {PossiblePrices(source) : source \in Source}] :
        /\ \A source \in Source : sourcePrices[source] \in PossiblePrices(source)
        /\ IsMoved(sourcePrices)}

(* A minority of the sources cannot move the price (calcPrice): when most of
   the sources that have a price are within 4% of each other, the price of the
   asset is among theirs, whatever the others say and whatever the consensus of
   the node left of the data *)
MinorityCannotMove == \A node \in Done : Moved = {}

(* The price of a minute of the source *)
MinutePrice(datum, source) ==
    IF TypeOf[source] = "price" THEN NormalizePrice(datum[1])
    ELSE VWAP(datum[1], datum[2])

(* The price of the source is none between the lowest and the highest of its
   minutes *)
IsDistorted(tradesData, source) ==
    LET range == {MinutePrice(tradesData[m][source], source) :
                    m \in Priced(tradesData, source)}
    IN IF range = {} THEN SourcePrice(tradesData, source) # 0
       ELSE SourcePrice(tradesData, source) \notin Min(range)..Max(range)

Distorted ==
    {source \in Source :
        \E tradesData \in TradesData(source) : IsDistorted(tradesData, source)}

(* The price of a source over the timeframe is between the lowest and the
   highest of its minutes, whatever minutes the consensus of the node dropped,
   and whichever are empty (aggrTradesData, getAveragePrice, getVWAP) *)
SourceWithinMinutes == \A node \in Done : Distorted = {}

=============================================================================
