-------------------------- MODULE PriceProperties --------------------------
(* Properties of PriceFeeds, and of TWAPMath on the points it keeps. *)
EXTENDS PriceFeeds, TWAPMath

\* The points kept for a pair that are in a window that ends at a moment.
keptIn(pair, moment, window) ==
    {q \in kept[pair] : moment - window < q.timestamp /\ q.timestamp <= moment}

-----------------------------------------------------------------------------
(* The type of every variable. *)
TypeOK ==
    /\ clock \in 0..MaxClock
    /\ cache \in [Pairs -> Seq(PricePoint)]
    /\ \/ sweep = noSweep
       \/ sweep \in [pc : {"asking"}, next : 1..(attempts + 1), resume : Nat, deadline : Nat]
    /\ \/ reading = noReading
       \/ reading \in [pc : {"weighing"}, pair : Pairs, window : Windows,
                       points : Seq(PricePoint), asked : 0..clock]
    /\ answer.result.outcome \in {"none", "price", "no data", "insufficient data"}
    /\ kept \in [Pairs -> SUBSET PricePoint]

-----------------------------------------------------------------------------
(* The cache. *)

\* addPricePoint drops old points whenever it adds one, and getPricePoints
\* filters again: a reader gets every point kept in its window, whichever of the
\* offered windows that is, once and in the order of time.
WindowsAreComplete ==
    \A pair \in Pairs, window \in Windows :
        LET points == getPricePoints(pair, window)
        IN  /\ ToSet(points) = keptIn(pair, clock, window)
            /\ \A i \in 2..Len(points) : points[i - 1].timestamp < points[i].timestamp

\* getCurrentPrice answers with the newest price of the last hour, and when the
\* sources have been silent for an hour it has none rather than an old one.
CurrentPriceIsLatest ==
    \A pair \in Pairs :
        LET recent == keptIn(pair, clock, RecentWindow)
        IN  \/ recent = {} /\ getCurrentPrice(pair) = NoPrice
            \/ \E q \in recent : /\ q.price = getCurrentPrice(pair)
                                 /\ \A r \in recent : r.timestamp <= q.timestamp

\* What the sleep in updatePriceFeeds and the cleaning in addPricePoint amount
\* to: however long the updater runs, a pair's points stay below its age limit
\* over the pause between two prices.
CacheIsBounded ==
    \A pair \in Pairs : Len(cache[pair]) * RequestDelay < MaxAge + RequestDelay

-----------------------------------------------------------------------------
(* calculateTWAP. *)

\* A time weighted average lies between two prices the pair had in the window,
\* although points leave the window between the two readings of the clock.
AnswersAreWithinPrices ==
    answer.result.outcome = "price" =>
        LET held == keptIn(answer.call.pair, answer.call.asked, answer.call.window)
        IN  \E low, high \in held : /\ low.price * answer.result.weight <= answer.result.value
                                    /\ answer.result.value <= high.price * answer.result.weight

\* A pair with prices in the window gets an average, even when all of them came
\* within a second of each other and weigh nothing. Only when its oldest point
\* leaves the window between the two readings of the clock may it be refused.
\* (A point of the very tick of the call may have been kept after the call.)
RefusalsAreRight ==
    answer # noAnswer =>
    LET held == keptIn(answer.call.pair, answer.call.asked, answer.call.window)
    IN  /\ answer.result.outcome = "no data" => \A q \in held : q.timestamp = answer.call.asked
        /\ answer.result.outcome = "insufficient data" =>
               \E q \in held : q.timestamp < answer.at - answer.call.window

-----------------------------------------------------------------------------
(* The library, on the points of the cache. *)

\* The library's TWAP and VWAP lie between two prices in the window, and are 0
\* when no point in it has a weight.
LibraryAveragesAreWithinPrices ==
    \A pair \in Pairs : \A window \in {w \in Windows : w <= clock},
                           volumes \in [DOMAIN cache[pair] -> 0..1] :
        LET from == clock - window
            points == [i \in DOMAIN cache[pair] |->
                          [timestamp |-> cache[pair][i].timestamp,
                           price |-> cache[pair][i].price, volume |-> volumes[i]]]
            priced_(average, used) ==
                IF used = {} THEN average = 0
                ELSE \E i, j \in used : points[i].price <= average /\ average <= points[j].price
            inside == counted(points, from, clock)
        IN  /\ priced_(calculateTWAP(points, from, clock), inside)
            /\ priced_(calculateVWAP(points, from, clock),
                       {i \in inside : volumes[i] > 0})

\* the average after each update, point by point
runningAverages(points) ==
    LET running[k \in 0..Len(points)] ==
            IF k = 0 THEN [average |-> 0, weight |-> 0]
            ELSE updateWeightedAverage(running[k - 1].average, running[k - 1].weight,
                                       points[k].price, timeWeight(points, 0, 1, k))
    IN  running

movingAverages(points, alpha) ==
    LET moving[k \in 1..Len(points)] ==
            IF k = 1 THEN points[1].price
            ELSE exponentialMovingAverage(moving[k - 1], points[k].price, alpha)
    IN  moving

\* Every update of updateWeightedAverage rounds down: the average updated point
\* by point never exceeds the average of all points at once, and falls behind
\* by less than one unit per update.
RunningAverageLags ==
    \A pair \in Pairs :
        LET points == cache[pair]
            exact == calculateWeightedAverage(
                         [i \in DOMAIN points |-> points[i].price],
                         [i \in DOMAIN points |-> timeWeight(points, 0, 1, i)])
            lag == exact - runningAverages(points)[Len(points)].average
        IN  points # <<>> => 0 <= lag /\ lag < Len(points)

\* exponentialMovingAverage rounds both of its terms down, at every update: a
\* moving average never exceeds the highest price, and sinks below the lowest
\* by less than 2 / alpha however many updates there are.
MovingAverageStaysNear ==
    \A pair \in Pairs, alpha \in 1..PRECISION :
        LET points == cache[pair]
            average == movingAverages(points, alpha)[Len(points)]
        IN  points # <<>> =>
                \E low, high \in ToSet(points) :
                    /\ low.price * alpha < average * alpha + 2 * PRECISION
                    /\ average <= high.price

\* However many updates round, the library's two running averages stay near the
\* averages they stand for (TWAPMath.sol updateWeightedAverage and
\* exponentialMovingAverage).
RoundingStaysBounded == RunningAverageLags /\ MovingAverageStaysNear
=============================================================================
