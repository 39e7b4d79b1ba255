----------------------------- MODULE PriceFeeds -----------------------------
(***************************************************************************)
(* The prices of the TWAP engine: the updater goroutine sweeps over all    *)
(* token pairs and price sources (pkg/twap/price_feed.go) and keeps what   *)
(* it gets in a cache, from which the execution worker and API handlers    *)
(* compute the current price and the time weighted average                 *)
(* (pkg/twap/engine.go).                                                   *)
(*                                                                         *)
(* clock counts ticks, of which TicksPerSecond make a second.  A reader    *)
(* takes its points out of the cache at one reading of the clock and       *)
(* weighs them at another; the cache's mutex makes adding a point and      *)
(* taking points out single steps.                                         *)
(*                                                                         *)
(* Left out: the row of price_points written for every point kept, which   *)
(* no code reads, and whose failure is only logged; the volume of a point, *)
(* which is always 0; the sources' replies, which are any price or none.   *)
(***************************************************************************)
EXTENDS Integers, Sequences, SequencesExt

CONSTANTS
    TokenPairs,       \* the sequence of pairs a sweep goes through
    Sources,          \* the sequence of sources asked for each pair
    Quotes,           \* Quotes[s][p]: what source s may say about pair p
    WebSources,       \* the sources asked over HTTP
    TicksPerSecond,
    RequestDelay,     \* pause after a price is kept: 100 ms
    SweepTimeout,     \* a sweep's context: 60 s
    MaxAge,           \* what the cache keeps: 24 h
    RecentWindow,     \* the age of a current price: 1 h
    Windows,          \* windows of TWAP requests: 5 to 1440 minutes
    MaxClock          \* bound on the clock

Pairs == ToSet(TokenPairs)

ASSUME PricesAssumption ==
    /\ TokenPairs \in Seq(Pairs) /\ Sources \in Seq(ToSet(Sources))
    /\ Quotes \in [ToSet(Sources) -> [Pairs -> SUBSET Nat]]
    /\ WebSources \subseteq ToSet(Sources)
    /\ {TicksPerSecond, RequestDelay, SweepTimeout, MaxAge, RecentWindow} \subseteq Nat \ {0}
    /\ RecentWindow <= MaxAge
    /\ Windows \subseteq 1..MaxAge
    /\ MaxClock \in Nat

VARIABLES
    clock,
    cache,            \* priceCache.data
    sweep,            \* the updater in updatePriceFeeds
    reading,          \* a goroutine in calculateTWAP, its points in hand
    answer,           \* what its last call returned
    kept              \* every point kept since the process started

vars == <<clock, cache, sweep, reading, answer, kept>>

PricePoint == [timestamp : Nat, price : Nat \ {0}]

noSweep == [pc |-> "idle"]
noReading == [pc |-> "idle"]
noAnswer == [result |-> [outcome |-> "none"]]

Init ==
    /\ clock = 0
    /\ cache = [p \in Pairs |-> <<>>]
    /\ sweep = noSweep
    /\ reading = noReading
    /\ answer = noAnswer
    /\ kept = [p \in Pairs |-> {}]

-----------------------------------------------------------------------------
(* The cache.                                                              *)

\* The points that are younger than age, taken one after the other.
younger(points, age) ==
    LET taken[i \in 0..Len(points)] ==
            IF i = 0 THEN <<>>
            ELSE IF points[i].timestamp > clock - age THEN Append(taken[i - 1], points[i])
            ELSE taken[i - 1]
    IN  taken[Len(points)]

addPricePoint_KeepsAll(points, q) == Append(points, q)
addPricePoint_OfRecent(points, q) == younger(Append(points, q), RecentWindow)
addPricePoint(points, q) == younger(Append(points, q), MaxAge)

getPricePoints(pair, window) == younger(cache[pair], window)

NoPrice == 0

getCurrentPrice_First(pair) ==
    LET points == getPricePoints(pair, RecentWindow)
    IN  IF points = <<>> THEN NoPrice ELSE Head(points).price
getCurrentPrice(pair) ==
    LET points == getPricePoints(pair, RecentWindow)
    IN  IF points = <<>> THEN NoPrice ELSE Last(points).price

-----------------------------------------------------------------------------
(* The updater.                                                            *)

attempts == Len(TokenPairs) * Len(Sources)
pairAt(k) == TokenPairs[((k - 1) \div Len(Sources)) + 1]
sourceAt(k) == Sources[((k - 1) % Len(Sources)) + 1]

startSweep ==
    /\ sweep = noSweep
    /\ sweep' = [pc |-> "asking", next |-> 1, resume |-> clock,
                 deadline |-> clock + SweepTimeout]
    /\ UNCHANGED <<clock, cache, reading, answer, kept>>

asking == sweep # noSweep /\ sweep.next <= attempts /\ clock >= sweep.resume

\* the replies that storePricePoint takes
validPrices_All(source, pair) == Quotes[source][pair]
validPrices(source, pair) == Quotes[source][pair] \ {0}

\* An unknown pair, a failed request or a price that storePricePoint refuses.
sourceFails ==
    /\ asking
    /\ LET source == sourceAt(sweep.next)
       IN  source \in WebSources \/ validPrices(source, pairAt(sweep.next)) = {}
    /\ sweep' = [sweep EXCEPT !.next = @ + 1]
    /\ UNCHANGED <<clock, cache, reading, answer, kept>>

resumeAt == clock + RequestDelay

storePricePoint ==
    /\ asking
    /\ LET source == sourceAt(sweep.next)
           pair == pairAt(sweep.next)
       IN  /\ source \in WebSources => clock < sweep.deadline
           /\ \E price \in validPrices(source, pair) :
                LET q == [timestamp |-> clock, price |-> price]
                IN  /\ cache' = [cache EXCEPT ![pair] = addPricePoint(@, q)]
                    /\ kept' = [kept EXCEPT ![pair] = @ \cup {q}]
    /\ sweep' = [sweep EXCEPT !.next = @ + 1, !.resume = resumeAt]
    /\ UNCHANGED <<clock, reading, answer>>

endSweep ==
    /\ sweep # noSweep /\ sweep.next > attempts /\ clock >= sweep.resume
    /\ sweep' = noSweep
    /\ UNCHANGED <<clock, cache, reading, answer, kept>>

updatePriceFeeds == startSweep \/ sourceFails \/ storePricePoint \/ endSweep

-----------------------------------------------------------------------------
(* calculateTWAP, named engineTWAP beside the library's function: the      *)
(* average is a fraction, of the value and the weight of the points.       *)

GetTWAPPrice(pair, window) ==
    /\ reading = noReading
    /\ reading' = [pc |-> "weighing", pair |-> pair, window |-> window,
                   points |-> getPricePoints(pair, window), asked |-> clock]
    /\ answer' = noAnswer
    /\ UNCHANGED <<clock, cache, sweep, kept>>

\* positions of the points not before the second reading of the clock
inWindow(points, window) == {i \in DOMAIN points : points[i].timestamp >= clock - window}

seconds(ticks) == ticks \div TicksPerSecond

weightOf_NoFirst(points, i) ==
    IF i = 1 THEN 0 ELSE seconds(points[i].timestamp - points[i - 1].timestamp)
weightOf(points, i) ==
    IF i = 1 THEN 1 ELSE seconds(points[i].timestamp - points[i - 1].timestamp)

priced(value, weight) == [outcome |-> "price", value |-> value, weight |-> weight]
refused(reason) == [outcome |-> reason]

weightsOf(points) == [i \in DOMAIN points |-> weightOf(points, i)]
valuesOf(points) == [i \in DOMAIN points |-> points[i].price * weightOf(points, i)]

engineTWAP_CountsAll(points, window) ==
    LET used == inWindow(points, window)
        totalWeight == SumFunctionOnSet(weightsOf(points), DOMAIN points)
    IN  IF points = <<>> THEN refused("no data")
        ELSE IF totalWeight = 0 THEN refused("insufficient data")
        ELSE priced(SumFunctionOnSet(valuesOf(points), used), totalWeight)
engineTWAP(points, window) ==
    LET used == inWindow(points, window)
        totalWeight == SumFunctionOnSet(weightsOf(points), used)
    IN  IF points = <<>> THEN refused("no data")
        ELSE IF Len(points) = 1 THEN priced(points[1].price, 1)
        ELSE IF totalWeight = 0 THEN refused("insufficient data")
        ELSE priced(SumFunctionOnSet(valuesOf(points), used), totalWeight)

answerTWAP ==
    /\ reading # noReading
    /\ answer' = [call |-> reading, at |-> clock,
                  result |-> engineTWAP(reading.points, reading.window)]
    /\ reading' = noReading
    /\ UNCHANGED <<clock, cache, sweep, kept>>

-----------------------------------------------------------------------------
Tick ==
    /\ clock < MaxClock
    /\ clock' = clock + 1
    /\ UNCHANGED <<cache, sweep, reading, answer, kept>>

\* A new process starts with an empty cache.
Restart ==
    /\ cache' = [p \in Pairs |-> <<>>]
    /\ kept' = [p \in Pairs |-> {}]
    /\ sweep' = noSweep
    /\ reading' = noReading
    /\ answer' = noAnswer
    /\ UNCHANGED clock

Next ==
    \/ updatePriceFeeds
    \/ \E pair \in Pairs, window \in Windows : GetTWAPPrice(pair, window)
    \/ answerTWAP
    \/ Tick
    \/ Restart

Spec == Init /\ [][Next]_vars
=============================================================================
