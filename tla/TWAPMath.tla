------------------------------ MODULE TWAPMath ------------------------------
(***************************************************************************)
(* The pure functions of contracts/libraries/TWAPMath.sol.  Amounts are    *)
(* natural numbers and \div truncates as the EVM does; a call whose        *)
(* requires fail has no value here, and neither has one that overflows 256 *)
(* bits, which reverts.                                                    *)
(***************************************************************************)
EXTENDS Naturals, Sequences, SequencesExt

CONSTANT PRECISION    \* 10^18 in the source

ASSUME MathAssumption == PRECISION \in Nat \ {0}

BASIS_POINTS == 10000

counted(points, from, to) ==
    {i \in DOMAIN points : from <= points[i].timestamp /\ points[i].timestamp <= to}

timeWeight(points, from, to, i) ==
    IF i > 1 THEN points[i].timestamp - points[i - 1].timestamp ELSE to - from

\* total value of the positions used, over their total weight
weightedAverage(prices, weights, used) ==
    LET value == [i \in used |-> prices[i] * weights[i]]
        totalWeight == SumFunctionOnSet(weights, used)
    IN  IF totalWeight = 0 THEN 0 ELSE SumFunctionOnSet(value, used) \div totalWeight

pricesOf(points) == [i \in DOMAIN points |-> points[i].price]
volumesOf(points) == [i \in DOMAIN points |-> points[i].volume]
timeWeights(points, from, to) == [i \in DOMAIN points |-> timeWeight(points, from, to, i)]

calculateTWAP_FirstUntimed(points, from, to) ==
    LET weights == [timeWeights(points, from, to) EXCEPT ![1] = 0]
    IN  weightedAverage(pricesOf(points), weights, counted(points, from, to))
calculateTWAP(points, from, to) ==
    LET weights == timeWeights(points, from, to)
        used == {i \in counted(points, from, to) : weights[i] > 0 /\ points[i].price > 0}
    IN  weightedAverage(pricesOf(points), weights, used)

calculateVWAP(points, from, to) ==
    LET used == {i \in counted(points, from, to) : points[i].volume > 0}
    IN  weightedAverage(pricesOf(points), volumesOf(points), used)

calculateSlippage(expectedPrice, actualPrice) ==
    LET difference == IF expectedPrice > actualPrice THEN expectedPrice - actualPrice
                                                     ELSE actualPrice - expectedPrice
    IN  IF expectedPrice = 0 THEN 0 ELSE (difference * BASIS_POINTS) \div expectedPrice

isSlippageAcceptable(expectedPrice, actualPrice, maxSlippage) ==
    calculateSlippage(expectedPrice, actualPrice) <= maxSlippage

calculatePriceImpact(currentPrice, tradeSize, liquidity) ==
    IF liquidity = 0 \/ currentPrice = 0 THEN BASIS_POINTS
    ELSE LET impactRatio == (tradeSize * BASIS_POINTS) \div liquidity
         IN  IF impactRatio > BASIS_POINTS THEN BASIS_POINTS ELSE impactRatio

calculateIntervalSize(totalAmount, numberOfIntervals, minFillSize) ==
    LET baseSize == totalAmount \div numberOfIntervals
    IN  IF baseSize < minFillSize THEN minFillSize ELSE baseSize

calculateIntervalDuration(windowMinutes, numberOfIntervals) ==
    (windowMinutes * 60) \div numberOfIntervals

calculateWeightedAverage(prices, weights) == weightedAverage(prices, weights, DOMAIN prices)

\* the new average and the new total weight
updateWeightedAverage_NewTotal(currentAverage, currentWeight, newPrice, newWeight) ==
    LET newTotalWeight == currentWeight + newWeight
    IN  IF newTotalWeight = 0 THEN [average |-> 0, weight |-> 0]
        ELSE [average |-> (currentAverage * newTotalWeight + newPrice * newWeight)
                              \div newTotalWeight,
              weight |-> newTotalWeight]
updateWeightedAverage(currentAverage, currentWeight, newPrice, newWeight) ==
    LET newTotalWeight == currentWeight + newWeight
    IN  IF newTotalWeight = 0 THEN [average |-> 0, weight |-> 0]
        ELSE [average |-> (currentAverage * currentWeight + newPrice * newWeight)
                              \div newTotalWeight,
              weight |-> newTotalWeight]

linearInterpolation(start, end, progress) ==
    IF progress = 0 THEN start
    ELSE IF progress = PRECISION THEN end
    ELSE IF end >= start THEN start + ((end - start) * progress) \div PRECISION
    ELSE start - ((start - end) * progress) \div PRECISION

exponentialMovingAverage(currentEMA, newValue, alpha) ==
    (alpha * newValue) \div PRECISION + ((PRECISION - alpha) * currentEMA) \div PRECISION
=============================================================================
