---------------------------- MODULE PriceProofs ----------------------------
(***************************************************************************)
(* Theorems about the price cache and its readers, for any pairs, sources, *)
(* replies and time constants, and about the library's functions, for all  *)
(* natural arguments that their requires admit.                            *)
(***************************************************************************)
EXTENDS PriceProperties, SumProofs, SequenceTheorems

LEMMA NotBelow == \A a, b \in Nat : a <= b /\ ~(a < b) => a = b
OBVIOUS

-----------------------------------------------------------------------------
(* Sequences of points.                                                    *)

LEMMA SeqParts ==
    ASSUME NEW S, NEW s \in Seq(S)
    PROVE  /\ Len(s) \in Nat /\ DOMAIN s = 1..Len(s)
           /\ \A i \in 1..Len(s) : s[i] \in S
           /\ ToSet(s) \subseteq S
           /\ s = <<>> <=> Len(s) = 0
           /\ Len(s) # 0 => 1 \in 1..Len(s) /\ Len(s) \in 1..Len(s)
<1>1. Len(s) \in Nat /\ DOMAIN s = 1..Len(s) /\ \A i \in 1..Len(s) : s[i] \in S
  BY LenProperties, ElementOfSeq
<1>2. ToSet(s) \subseteq S
  BY <1>1 DEF ToSet
<1>3. s = <<>> <=> Len(s) = 0
  BY EmptySeq
<1> QED BY <1>1, <1>2, <1>3

LEMMA ToSetOfNothing == ToSet(<<>>) = {}
BY DEF ToSet

\* A sequence with one more element.
LEMMA AppendParts ==
    ASSUME NEW S, NEW s \in Seq(S), NEW e \in S
    PROVE  /\ Append(s, e) \in Seq(S) /\ Len(Append(s, e)) = Len(s) + 1
           /\ DOMAIN Append(s, e) = 1..(Len(s) + 1)
           /\ \A i \in 1..Len(s) : Append(s, e)[i] = s[i]
           /\ Append(s, e)[Len(s) + 1] = e
           /\ ToSet(Append(s, e)) = ToSet(s) \cup {e}
<1> DEFINE t == Append(s, e)
           n == Len(s)
<1>1. /\ t \in Seq(S) /\ Len(t) = n + 1 /\ t[n + 1] = e
      /\ \A i \in 1..n : t[i] = s[i]
  BY AppendProperties
<1>2. n \in Nat /\ DOMAIN s = 1..n /\ DOMAIN t = 1..(n + 1)
  <2>1. Len(t) \in Nat /\ DOMAIN t = 1..Len(t)
    <3> HIDE DEF t
    <3> QED BY <1>1, LenProperties
  <2> QED BY <1>1, <2>1, LenProperties
<1>3. ToSet(t) = ToSet(s) \cup {e}
  <2> HIDE DEF t, n
  <2>1. \A i : i \in 1..(n + 1) <=> i \in 1..n \/ i = n + 1
    BY <1>2
  <2>2. ToSet(t) = {t[i] : i \in 1..(n + 1)} /\ ToSet(s) = {s[i] : i \in 1..n}
    BY <1>2 DEF ToSet
  <2>3. ASSUME NEW x \in ToSet(t) PROVE x \in ToSet(s) \cup {e}
    <3>1. PICK i \in 1..(n + 1) : x = t[i]
      BY <2>2
    <3> QED BY <1>1, <2>1, <2>2, <3>1
  <2>4. ASSUME NEW x \in ToSet(s) PROVE x \in ToSet(t)
    BY <1>1, <2>1, <2>2
  <2>5. e \in ToSet(t)
    <3>1. n + 1 \in 1..(n + 1)
      BY <1>2
    <3> QED BY <1>1, <2>2, <3>1
  <2> QED BY <2>3, <2>4, <2>5
<1> QED BY <1>1, <1>2, <1>3

-----------------------------------------------------------------------------
(* The invariant: what the cache, a reader and an answer have to do with   *)
(* the points that were ever kept.                                         *)

\* Points in the order of time, with the pause of the updater between any two.
Spaced(points) ==
    \A i, j \in DOMAIN points :
        i < j => points[i].timestamp + (j - i) * RequestDelay <= points[j].timestamp

\* when the updater may store its next price
readyAt == IF sweep = noSweep THEN clock ELSE sweep.resume

\* What is cached was kept, and all of it that is not older than the cache's limit.
CacheInv ==
    \A pair \in Pairs :
        /\ Spaced(cache[pair])
        /\ ToSet(cache[pair]) \subseteq kept[pair]
        /\ \A q \in kept[pair] :
              /\ q.timestamp <= clock
              /\ q.timestamp + RequestDelay <= readyAt
              /\ q.timestamp > clock - MaxAge => q \in ToSet(cache[pair])
        /\ \A q, r \in ToSet(cache[pair]) : q.timestamp < r.timestamp + MaxAge

\* A reader has what was in its window, but for points of the very tick it asked.
ReadingInv ==
    reading # noReading =>
        LET held == keptIn(reading.pair, reading.asked, reading.window)
        IN  /\ Spaced(reading.points)
            /\ ToSet(reading.points) \subseteq held
            /\ \A q \in held : q.timestamp < reading.asked => q \in ToSet(reading.points)

Answered == [pc : {"weighing"}, pair : Pairs, window : Windows,
             points : Seq(PricePoint), asked : 0..clock]

AnswerInv ==
    /\ answer # noAnswer => answer.call \in Answered
    /\ AnswersAreWithinPrices
    /\ RefusalsAreRight

PriceInv == TypeOK /\ CacheInv /\ ReadingInv /\ AnswerInv

-----------------------------------------------------------------------------
(* Spaced points.                                                          *)

LEMMA SpacedNothing == Spaced(<<>>)
BY DEF Spaced

LEMMA TimeTypes ==
    /\ RequestDelay \in Nat \ {0} /\ MaxAge \in Nat \ {0} /\ RecentWindow \in Nat \ {0}
    /\ TicksPerSecond \in Nat \ {0} /\ SweepTimeout \in Nat /\ MaxClock \in Nat
    /\ RecentWindow <= MaxAge
    /\ Windows \subseteq Nat /\ \A window \in Windows : window <= MaxAge /\ window > 0
BY PricesAssumption

LEMMA PointParts ==
    ASSUME NEW s \in Seq(PricePoint), NEW i \in 1..Len(s)
    PROVE  /\ s[i] \in PricePoint /\ s[i].timestamp \in Nat /\ s[i].price \in Nat \ {0}
           /\ s[i] \in ToSet(s)
<1>1. s[i] \in PricePoint /\ DOMAIN s = 1..Len(s)
  BY SeqParts
<1>2. s[i] \in ToSet(s)
  BY <1>1 DEF ToSet
<1> QED BY <1>1, <1>2 DEF PricePoint

LEMMA Multiples ==
    ASSUME NEW k \in Nat \ {0}, NEW d \in Nat \ {0}
    PROVE  k * d \in Nat /\ d <= k * d /\ (k + 1) * d = k * d + d
OBVIOUS

LEMMA SpacedIsOrdered ==
    ASSUME NEW s \in Seq(PricePoint), Spaced(s), NEW i \in DOMAIN s, NEW j \in DOMAIN s, i < j
    PROVE  s[i].timestamp + RequestDelay <= s[j].timestamp
<1>1. i \in Nat /\ j \in Nat /\ j - i \in Nat \ {0} /\ RequestDelay \in Nat \ {0}
      /\ s[i].timestamp \in Nat /\ s[j].timestamp \in Nat
  BY SeqParts, PointParts, TimeTypes
<1>2. s[i].timestamp + (j - i) * RequestDelay <= s[j].timestamp
  BY DEF Spaced
<1>3. RequestDelay <= (j - i) * RequestDelay /\ (j - i) * RequestDelay \in Nat
  BY <1>1, Multiples
<1> QED BY <1>1, <1>2, <1>3

LEMMA SpacedAppend ==
    ASSUME NEW s \in Seq(PricePoint), Spaced(s), NEW q \in PricePoint,
           \A r \in ToSet(s) : r.timestamp + RequestDelay <= q.timestamp
    PROVE  Spaced(Append(s, q))
<1> DEFINE t == Append(s, q)
           n == Len(s)
<1>1. /\ n \in Nat /\ DOMAIN s = 1..n /\ DOMAIN t = 1..(n + 1)
      /\ \A i \in 1..n : t[i] = s[i] /\ s[i].timestamp \in Nat /\ s[i] \in ToSet(s)
      /\ t[n + 1] = q /\ q.timestamp \in Nat /\ RequestDelay \in Nat \ {0}
  BY SeqParts, AppendParts, PointParts, TimeTypes DEF PricePoint
<1> HIDE DEF t, n
<1> SUFFICES ASSUME NEW i \in 1..(n + 1), NEW j \in 1..(n + 1), i < j
             PROVE  t[i].timestamp + (j - i) * RequestDelay <= t[j].timestamp
  BY <1>1 DEF Spaced, t
<1>2. CASE j \in 1..n
  <2>1. i \in 1..n
    BY <1>1, <1>2
  <2> QED BY <1>1, <1>2, <2>1 DEF Spaced
<1>3. CASE j = n + 1
  <2>1. i \in 1..n /\ t[i] = s[i] /\ t[j] = q
    BY <1>1, <1>3
  <2>2. CASE i = n
    <3>1. (j - i) * RequestDelay = RequestDelay
      BY <1>1, <1>3, <2>2
    <3> QED BY <1>1, <2>1, <3>1
  <2>3. CASE i # n
    <3>1. n \in 1..n /\ i < n /\ n - i \in Nat \ {0} /\ j - i = (n - i) + 1
      BY <1>1, <1>3, <2>1, <2>3
    <3>2. /\ s[i].timestamp + (n - i) * RequestDelay <= s[n].timestamp
          /\ s[n].timestamp + RequestDelay <= q.timestamp
      BY <1>1, <2>1, <3>1 DEF Spaced
    <3>3. /\ (j - i) * RequestDelay = (n - i) * RequestDelay + RequestDelay
          /\ (n - i) * RequestDelay \in Nat
      BY <1>1, <3>1, Multiples
    <3> QED BY <1>1, <2>1, <3>1, <3>2, <3>3
  <2> QED BY <2>2, <2>3
<1> QED BY <1>1, <1>2, <1>3

-----------------------------------------------------------------------------
(* The filter of age.                                                      *)

\* taken takes the points younger than age one after the other.
Takes(taken, points, age, n) ==
    taken = [i \in 0..n |-> IF i = 0 THEN <<>>
                            ELSE IF points[i].timestamp > clock - age
                                 THEN Append(taken[i - 1], points[i])
                            ELSE taken[i - 1]]

LEMMA TakesExists ==
    ASSUME NEW points, NEW age, NEW n \in Nat
    PROVE  \E taken : Takes(taken, points, age, n)
<1> DEFINE good == {k \in 0..n : \E taken : Takes(taken, points, age, k)}
<1>1. 0 \in good
  <2> DEFINE taken == [i \in 0..0 |-> <<>>]
  <2>1. taken = [i \in 0..0 |-> taken[i]]
    OBVIOUS
  <2>2. \A i \in 0..0 : i = 0 /\ taken[i] = <<>>
    OBVIOUS
  <2> HIDE DEF taken
  <2>3. Takes(taken, points, age, 0)
    BY <2>1, <2>2 DEF Takes
  <2> QED BY <2>3
<1>2. ASSUME NEW k \in 0..(n - 1), k \in good PROVE k + 1 \in good
  <2>1. PICK before : Takes(before, points, age, k)
    BY <1>2
  <2> DEFINE taken == [i \in 0..(k + 1) |->
                          IF i \in 0..k THEN before[i]
                          ELSE IF points[i].timestamp > clock - age
                               THEN Append(before[k], points[i])
                          ELSE before[k]]
             step(f, i) == IF i = 0 THEN <<>>
                           ELSE IF points[i].timestamp > clock - age
                                THEN Append(f[i - 1], points[i])
                           ELSE f[i - 1]
  <2>2. ASSUME NEW i \in 0..(k + 1) PROVE taken[i] = step(taken, i)
    <3>1. CASE i \in 0..k
      <4>1. taken[i] = before[i] /\ before[i] = step(before, i)
        BY <2>1, <3>1 DEF Takes
      <4>2. i # 0 => i - 1 \in 0..k /\ i - 1 \in 0..(k + 1) /\ taken[i - 1] = before[i - 1]
        BY <3>1
      <4> HIDE DEF taken
      <4> QED BY <4>1, <4>2
    <3>2. CASE i = k + 1
      <4>1. i \notin 0..k /\ i # 0 /\ i - 1 = k /\ k \in 0..k /\ k \in 0..(k + 1)
        BY <3>2
      <4>2. taken[k] = before[k]
        BY <4>1
      <4>3. taken[i] = IF points[i].timestamp > clock - age
                       THEN Append(before[k], points[i]) ELSE before[k]
        BY <4>1
      <4> HIDE DEF taken
      <4> QED BY <4>1, <4>2, <4>3
    <3> QED BY <3>1, <3>2
  <2>3. taken = [i \in 0..(k + 1) |-> taken[i]]
    OBVIOUS
  <2> HIDE DEF taken
  <2>4. Takes(taken, points, age, k + 1)
    BY <2>2, <2>3 DEF Takes
  <2> QED BY <2>4
<1> HIDE DEF good
<1>3. n \in good
  BY <1>1, <1>2, AlongRange
<1> QED BY <1>3 DEF good

\* The filter keeps the points that are young, and their order.
LEMMA YoungerFacts ==
    ASSUME NEW points \in Seq(PricePoint), NEW age
    PROVE  /\ younger(points, age) \in Seq(PricePoint)
           /\ ToSet(younger(points, age)) =
                  {q \in ToSet(points) : q.timestamp > clock - age}
           /\ Spaced(points) => Spaced(younger(points, age))
<1> DEFINE n == Len(points)
           taken == CHOOSE f : Takes(f, points, age, n)
           young(q) == q.timestamp > clock - age
           good == {k \in 0..n :
                       /\ taken[k] \in Seq(PricePoint)
                       /\ ToSet(taken[k]) = {points[i] : i \in {j \in 1..k : young(points[j])}}
                       /\ Spaced(points) => Spaced(taken[k])}
<1>1. n \in Nat /\ DOMAIN points = 1..n /\ \A i \in 1..n : points[i] \in PricePoint
  BY SeqParts
<1>2. younger(points, age) = taken[n]
  BY DEF younger, Takes
<1>3. Takes(taken, points, age, n)
  BY <1>1, TakesExists
<1> HIDE DEF taken, n
<1>4. 0 \in good
  <2>1. taken[0] = <<>>
    BY <1>1, <1>3 DEF Takes
  <2>2. ToSet(<<>>) = {} /\ <<>> \in Seq(PricePoint)
    BY DEF ToSet
  <2>3. {points[i] : i \in {j \in 1..0 : young(points[j])}} = {}
    OBVIOUS
  <2>4. 0 \in 0..n
    BY <1>1
  <2> HIDE DEF young
  <2> QED BY <2>1, <2>2, <2>3, <2>4, SpacedNothing
<1>5. ASSUME NEW k \in 0..(n - 1), k \in good PROVE k + 1 \in good
  <2> DEFINE q == points[k + 1]
  <2>1. /\ k + 1 \in 0..n /\ k + 1 \in 1..n /\ k \in Nat /\ k + 1 # 0 /\ (k + 1) - 1 = k
        /\ q \in PricePoint
    BY <1>1
  <2>2. taken[k + 1] = IF young(q) THEN Append(taken[k], q) ELSE taken[k]
    BY <1>3, <2>1 DEF Takes
  <2>3. /\ taken[k] \in Seq(PricePoint)
        /\ ToSet(taken[k]) = {points[i] : i \in {j \in 1..k : young(points[j])}}
        /\ Spaced(points) => Spaced(taken[k])
    BY <1>5
  <2>4. \A i : i \in 1..(k + 1) <=> i \in 1..k \/ i = k + 1
    BY <2>1
  <2>5. CASE young(q)
    <3>1. taken[k + 1] = Append(taken[k], q)
      BY <2>2, <2>5
    <3>2. taken[k + 1] \in Seq(PricePoint) /\ ToSet(taken[k + 1]) = ToSet(taken[k]) \cup {q}
      BY <2>1, <2>3, <3>1, AppendParts
    <3>3. ToSet(taken[k + 1]) = {points[i] : i \in {j \in 1..(k + 1) : young(points[j])}}
      BY <2>3, <2>4, <2>5, <3>2
    <3>4. ASSUME Spaced(points) PROVE Spaced(taken[k + 1])
      <4>1. ASSUME NEW r \in ToSet(taken[k]) PROVE r.timestamp + RequestDelay <= q.timestamp
        <5>1. PICK i \in 1..k : r = points[i]
          BY <2>3
        <5>2. i \in 1..n /\ i < k + 1
          BY <1>1, <2>1
        <5> QED BY <1>1, <2>1, <3>4, <5>1, <5>2, SpacedIsOrdered
      <4> QED BY <2>1, <2>3, <3>1, <3>4, <4>1, SpacedAppend
    <3> QED BY <2>1, <3>2, <3>3, <3>4
  <2>6. CASE ~young(q)
    <3>1. taken[k + 1] = taken[k]
      BY <2>2, <2>6
    <3>2. {j \in 1..(k + 1) : young(points[j])} = {j \in 1..k : young(points[j])}
      BY <2>4, <2>6
    <3> QED BY <2>1, <2>3, <3>1, <3>2
  <2> QED BY <2>5, <2>6
<1>6. n \in good
  <2> HIDE DEF good
  <2>1. \A k \in 0..n : k \in good
    BY <1>1, <1>4, <1>5, AlongRange
  <2> QED BY <1>1, <2>1
<1>7. /\ taken[n] \in Seq(PricePoint)
      /\ Spaced(points) => Spaced(taken[n])
      /\ ToSet(taken[n]) = {points[i] : i \in {j \in 1..n : young(points[j])}}
  BY <1>6
<1>8. ToSet(taken[n]) = {q \in ToSet(points) : young(q)}
  BY <1>1, <1>7 DEF ToSet
<1> QED BY <1>2, <1>7, <1>8

-----------------------------------------------------------------------------
(* The weighing.                                                           *)

LEMMA SecondsType ==
    ASSUME NEW ticks \in Nat
    PROVE  seconds(ticks) \in Nat
BY TimeTypes DEF seconds

\* What calculateTWAP answers on points in the order of time: an average between
\* two prices, or a refusal for its reason.
LEMMA EngineAnswers ==
    ASSUME clock \in Nat, NEW window \in Nat, NEW points \in Seq(PricePoint), Spaced(points)
    PROVE  LET result == engineTWAP(points, window) IN
           /\ result.outcome \in {"price", "no data", "insufficient data"}
           /\ result.outcome = "price" =>
                  /\ \E q \in ToSet(points) : q.price * result.weight <= result.value
                  /\ \E q \in ToSet(points) : result.value <= q.price * result.weight
           /\ result.outcome = "no data" => points = <<>>
           /\ result.outcome = "insufficient data" =>
                  \E q \in ToSet(points) : q.timestamp < clock - window
<1> DEFINE n == Len(points)
           w == weightsOf(points)
           v == valuesOf(points)
           p == [i \in 1..n |-> points[i].price]
           used == inWindow(points, window)
           result == engineTWAP(points, window)
<1>1. /\ n \in Nat /\ DOMAIN points = 1..n
      /\ points = <<>> <=> n = 0
      /\ \A i \in 1..n : /\ points[i] \in ToSet(points)
                         /\ points[i].timestamp \in Nat /\ points[i].price \in Nat
  BY SeqParts, PointParts
<1>2. \A i \in 1..n : weightOf(points, i) \in Nat
  <2> SUFFICES ASSUME NEW i \in 1..n PROVE weightOf(points, i) \in Nat
    OBVIOUS
  <2>1. CASE i = 1
    BY <2>1 DEF weightOf
  <2>2. CASE i # 1
    <3>1. i \in 1..n /\ i - 1 \in 1..n /\ i - 1 < i
      BY <1>1, <2>2
    <3>2. points[i - 1].timestamp + RequestDelay <= points[i].timestamp
      BY <1>1, <3>1, SpacedIsOrdered
    <3>3. points[i].timestamp - points[i - 1].timestamp \in Nat
      BY <1>1, <3>1, <3>2, TimeTypes
    <3> QED BY <2>2, <3>3, SecondsType DEF weightOf
  <2> QED BY <2>1, <2>2
<1>3. /\ used \subseteq 1..n /\ IsFiniteSet(used)
      /\ \A i \in 1..n : i \in used <=> points[i].timestamp >= clock - window
  <2>1. used \subseteq 1..n /\ \A i \in 1..n : i \in used <=> points[i].timestamp >= clock - window
    BY <1>1 DEF inWindow
  <2>2. IsFiniteSet(1..n)
    BY <1>1, FS_Interval
  <2> HIDE DEF used
  <2> QED BY <2>1, <2>2, FS_Subset
<1>4. \A i \in 1..n : /\ w[i] = weightOf(points, i) /\ w[i] \in Nat
                      /\ p[i] = points[i].price /\ p[i] \in Nat
                      /\ v[i] = p[i] * w[i]
  BY <1>1, <1>2 DEF weightsOf, valuesOf
<1>5. result = IF points = <<>> THEN refused("no data")
               ELSE IF n = 1 THEN priced(points[1].price, 1)
               ELSE IF SumFunctionOnSet(w, used) = 0 THEN refused("insufficient data")
               ELSE priced(SumFunctionOnSet(v, used), SumFunctionOnSet(w, used))
  BY DEF engineTWAP
<1> HIDE DEF result, w, v, p, used, n
<1>6. CASE points = <<>>
  <2>1. result.outcome = "no data"
    BY <1>5, <1>6 DEF refused
  <2> QED BY <1>6, <2>1 DEF result
<1>7. CASE n = 1
  <2>1. result = [outcome |-> "price", value |-> points[1].price, weight |-> 1]
    BY <1>1, <1>5, <1>7 DEF priced
  <2>2. 1 \in 1..n /\ points[1].price * 1 <= points[1].price /\ points[1].price <= points[1].price * 1
    BY <1>1, <1>7
  <2>3. result.outcome = "price" /\ result.value = points[1].price /\ result.weight = 1
    BY <2>1
  <2>4. \E q \in ToSet(points) : q.price * result.weight <= result.value
    BY <1>1, <2>2, <2>3
  <2>5. \E q \in ToSet(points) : result.value <= q.price * result.weight
    BY <1>1, <2>2, <2>3
  <2> QED BY <2>3, <2>4, <2>5 DEF result
<1>8. CASE points # <<>> /\ n # 1 /\ SumFunctionOnSet(w, used) = 0
  <2>1. result.outcome = "insufficient data"
    BY <1>5, <1>8 DEF refused
  <2>2. 1 \in 1..n
    <3>1. n \in Nat /\ n # 0
      BY <1>1, <1>8
    <3> QED BY <3>1
  <2>3. 1 \notin used
    <3> SUFFICES ASSUME 1 \in used PROVE FALSE
      OBVIOUS
    <3>1. SumFunctionOnSet(w, used) = w[1] + SumFunctionOnSet(w, used \ {1})
      <4>1. \A i \in used : w[i] \in Int
        BY <1>3, <1>4
      <4>2. IsFiniteSet(used)
        BY <1>3
      <4> QED BY <4>1, <4>2, SumWithout
    <3>2. SumFunctionOnSet(w, used \ {1}) \in Nat
      <4>1. IsFiniteSet(used \ {1}) /\ \A i \in used \ {1} : w[i] \in Nat
        BY <1>3, <1>4, FS_Subset
      <4> QED BY <4>1, SumOfNaturals
    <3>3. w[1] = 1
      BY <1>4, <2>2 DEF weightOf
    <3> QED BY <1>8, <3>1, <3>2, <3>3
  <2>4. points[1].timestamp < clock - window
    BY <1>1, <1>3, <2>2, <2>3
  <2>5. \E q \in ToSet(points) : q.timestamp < clock - window
    BY <1>1, <2>2, <2>4
  <2> QED BY <2>1, <2>5 DEF result
<1>9. CASE points # <<>> /\ n # 1 /\ SumFunctionOnSet(w, used) # 0
  <2>1. result = [outcome |-> "price", value |-> SumFunctionOnSet(v, used),
                  weight |-> SumFunctionOnSet(w, used)]
    BY <1>5, <1>9 DEF priced
  <2>2. \A i \in used : w[i] \in Nat /\ p[i] \in Nat /\ v[i] = p[i] * w[i]
    BY <1>3, <1>4
  <2>3. /\ \E i \in used : p[i] * SumFunctionOnSet(w, used) <= SumFunctionOnSet(v, used)
        /\ \E i \in used : SumFunctionOnSet(v, used) <= p[i] * SumFunctionOnSet(w, used)
    BY <1>3, <1>9, <2>2, WeightedMean
  <2>4. \A i \in used : p[i] = points[i].price /\ points[i] \in ToSet(points)
    BY <1>1, <1>3, <1>4
  <2>5. /\ result.outcome = "price" /\ result.value = SumFunctionOnSet(v, used)
        /\ result.weight = SumFunctionOnSet(w, used)
    BY <2>1
  <2>6. \E q \in ToSet(points) : q.price * result.weight <= result.value
    BY <2>3, <2>4, <2>5
  <2>7. \E q \in ToSet(points) : result.value <= q.price * result.weight
    BY <2>3, <2>4, <2>5
  <2> QED BY <2>5, <2>6, <2>7 DEF result
<1> QED BY <1>6, <1>7, <1>8, <1>9

-----------------------------------------------------------------------------
(* The invariant holds initially, and every step keeps it.                 *)

LEMMA AttemptsType == attempts \in Nat
<1>1. Len(TokenPairs) \in Nat /\ Len(Sources) \in Nat
  BY PricesAssumption, LenProperties
<1> QED BY <1>1 DEF attempts

LEMMA QuotientBelow ==
    ASSUME NEW a \in Nat, NEW b \in Nat, NEW k \in 1..(a * b)
    PROVE  (k - 1) \div b \in 0..(a - 1) /\ (k - 1) % b \in 0..(b - 1)
<1>1. b # 0
  OBVIOUS
<1> DEFINE q == (k - 1) \div b
<1>2. q \in Int /\ b * q <= k - 1 /\ k - 1 < b * q + b /\ (k - 1) % b \in 0..(b - 1)
  BY <1>1
<1> HIDE DEF q
<1>3. q >= 0
  <2> SUFFICES ASSUME q <= -1 PROVE FALSE
    BY <1>2
  <2>1. b * q <= -b
    BY <1>1, <1>2
  <2> QED BY <1>2, <2>1
<1>4. q <= a - 1
  <2> SUFFICES ASSUME q >= a PROVE FALSE
    BY <1>2
  <2>1. b * q >= b * a /\ b * a = a * b
    BY <1>2
  <2> QED BY <1>2, <2>1
<1> QED BY <1>2, <1>3, <1>4 DEF q

LEMMA AttemptParts ==
    ASSUME NEW k \in 1..attempts
    PROVE  pairAt(k) \in Pairs /\ sourceAt(k) \in ToSet(Sources)
<1>1. /\ Len(TokenPairs) \in Nat /\ \A i \in 1..Len(TokenPairs) : TokenPairs[i] \in Pairs
      /\ Len(Sources) \in Nat /\ \A i \in 1..Len(Sources) : Sources[i] \in ToSet(Sources)
  BY PricesAssumption, SeqParts
<1>2. /\ (k - 1) \div Len(Sources) \in 0..(Len(TokenPairs) - 1)
      /\ (k - 1) % Len(Sources) \in 0..(Len(Sources) - 1)
  BY <1>1, QuotientBelow DEF attempts
<1>3. /\ ((k - 1) \div Len(Sources)) + 1 \in 1..Len(TokenPairs)
      /\ ((k - 1) % Len(Sources)) + 1 \in 1..Len(Sources)
  BY <1>1, <1>2
<1> QED BY <1>1, <1>3 DEF pairAt, sourceAt

LEMMA ValidPrices ==
    ASSUME NEW s \in ToSet(Sources), NEW pair \in Pairs, NEW price \in validPrices(s, pair)
    PROVE  price \in Nat \ {0}
<1>1. Quotes[s][pair] \subseteq Nat
  BY PricesAssumption
<1> QED BY <1>1 DEF validPrices

LEMMA ClockType ==
    ASSUME TypeOK
    PROVE  /\ clock \in Nat /\ clock <= MaxClock /\ readyAt \in Nat
           /\ \A pair \in Pairs : cache[pair] \in Seq(PricePoint) /\ kept[pair] \subseteq PricePoint
<1>1. clock \in 0..MaxClock
  BY DEF TypeOK
<1>2. clock \in Nat /\ clock <= MaxClock
  BY <1>1, TimeTypes
<1>3. readyAt \in Nat
  BY <1>2 DEF TypeOK, readyAt, noSweep
<1>4. \A pair \in Pairs : cache[pair] \in Seq(PricePoint) /\ kept[pair] \subseteq PricePoint
  BY DEF TypeOK
<1> QED BY <1>2, <1>3, <1>4

LEMMA InitPriceInv == Init => PriceInv
<1> SUFFICES ASSUME Init PROVE PriceInv
  OBVIOUS
<1> USE DEF Init, noSweep, noReading, noAnswer
<1>1. TypeOK
  <2>1. clock \in 0..MaxClock
    BY TimeTypes
  <2>2. cache \in [Pairs -> Seq(PricePoint)] /\ kept \in [Pairs -> SUBSET PricePoint]
    OBVIOUS
  <2> QED BY <2>1, <2>2 DEF TypeOK
<1>2. CacheInv
  BY SpacedNothing DEF CacheInv, ToSet
<1>3. ReadingInv /\ AnswerInv
  BY DEF ReadingInv, AnswerInv, AnswersAreWithinPrices, RefusalsAreRight
<1> QED BY <1>1, <1>2, <1>3 DEF PriceInv

\* Steps that leave the points alone.
LEMMA PointsAlone ==
    ASSUME PriceInv, UNCHANGED <<cache, kept>>, clock' \in Nat, clock' >= clock,
           readyAt' \in Nat, readyAt' >= readyAt
    PROVE  CacheInv'
<1>1. /\ clock \in Nat /\ readyAt \in Nat
      /\ \A pair \in Pairs : \A q \in kept[pair] : q.timestamp \in Nat
  BY ClockType DEF PriceInv, PricePoint
<1> SUFFICES ASSUME NEW pair \in Pairs, NEW q \in kept[pair]
             PROVE  /\ q.timestamp <= clock'
                    /\ q.timestamp + RequestDelay <= readyAt'
                    /\ q.timestamp > clock' - MaxAge => q \in ToSet(cache[pair])
  BY DEF PriceInv, CacheInv, Spaced
<1>2. /\ q.timestamp <= clock
      /\ q.timestamp + RequestDelay <= readyAt
      /\ q.timestamp > clock - MaxAge => q \in ToSet(cache[pair])
      /\ q.timestamp \in Nat
  BY <1>1 DEF PriceInv, CacheInv
<1> QED BY <1>1, <1>2, TimeTypes

\* Points kept later are no younger than what a reader asked for.
LEMMA HeldGrows ==
    ASSUME PriceInv, NEW pair \in Pairs, NEW moment \in 0..clock, NEW window \in Windows,
           \A q \in kept'[pair] : q \in kept[pair] \/ q.timestamp = clock,
           kept[pair] \subseteq kept'[pair]
    PROVE  /\ keptIn(pair, moment, window) \subseteq keptIn(pair, moment, window)'
           /\ \A q \in keptIn(pair, moment, window)' :
                  q \in keptIn(pair, moment, window) \/ q.timestamp = moment
<1>1. clock \in Nat
  BY ClockType DEF PriceInv
<1>2. keptIn(pair, moment, window)' =
         {q \in kept'[pair] : moment - window < q.timestamp /\ q.timestamp <= moment}
  BY DEF keptIn
<1>3. keptIn(pair, moment, window) \subseteq keptIn(pair, moment, window)'
  BY <1>2 DEF keptIn
<1>4. ASSUME NEW q \in keptIn(pair, moment, window)', q \notin keptIn(pair, moment, window)
      PROVE  q.timestamp = moment
  <2>1. q.timestamp = clock /\ q.timestamp <= moment
    BY <1>2, <1>4 DEF keptIn
  <2> QED BY <1>1, <2>1
<1> QED BY <1>3, <1>4

LEMMA UntouchedReader ==
    ASSUME PriceInv, UNCHANGED <<clock, reading, answer, kept>>
    PROVE  ReadingInv' /\ AnswerInv'
<1>1. ReadingInv'
  BY DEF PriceInv, ReadingInv, keptIn, Spaced
<1>2. AnswerInv'
  BY DEF PriceInv, AnswerInv, Answered, AnswersAreWithinPrices, RefusalsAreRight, keptIn
<1> QED BY <1>1, <1>2

LEMMA SweepStep ==
    ASSUME PriceInv, startSweep \/ sourceFails \/ endSweep
    PROVE  PriceInv'
<1>1. /\ UNCHANGED <<clock, cache, reading, answer, kept>>
      /\ TypeOK /\ clock \in Nat /\ readyAt \in Nat
  BY ClockType DEF startSweep, sourceFails, endSweep, PriceInv
<1>2. /\ \/ sweep' = noSweep
         \/ sweep' \in [pc : {"asking"}, next : 1..(attempts + 1), resume : Nat, deadline : Nat]
      /\ readyAt' \in Nat /\ readyAt' >= readyAt
  <2>1. CASE startSweep
    <3>1. sweep' = [pc |-> "asking", next |-> 1, resume |-> clock,
                    deadline |-> clock + SweepTimeout]
      BY <2>1 DEF startSweep
    <3>2. 1 \in 1..(attempts + 1) /\ clock + SweepTimeout \in Nat
      BY <1>1, AttemptsType, TimeTypes
    <3>3. sweep' # noSweep /\ readyAt' = clock /\ readyAt = clock
      BY <2>1, <3>1 DEF startSweep, readyAt, noSweep
    <3> QED BY <1>1, <3>1, <3>2, <3>3
  <2>2. CASE sourceFails
    <3>1. /\ sweep \in [pc : {"asking"}, next : 1..(attempts + 1), resume : Nat, deadline : Nat]
          /\ sweep.next <= attempts /\ sweep' = [sweep EXCEPT !.next = @ + 1]
      BY <1>1, <2>2 DEF sourceFails, asking, TypeOK
    <3>2. sweep.next + 1 \in 1..(attempts + 1)
      BY <3>1, AttemptsType
    <3>3. /\ sweep' \in [pc : {"asking"}, next : 1..(attempts + 1), resume : Nat, deadline : Nat]
          /\ sweep'.resume = sweep.resume /\ sweep # noSweep /\ sweep' # noSweep
      BY <3>1, <3>2 DEF noSweep
    <3> QED BY <1>1, <3>3 DEF readyAt
  <2>3. CASE endSweep
    <3>1. sweep' = noSweep /\ readyAt' = clock /\ clock >= readyAt
      BY <1>1, <2>3 DEF endSweep, readyAt
    <3> QED BY <1>1, <3>1
  <2> QED BY <2>1, <2>2, <2>3
<1>3. TypeOK'
  BY <1>1, <1>2 DEF TypeOK
<1>4. CacheInv'
  BY <1>1, <1>2, PointsAlone
<1> QED BY <1>1, <1>3, <1>4, UntouchedReader DEF PriceInv

LEMMA TickStep ==
    ASSUME PriceInv, Tick
    PROVE  PriceInv'
<1>1. /\ clock' = clock + 1 /\ clock < MaxClock /\ clock \in Nat /\ readyAt \in Nat
      /\ UNCHANGED <<cache, sweep, reading, answer, kept>> /\ TypeOK
  BY ClockType DEF Tick, PriceInv
<1>2. clock' \in 0..MaxClock /\ 0..clock \subseteq 0..clock' /\ clock' \in Nat /\ clock' >= clock
  BY <1>1, TimeTypes
<1>3. readyAt' \in Nat /\ readyAt' >= readyAt
  BY <1>1, <1>2 DEF readyAt
<1>4. TypeOK'
  <2>1. \/ reading' = noReading
        \/ reading' \in [pc : {"weighing"}, pair : Pairs, window : Windows,
                         points : Seq(PricePoint), asked : 0..clock']
    BY <1>1, <1>2 DEF TypeOK
  <2> QED BY <1>1, <1>2, <2>1 DEF TypeOK
<1>5. CacheInv'
  BY <1>1, <1>2, <1>3, PointsAlone
<1>6. ReadingInv'
  BY <1>1 DEF PriceInv, ReadingInv, keptIn, Spaced
<1>7. AnswerInv'
  <2>1. Answered \subseteq Answered'
    BY <1>2 DEF Answered
  <2>2. AnswersAreWithinPrices' /\ RefusalsAreRight'
    BY <1>1 DEF PriceInv, AnswerInv, AnswersAreWithinPrices, RefusalsAreRight, keptIn
  <2> QED BY <1>1, <2>1, <2>2 DEF PriceInv, AnswerInv
<1> QED BY <1>4, <1>5, <1>6, <1>7 DEF PriceInv

LEMMA RestartStep ==
    ASSUME PriceInv, Restart
    PROVE  PriceInv'
<1>1. /\ cache' = [p \in Pairs |-> <<>>] /\ kept' = [p \in Pairs |-> {}]
      /\ sweep' = noSweep /\ reading' = noReading /\ answer' = noAnswer /\ clock' = clock
  BY DEF Restart
<1>2. TypeOK'
  <2>1. cache' \in [Pairs -> Seq(PricePoint)] /\ kept' \in [Pairs -> SUBSET PricePoint]
    BY <1>1
  <2>2. answer'.result.outcome = "none" /\ clock' \in 0..MaxClock
    BY <1>1 DEF noAnswer, PriceInv, TypeOK
  <2> QED BY <1>1, <2>1, <2>2 DEF TypeOK
<1>3. CacheInv'
  <2>1. \A pair \in Pairs : cache'[pair] = <<>> /\ kept'[pair] = {}
    BY <1>1
  <2>2. ToSet(<<>>) = {}
    BY DEF ToSet
  <2> QED BY <2>1, <2>2, SpacedNothing DEF CacheInv, Spaced
<1>4. ReadingInv' /\ AnswerInv'
  BY <1>1 DEF ReadingInv, AnswerInv, AnswersAreWithinPrices, RefusalsAreRight, noAnswer
<1> QED BY <1>2, <1>3, <1>4 DEF PriceInv

\* A price is stored: at this moment, and no earlier than the pause after the last.
LEMMA StoreCache ==
    ASSUME PriceInv, storePricePoint
    PROVE  /\ TypeOK' /\ CacheInv'
           /\ \A pair \in Pairs : /\ kept[pair] \subseteq kept'[pair]
                                  /\ \A q \in kept'[pair] : q \in kept[pair] \/ q.timestamp = clock
<1> DEFINE pair == pairAt(sweep.next)
<1>1. /\ TypeOK /\ CacheInv /\ clock \in Nat
      /\ sweep \in [pc : {"asking"}, next : 1..(attempts + 1), resume : Nat, deadline : Nat]
      /\ sweep # noSweep /\ sweep.next <= attempts /\ clock >= sweep.resume
      /\ sweep' = [sweep EXCEPT !.next = @ + 1, !.resume = resumeAt]
      /\ UNCHANGED <<clock, reading, answer>>
  BY ClockType DEF PriceInv, TypeOK, storePricePoint, asking
<1>2. sweep.next \in 1..attempts /\ sweep.next + 1 \in 1..(attempts + 1)
  BY <1>1, AttemptsType
<1>3. pair \in Pairs /\ sourceAt(sweep.next) \in ToSet(Sources)
  BY <1>2, AttemptParts
<1>4. PICK price \in Nat \ {0} :
          LET q == [timestamp |-> clock, price |-> price]
          IN  /\ cache' = [cache EXCEPT ![pair] = addPricePoint(@, q)]
              /\ kept' = [kept EXCEPT ![pair] = @ \cup {q}]
  BY <1>3, ValidPrices DEF storePricePoint
<1> DEFINE q == [timestamp |-> clock, price |-> price]
           old == cache[pair]
           new == Append(old, q)
<1>5. /\ old \in Seq(PricePoint) /\ q \in PricePoint /\ q.timestamp = clock
      /\ \A p \in Pairs : kept[p] \subseteq PricePoint
  BY <1>1, <1>3, ClockType DEF PricePoint
<1> HIDE DEF pair, q
<1>6. /\ \A p \in Pairs : cache'[p] = IF p = pair THEN younger(new, MaxAge) ELSE cache[p]
      /\ \A p \in Pairs : kept'[p] = IF p = pair THEN kept[p] \cup {q} ELSE kept[p]
  BY <1>1, <1>4 DEF q, TypeOK, addPricePoint
<1>7. readyAt = sweep.resume /\ readyAt' = clock + RequestDelay /\ readyAt' \in Nat
      /\ sweep' \in [pc : {"asking"}, next : 1..(attempts + 1), resume : Nat, deadline : Nat]
      /\ readyAt \in Nat /\ readyAt <= clock
  <2>1. resumeAt = clock + RequestDelay /\ resumeAt \in Nat
    BY <1>1, TimeTypes DEF resumeAt
  <2>2. /\ sweep' \in [pc : {"asking"}, next : 1..(attempts + 1), resume : Nat, deadline : Nat]
        /\ sweep'.resume = resumeAt
    BY <1>1, <1>2, <2>1
  <2>3. sweep' # noSweep
    BY <2>2 DEF noSweep
  <2> QED BY <1>1, <2>1, <2>2, <2>3 DEF readyAt
<1>8. /\ Spaced(old) /\ ToSet(old) \subseteq kept[pair]
      /\ \A r \in kept[pair] : /\ r.timestamp \in Nat /\ r.timestamp <= clock
                               /\ r.timestamp + RequestDelay <= clock
                               /\ r.timestamp > clock - MaxAge => r \in ToSet(old)
  <2>1. ASSUME NEW r \in kept[pair]
        PROVE  /\ r.timestamp \in Nat /\ r.timestamp <= clock
               /\ r.timestamp + RequestDelay <= readyAt
               /\ r.timestamp > clock - MaxAge => r \in ToSet(old)
    BY <1>1, <1>3, <1>5 DEF CacheInv, PricePoint
  <2>2. \A t \in Nat : t + RequestDelay <= readyAt => t + RequestDelay <= clock
    BY <1>1, <1>7, TimeTypes
  <2> QED BY <1>1, <1>3, <2>1, <2>2 DEF CacheInv
<1>9. /\ new \in Seq(PricePoint) /\ ToSet(new) = ToSet(old) \cup {q} /\ Spaced(new)
  BY <1>5, <1>8, AppendParts, SpacedAppend
<1> HIDE DEF new, old
<1>10. /\ younger(new, MaxAge) \in Seq(PricePoint)
       /\ ToSet(younger(new, MaxAge)) = {r \in ToSet(old) \cup {q} : r.timestamp > clock - MaxAge}
       /\ Spaced(younger(new, MaxAge))
  BY <1>9, YoungerFacts
<1>11. TypeOK'
  <2>1. cache' \in [Pairs -> Seq(PricePoint)]
    BY <1>1, <1>4, <1>10 DEF TypeOK, addPricePoint, new, old, q
  <2>2. kept' \in [Pairs -> SUBSET PricePoint]
    BY <1>1, <1>4, <1>5 DEF TypeOK, q
  <2>3. UNCHANGED <<clock, reading, answer>> /\ TypeOK
    BY <1>1
  <2> QED BY <1>7, <2>1, <2>2, <2>3 DEF TypeOK
<1>12. ASSUME NEW p \in Pairs
       PROVE  /\ Spaced(cache'[p])
              /\ ToSet(cache'[p]) \subseteq kept'[p]
              /\ \A r \in kept'[p] : /\ r.timestamp <= clock
                                     /\ r.timestamp + RequestDelay <= readyAt'
                                     /\ r.timestamp > clock - MaxAge => r \in ToSet(cache'[p])
              /\ \A r, t \in ToSet(cache'[p]) : r.timestamp < t.timestamp + MaxAge
  <2>1. CASE p = pair
    <3> DEFINE c == younger(new, MaxAge)
    <3>1. cache'[p] = c /\ kept'[p] = kept[pair] \cup {q}
      BY <1>6, <2>1
    <3>2. Spaced(c) /\ ToSet(c) \subseteq kept[pair] \cup {q}
      BY <1>8, <1>10
    <3>3. ASSUME NEW r \in kept[pair] \cup {q}
          PROVE  /\ r.timestamp \in Nat /\ r.timestamp <= clock
                 /\ r.timestamp + RequestDelay <= readyAt'
                 /\ r.timestamp > clock - MaxAge => r \in ToSet(c)
      <4>1. r.timestamp \in Nat /\ r.timestamp <= clock
        BY <1>1, <1>5, <1>8
      <4>2. r.timestamp > clock - MaxAge => r \in ToSet(c)
        BY <1>8, <1>10
      <4> QED BY <1>1, <1>7, <4>1, <4>2, TimeTypes
    <3>4. ASSUME NEW r \in ToSet(c), NEW t \in ToSet(c) PROVE r.timestamp < t.timestamp + MaxAge
      <4>1. /\ r.timestamp \in Nat /\ r.timestamp <= clock /\ t.timestamp \in Nat
            /\ t.timestamp > clock - MaxAge
        BY <1>10, <3>2, <3>3
      <4> QED BY <1>1, <4>1, TimeTypes
    <3> HIDE DEF c
    <3> QED BY <3>1, <3>2, <3>3, <3>4
  <2>2. CASE p # pair
    <3>1. cache'[p] = cache[p] /\ kept'[p] = kept[p]
      BY <1>6, <2>2
    <3>2. \A t \in Nat : t + RequestDelay <= readyAt => t + RequestDelay <= readyAt'
      BY <1>1, <1>7, TimeTypes
    <3>3. \A r \in kept[p] : r.timestamp \in Nat
      BY <1>5 DEF PricePoint
    <3> QED BY <1>1, <3>1, <3>2, <3>3 DEF CacheInv
  <2> QED BY <2>1, <2>2
<1>13. CacheInv'
  <2>1. \A p \in Pairs : Spaced(cache'[p]) => Spaced(cache[p])'
    BY DEF Spaced
  <2> QED BY <1>1, <1>12, <2>1 DEF CacheInv
<1>14. \A p \in Pairs : /\ kept[p] \subseteq kept'[p]
                        /\ \A r \in kept'[p] : r \in kept[p] \/ r.timestamp = clock
  BY <1>5, <1>6
<1> QED BY <1>11, <1>13, <1>14

LEMMA StoreStep ==
    ASSUME PriceInv, storePricePoint
    PROVE  PriceInv'
<1>1. /\ TypeOK /\ ReadingInv /\ AnswerInv /\ clock \in Nat
      /\ UNCHANGED <<clock, reading, answer>>
  BY ClockType DEF PriceInv, storePricePoint
<1>2. ReadingInv'
  <2> SUFFICES ASSUME reading # noReading
               PROVE  LET held == keptIn(reading.pair, reading.asked, reading.window)
                      IN  /\ ToSet(reading.points) \subseteq held'
                          /\ \A q \in held' : q.timestamp < reading.asked => q \in ToSet(reading.points)
    BY <1>1 DEF ReadingInv, Spaced, keptIn
  <2> DEFINE held == keptIn(reading.pair, reading.asked, reading.window)
  <2>1. reading.pair \in Pairs /\ reading.asked \in 0..clock /\ reading.window \in Windows
    BY <1>1 DEF TypeOK
  <2>2. /\ held \subseteq held'
        /\ \A q \in held' : q \in held \/ q.timestamp = reading.asked
    BY <1>1, <2>1, StoreCache, HeldGrows DEF keptIn
  <2>3. /\ ToSet(reading.points) \subseteq held
        /\ \A q \in held : q.timestamp < reading.asked => q \in ToSet(reading.points)
    BY <1>1 DEF ReadingInv
  <2>4. reading.asked \in Nat
    BY <1>1, <2>1
  <2> HIDE DEF held
  <2>5. \A q \in held' : q.timestamp < reading.asked => q \in ToSet(reading.points)
    BY <2>2, <2>3, <2>4
  <2> QED BY <2>2, <2>3, <2>5 DEF held
<1>3. AnswerInv'
  <2>1. CASE answer = noAnswer
    BY <1>1, <2>1 DEF AnswerInv, AnswersAreWithinPrices, RefusalsAreRight, noAnswer
  <2>2. CASE answer # noAnswer
    <3> DEFINE call == answer.call
               held == keptIn(call.pair, call.asked, call.window)
    <3>1. call \in Answered /\ call.pair \in Pairs /\ call.asked \in 0..clock /\ call.window \in Windows
      BY <1>1, <2>2 DEF AnswerInv, Answered
    <3>2. answer' = answer /\ Answered' = Answered
      BY <1>1 DEF Answered
    <3> HIDE DEF call
    <3>3. /\ held \subseteq keptIn(call.pair, call.asked, call.window)'
          /\ \A q \in keptIn(call.pair, call.asked, call.window)' :
                q \in held \/ q.timestamp = call.asked
      <4>1. \A pair \in Pairs, moment \in 0..clock, window \in Windows :
                /\ keptIn(pair, moment, window) \subseteq
                       {q \in kept'[pair] : moment - window < q.timestamp /\ q.timestamp <= moment}
                /\ \A q \in {q \in kept'[pair] : moment - window < q.timestamp /\ q.timestamp <= moment} :
                       q \in keptIn(pair, moment, window) \/ q.timestamp = moment
        BY StoreCache, HeldGrows DEF keptIn
      <4>2. call' = call
        BY <3>2 DEF call
      <4> QED BY <3>1, <4>1, <4>2 DEF keptIn
    <3>4. AnswersAreWithinPrices' /\ RefusalsAreRight'
      <4>1. call' = call /\ call = answer.call /\ answer' = answer
        BY <3>2 DEF call
      <4>2. AnswersAreWithinPrices /\ RefusalsAreRight
        BY <1>1 DEF AnswerInv
      <4> DEFINE now == keptIn(call.pair, call.asked, call.window)'
      <4>3. /\ AnswersAreWithinPrices' <=>
                  (answer.result.outcome = "price" =>
                      \E low, high \in now :
                          /\ low.price * answer.result.weight <= answer.result.value
                          /\ answer.result.value <= high.price * answer.result.weight)
            /\ RefusalsAreRight' <=>
                  /\ answer.result.outcome = "no data" => \A q \in now : q.timestamp = call.asked
                  /\ answer.result.outcome = "insufficient data" =>
                         \E q \in now : q.timestamp < answer.at - call.window
        BY <2>2, <4>1 DEF AnswersAreWithinPrices, RefusalsAreRight, keptIn
      <4>4. /\ answer.result.outcome = "price" =>
                  \E low, high \in held :
                      /\ low.price * answer.result.weight <= answer.result.value
                      /\ answer.result.value <= high.price * answer.result.weight
            /\ answer.result.outcome = "no data" => \A q \in held : q.timestamp = call.asked
            /\ answer.result.outcome = "insufficient data" =>
                  \E q \in held : q.timestamp < answer.at - call.window
        BY <2>2, <4>1, <4>2 DEF AnswersAreWithinPrices, RefusalsAreRight
      <4> HIDE DEF now, held
      <4>5. held \subseteq now /\ \A q \in now : q \in held \/ q.timestamp = call.asked
        BY <3>3 DEF now
      <4> QED BY <4>3, <4>4, <4>5
    <3> QED BY <3>1, <3>2, <3>4 DEF AnswerInv, call
  <2> QED BY <2>1, <2>2
<1> QED BY <1>2, <1>3, StoreCache DEF PriceInv

\* A reader takes its points out of the cache.
LEMMA WindowOfCache ==
    ASSUME PriceInv, NEW pair \in Pairs, NEW window \in Nat, window <= MaxAge
    PROVE  /\ getPricePoints(pair, window) \in Seq(PricePoint)
           /\ Spaced(getPricePoints(pair, window))
           /\ ToSet(getPricePoints(pair, window)) = keptIn(pair, clock, window)
<1>1. /\ cache[pair] \in Seq(PricePoint) /\ Spaced(cache[pair]) /\ clock \in Nat
      /\ ToSet(cache[pair]) \subseteq kept[pair] /\ kept[pair] \subseteq PricePoint
      /\ \A q \in kept[pair] : /\ q.timestamp <= clock
                               /\ q.timestamp > clock - MaxAge => q \in ToSet(cache[pair])
  BY ClockType DEF PriceInv, CacheInv
<1> DEFINE points == younger(cache[pair], window)
<1>2. /\ points \in Seq(PricePoint) /\ Spaced(points)
      /\ ToSet(points) = {q \in ToSet(cache[pair]) : q.timestamp > clock - window}
  BY <1>1, YoungerFacts
<1> HIDE DEF points
<1>3. \A q \in kept[pair] : /\ q.timestamp \in Nat
                            /\ q.timestamp > clock - window => q.timestamp > clock - MaxAge
                            /\ q.timestamp > clock - window <=> clock - window < q.timestamp
  BY <1>1, TimeTypes DEF PricePoint
<1>4. ToSet(points) = keptIn(pair, clock, window)
  BY <1>1, <1>2, <1>3 DEF keptIn
<1> QED BY <1>2, <1>4 DEF points, getPricePoints

LEMMA GetTWAPStep ==
    ASSUME PriceInv, NEW pair \in Pairs, NEW window \in Windows, GetTWAPPrice(pair, window)
    PROVE  PriceInv'
<1>1. /\ TypeOK /\ CacheInv /\ clock \in Nat
      /\ UNCHANGED <<clock, cache, sweep, kept>> /\ answer' = noAnswer
      /\ reading' = [pc |-> "weighing", pair |-> pair, window |-> window,
                     points |-> getPricePoints(pair, window), asked |-> clock]
  BY ClockType DEF PriceInv, GetTWAPPrice
<1> DEFINE points == getPricePoints(pair, window)
<1>2. points \in Seq(PricePoint) /\ Spaced(points) /\ ToSet(points) = keptIn(pair, clock, window)
  BY WindowOfCache, TimeTypes
<1> HIDE DEF points
<1>3. reading' \in [pc : {"weighing"}, pair : Pairs, window : Windows,
                    points : Seq(PricePoint), asked : 0..clock']
  <2>1. clock \in 0..clock'
    BY <1>1
  <2> QED BY <1>1, <1>2, <2>1 DEF points
<1>4. TypeOK'
  <2>1. answer'.result.outcome = "none"
    BY <1>1 DEF noAnswer
  <2> QED BY <1>1, <1>3, <2>1 DEF TypeOK
<1>5. CacheInv'
  <2>1. readyAt' = readyAt
    BY <1>1 DEF readyAt
  <2> QED BY <1>1, <2>1, PointsAlone, ClockType
<1>6. ReadingInv'
  <2>1. /\ reading'.points = points /\ reading'.pair = pair /\ reading'.window = window
        /\ reading'.asked = clock
    BY <1>1 DEF points
  <2>2. keptIn(reading.pair, reading.asked, reading.window)' = keptIn(pair, clock, window)
    BY <1>1, <2>1 DEF keptIn
  <2>3. Spaced(reading.points)'
    BY <1>2, <2>1 DEF Spaced
  <2> QED BY <1>2, <2>1, <2>2, <2>3 DEF ReadingInv
<1>7. AnswerInv'
  BY <1>1 DEF AnswerInv, AnswersAreWithinPrices, RefusalsAreRight, noAnswer
<1> QED BY <1>4, <1>5, <1>6, <1>7 DEF PriceInv

\* It weighs them, however much later.
LEMMA AnswerStep ==
    ASSUME PriceInv, answerTWAP
    PROVE  PriceInv'
<1> DEFINE result == engineTWAP(reading.points, reading.window)
           held == keptIn(reading.pair, reading.asked, reading.window)
<1>1. /\ TypeOK /\ CacheInv /\ clock \in Nat
      /\ UNCHANGED <<clock, cache, sweep, kept>>
      /\ reading # noReading /\ reading' = noReading
      /\ answer' = [call |-> reading, at |-> clock, result |-> result]
  BY ClockType DEF PriceInv, answerTWAP
<1>2. /\ reading \in Answered /\ reading.points \in Seq(PricePoint) /\ reading.window \in Nat
      /\ Spaced(reading.points) /\ ToSet(reading.points) \subseteq held
      /\ \A q \in held : q.timestamp < reading.asked => q \in ToSet(reading.points)
      /\ reading.asked \in Nat
  <2>1. reading \in Answered
    BY <1>1 DEF TypeOK, Answered
  <2>2. /\ Spaced(reading.points) /\ ToSet(reading.points) \subseteq held
        /\ \A q \in held : q.timestamp < reading.asked => q \in ToSet(reading.points)
    BY <1>1 DEF PriceInv, ReadingInv
  <2>3. /\ reading.points \in Seq(PricePoint) /\ reading.window \in Nat /\ reading.asked \in Nat
    <3>1. reading.points \in Seq(PricePoint) /\ reading.window \in Windows
          /\ reading.asked \in 0..clock
      BY <2>1 DEF Answered
    <3>2. \A t \in 0..clock : t \in Nat
      BY <1>1
    <3>3. reading.window \in Nat
      BY <3>1, TimeTypes
    <3> QED BY <3>1, <3>2, <3>3
  <2> QED BY <2>1, <2>2, <2>3
<1>3. /\ result.outcome \in {"price", "no data", "insufficient data"}
      /\ result.outcome = "price" =>
             /\ \E q \in ToSet(reading.points) : q.price * result.weight <= result.value
             /\ \E q \in ToSet(reading.points) : result.value <= q.price * result.weight
      /\ result.outcome = "no data" => reading.points = <<>>
      /\ result.outcome = "insufficient data" =>
             \E q \in ToSet(reading.points) : q.timestamp < clock - reading.window
  BY <1>1, <1>2, EngineAnswers
<1> HIDE DEF result
<1>4. /\ answer'.call = reading /\ answer'.at = clock /\ answer'.result = result
      /\ keptIn(answer.call.pair, answer.call.asked, answer.call.window)' = held
  BY <1>1 DEF keptIn
<1> HIDE DEF held
<1>5. TypeOK'
  BY <1>1, <1>3, <1>4 DEF TypeOK
<1>6. CacheInv'
  <2>1. readyAt' = readyAt
    BY <1>1 DEF readyAt
  <2> QED BY <1>1, <2>1, PointsAlone, ClockType
<1>7. AnswersAreWithinPrices'
  <2>1. result.outcome = "price" =>
            \E low, high \in held : /\ low.price * result.weight <= result.value
                                    /\ result.value <= high.price * result.weight
    BY <1>2, <1>3
  <2> QED BY <1>4, <2>1 DEF AnswersAreWithinPrices
<1>8. RefusalsAreRight'
  <2>1. result.outcome = "no data" => \A q \in held : q.timestamp = reading.asked
    <3> SUFFICES ASSUME result.outcome = "no data", NEW q \in held
                 PROVE  q.timestamp = reading.asked
      OBVIOUS
    <3>1. ToSet(reading.points) = {}
      <4>1. reading.points = <<>>
        BY <1>3
      <4> QED BY <4>1, ToSetOfNothing
    <3>2. q.timestamp \in Nat /\ q.timestamp <= reading.asked
      BY <1>1, <1>2, ClockType DEF held, keptIn, Answered, PricePoint
    <3>3. ~(q.timestamp < reading.asked)
      BY <1>2, <3>1
    <3>4. reading.asked \in Nat
      BY <1>2
    <3> QED BY <3>2, <3>3, <3>4, NotBelow, Zenon
  <2>2. result.outcome = "insufficient data" =>
            \E q \in held : q.timestamp < clock - reading.window
    BY <1>2, <1>3
  <2> QED BY <1>4, <2>1, <2>2 DEF RefusalsAreRight
<1>9. answer'.call \in Answered'
  BY <1>1, <1>2, <1>4 DEF Answered
<1> QED BY <1>1, <1>5, <1>6, <1>7, <1>8, <1>9 DEF PriceInv, ReadingInv, AnswerInv

LEMMA NextPriceInv == PriceInv /\ [Next]_vars => PriceInv'
<1> SUFFICES ASSUME PriceInv, [Next]_vars PROVE PriceInv'
  OBVIOUS
<1>1. CASE updatePriceFeeds
  BY <1>1, SweepStep, StoreStep DEF updatePriceFeeds
<1>2. CASE \E pair \in Pairs, window \in Windows : GetTWAPPrice(pair, window)
  BY <1>2, GetTWAPStep
<1>3. CASE UNCHANGED vars
  <2>1. TypeOK'
    BY <1>3 DEF PriceInv, TypeOK, vars
  <2>2. CacheInv'
    BY <1>3 DEF PriceInv, CacheInv, Spaced, readyAt, vars
  <2>3. ReadingInv' /\ AnswerInv'
    BY <1>3, UntouchedReader DEF vars
  <2> QED BY <2>1, <2>2, <2>3 DEF PriceInv
<1> QED BY <1>1, <1>2, <1>3, AnswerStep, TickStep, RestartStep DEF Next

LEMMA AlwaysPriceInv == Spec => []PriceInv
BY InitPriceInv, NextPriceInv, PTL DEF Spec

-----------------------------------------------------------------------------
(* What follows from it.                                                   *)

\* Every variable keeps its type, whatever the sources reply (price_feed.go
\* storePricePoint refuses a price that is not positive).
THEOREM PriceTypeOKHolds == Spec => []TypeOK
BY AlwaysPriceInv, PTL DEF PriceInv

\* A reader gets every point kept in its window, once and in the order of time,
\* for all windows up to the cache's limit of age (engine.go addPricePoint and
\* getPricePoints).
THEOREM WindowsAreCompleteHolds == Spec => []WindowsAreComplete
<1>1. PriceInv => WindowsAreComplete
  <2> SUFFICES ASSUME PriceInv, NEW pair \in Pairs, NEW window \in Windows
               PROVE  LET points == getPricePoints(pair, window)
                      IN  /\ ToSet(points) = keptIn(pair, clock, window)
                          /\ \A i \in 2..Len(points) : points[i - 1].timestamp < points[i].timestamp
    BY DEF WindowsAreComplete
  <2> DEFINE points == getPricePoints(pair, window)
  <2>1. points \in Seq(PricePoint) /\ Spaced(points) /\ ToSet(points) = keptIn(pair, clock, window)
    BY WindowOfCache, TimeTypes
  <2> HIDE DEF points
  <2>2. ASSUME NEW i \in 2..Len(points)
        PROVE  points[i - 1].timestamp < points[i].timestamp
    <3>1. i \in 1..Len(points) /\ i - 1 \in 1..Len(points) /\ i - 1 < i /\ DOMAIN points = 1..Len(points)
      BY <2>1, SeqParts
    <3>2. points[i - 1].timestamp + RequestDelay <= points[i].timestamp
      BY <2>1, <3>1, SpacedIsOrdered
    <3> QED BY <2>1, <3>1, <3>2, PointParts, TimeTypes
  <2> QED BY <2>1, <2>2 DEF points
<1> QED BY <1>1, AlwaysPriceInv, PTL

\* The current price is the newest kept price of the last hour, and there is none
\* when the sources were silent for an hour (engine.go getCurrentPrice).
THEOREM CurrentPriceIsLatestHolds == Spec => []CurrentPriceIsLatest
<1>1. PriceInv => CurrentPriceIsLatest
  <2> SUFFICES ASSUME PriceInv, NEW pair \in Pairs
               PROVE  LET recent == keptIn(pair, clock, RecentWindow)
                      IN  \/ recent = {} /\ getCurrentPrice(pair) = NoPrice
                          \/ \E q \in recent : /\ q.price = getCurrentPrice(pair)
                                               /\ \A r \in recent : r.timestamp <= q.timestamp
    BY DEF CurrentPriceIsLatest
  <2> DEFINE points == getPricePoints(pair, RecentWindow)
             recent == keptIn(pair, clock, RecentWindow)
             n == Len(points)
  <2>1. points \in Seq(PricePoint) /\ Spaced(points) /\ ToSet(points) = recent
    BY WindowOfCache, TimeTypes
  <2>2. getCurrentPrice(pair) = IF points = <<>> THEN NoPrice ELSE points[n].price
    BY DEF getCurrentPrice, Last
  <2> HIDE DEF points, recent, n
  <2>3. CASE points = <<>>
    <3>1. ToSet(<<>>) = {}
      BY DEF ToSet
    <3> QED BY <2>1, <2>2, <2>3, <3>1 DEF recent
  <2>4. CASE points # <<>>
    <3>1. n \in 1..n /\ points[n] \in recent /\ n \in Nat /\ DOMAIN points = 1..n
      <4>1. n \in Nat /\ n \in 1..n /\ DOMAIN points = 1..n
        BY <2>1, <2>4, SeqParts DEF n
      <4> QED BY <2>1, <4>1 DEF ToSet
    <3>2. ASSUME NEW r \in recent PROVE r.timestamp <= points[n].timestamp
      <4>1. PICK i \in 1..n : r = points[i]
        BY <2>1, <3>1 DEF ToSet
      <4>2. CASE i = n
        BY <2>1, <3>1, <4>1, <4>2, PointParts DEF n
      <4>3. CASE i # n
        <5>1. points[i].timestamp + RequestDelay <= points[n].timestamp
          BY <2>1, <3>1, <4>3, SpacedIsOrdered
        <5> QED BY <2>1, <3>1, <4>1, <5>1, PointParts, TimeTypes DEF n
      <4> QED BY <4>2, <4>3
    <3> QED BY <2>2, <2>4, <3>1, <3>2 DEF recent
  <2> QED BY <2>3, <2>4
<1> QED BY <1>1, AlwaysPriceInv, PTL

\* However long the updater runs, a pair has at most as many points in the cache as
\* fit, one per pause between two prices, into its limit of age (price_feed.go
\* updatePriceFeeds, engine.go addPricePoint).
THEOREM CacheIsBoundedHolds == Spec => []CacheIsBounded
<1>1. PriceInv => CacheIsBounded
  <2> SUFFICES ASSUME PriceInv, NEW pair \in Pairs
               PROVE  Len(cache[pair]) * RequestDelay < MaxAge + RequestDelay
    BY DEF CacheIsBounded
  <2> DEFINE points == cache[pair]
             n == Len(points)
  <2>1. /\ points \in Seq(PricePoint) /\ Spaced(points)
        /\ \A q, r \in ToSet(points) : q.timestamp < r.timestamp + MaxAge
    BY ClockType DEF PriceInv, CacheInv
  <2> HIDE DEF points
  <2>2. n \in Nat /\ DOMAIN points = 1..n
    BY <2>1, SeqParts
  <2>3. CASE n = 0
    BY <2>3, TimeTypes DEF points
  <2>4. CASE n # 0 /\ n # 1
    <3>1. 1 \in 1..n /\ n \in 1..n /\ 1 < n /\ n - 1 \in Nat \ {0}
      BY <2>2, <2>4
    <3>2. points[1].timestamp + (n - 1) * RequestDelay <= points[n].timestamp
      BY <2>1, <2>2, <3>1 DEF Spaced
    <3>3. /\ points[1].timestamp \in Nat /\ points[n].timestamp \in Nat
          /\ points[n].timestamp < points[1].timestamp + MaxAge
      BY <2>1, <2>2, <3>1, PointParts
    <3>4. /\ (n - 1) * RequestDelay \in Nat
          /\ ((n - 1) + 1) * RequestDelay = (n - 1) * RequestDelay + RequestDelay
      BY <3>1, TimeTypes, Multiples
    <3>5. (n - 1) + 1 = n
      BY <2>2
    <3> HIDE DEF n
    <3>6. n * RequestDelay < MaxAge + RequestDelay
      BY <3>2, <3>3, <3>4, <3>5, TimeTypes
    <3> QED BY <3>6 DEF n, points
  <2>5. CASE n = 1
    <3>1. 1 * RequestDelay < MaxAge + RequestDelay
      BY TimeTypes
    <3> QED BY <2>5, <3>1 DEF points
  <2> QED BY <2>3, <2>4, <2>5
<1> QED BY <1>1, AlwaysPriceInv, PTL

\* A time weighted average lies between two prices that were in the window when it
\* was asked for, however much later they are weighed (engine.go calculateTWAP).
THEOREM AnswersAreWithinPricesHolds == Spec => []AnswersAreWithinPrices
BY AlwaysPriceInv, PTL DEF PriceInv, AnswerInv

\* No average is refused while prices are in the window, but for its oldest point
\* leaving the window before it is weighed (engine.go calculateTWAP).
THEOREM RefusalsAreRightHolds == Spec => []RefusalsAreRight
BY AlwaysPriceInv, PTL DEF PriceInv, AnswerInv

-----------------------------------------------------------------------------
(* Single calls of the library's functions.                                *)

LEMMA Quotient ==
    ASSUME NEW a \in Nat, NEW b \in Nat \ {0}
    PROVE  /\ a \div b \in Nat
           /\ b * (a \div b) <= a
           /\ a < b * (a \div b) + b
OBVIOUS

\* A quotient is at most c when its dividend is at most c times the divisor.
LEMMA QuotientAtMost ==
    ASSUME NEW a \in Nat, NEW b \in Nat \ {0}, NEW c \in Nat, a <= b * c
    PROVE  a \div b <= c
<1> DEFINE q == a \div b
<1>1. q \in Nat /\ b * q <= a
  BY Quotient
<1>2. ASSUME q > c PROVE FALSE
  <2>1. q >= c + 1
    BY <1>1, <1>2
  <2> HIDE DEF q
  <2>2. b * q >= b * (c + 1)
    BY <1>1, <2>1
  <2>3. b * (c + 1) = b * c + b
    OBVIOUS
  <2> QED BY <1>1, <2>2, <2>3
<1> QED BY <1>1, <1>2

\* linearInterpolation stays between its two ends, whichever is the larger.
THEOREM InterpolationIsBetween ==
    ASSUME NEW start \in Nat, NEW end \in Nat, NEW progress \in 0..PRECISION
    PROVE  LET value == linearInterpolation(start, end, progress)
           IN  /\ value \in Nat
               /\ \/ start <= value /\ value <= end
                  \/ end <= value /\ value <= start
<1> USE MathAssumption
<1>1. ASSUME NEW d \in Nat
      PROVE  /\ (d * progress) \div PRECISION \in Nat
             /\ (d * progress) \div PRECISION <= d
  <2>1. d * progress \in Nat /\ d * progress <= PRECISION * d
    OBVIOUS
  <2> QED BY <2>1, Quotient, QuotientAtMost
<1>2. CASE progress = 0 \/ progress = PRECISION
  BY <1>2 DEF linearInterpolation
<1>3. CASE progress # 0 /\ progress # PRECISION /\ end >= start
  <2> DEFINE step == ((end - start) * progress) \div PRECISION
  <2>1. step \in Nat /\ step <= end - start
    BY <1>1, <1>3
  <2>2. linearInterpolation(start, end, progress) = start + step
    BY <1>3 DEF linearInterpolation
  <2> HIDE DEF step
  <2> QED BY <2>1, <2>2
<1>4. CASE progress # 0 /\ progress # PRECISION /\ end < start
  <2> DEFINE step == ((start - end) * progress) \div PRECISION
  <2>1. step \in Nat /\ step <= start - end
    BY <1>1, <1>4
  <2>2. linearInterpolation(start, end, progress) = start - step
    BY <1>4 DEF linearInterpolation
  <2> HIDE DEF step
  <2> QED BY <2>1, <2>2
<1> QED BY <1>2, <1>3, <1>4

\* exponentialMovingAverage rounds two terms down: the new average is at most the
\* larger of the old average and the new value, and at least the smaller less 1.
THEOREM MovingAverageStep ==
    ASSUME NEW low \in Nat, NEW high \in Nat, NEW alpha \in 0..PRECISION,
           NEW currentEMA \in low..high, NEW newValue \in low..high
    PROVE  LET value == exponentialMovingAverage(currentEMA, newValue, alpha)
           IN  value \in Nat /\ low <= value + 1 /\ value <= high
<1> USE MathAssumption
<1> DEFINE beta == PRECISION - alpha
           a == alpha * newValue
           b == beta * currentEMA
           qa == a \div PRECISION
           qb == b \div PRECISION
<1>1. beta \in Nat /\ alpha + beta = PRECISION
  OBVIOUS
<1>2. a \in Nat /\ alpha * low <= a /\ a <= alpha * high
  OBVIOUS
<1>3. b \in Nat /\ beta * low <= b /\ b <= beta * high
  <2> HIDE DEF beta
  <2> QED BY <1>1
<1>4. PRECISION * low <= a + b /\ a + b <= PRECISION * high
  <2>1. /\ PRECISION * low = alpha * low + beta * low
        /\ PRECISION * high = alpha * high + beta * high
    BY <1>1
  <2> HIDE DEF a, b, beta
  <2> QED BY <1>1, <1>2, <1>3, <2>1
<1>5. /\ qa \in Nat /\ PRECISION * qa <= a /\ a < PRECISION * qa + PRECISION
      /\ qb \in Nat /\ PRECISION * qb <= b /\ b < PRECISION * qb + PRECISION
  <2> HIDE DEF a, b
  <2> QED BY <1>2, <1>3, Quotient
<1>6. exponentialMovingAverage(currentEMA, newValue, alpha) = qa + qb
  BY DEF exponentialMovingAverage
<1>7. PRECISION * (qa + qb) <= PRECISION * high
      /\ PRECISION * low < PRECISION * (qa + qb + 2)
  <2>1. /\ PRECISION * (qa + qb) = PRECISION * qa + PRECISION * qb
        /\ PRECISION * (qa + qb + 2) = PRECISION * qa + PRECISION * qb + 2 * PRECISION
    <3> HIDE DEF qa, qb
    <3> QED BY <1>5
  <2> HIDE DEF qa, qb, a, b
  <2> QED BY <1>2, <1>3, <1>4, <1>5, <2>1
<1>8. qa + qb <= high /\ low < qa + qb + 2
  <2> HIDE DEF qa, qb
  <2> QED BY <1>5, <1>7
<1> QED BY <1>5, <1>6, <1>8

\* One update of updateWeightedAverage, next to the exact total value of the
\* points so far: if the average was not above the exact one and behind it by at
\* most n, it is afterwards not above it and behind by at most n + 1.
THEOREM RunningAverageStep ==
    ASSUME NEW average \in Nat, NEW weight \in Nat, NEW totalValue \in Nat, NEW n \in Nat,
           NEW newPrice \in Nat, NEW newWeight \in Nat,
           average * weight <= totalValue,
           totalValue <= (average + n) * weight
    PROVE  LET new == updateWeightedAverage(average, weight, newPrice, newWeight)
               newValue == totalValue + newPrice * newWeight
           IN  /\ new.average \in Nat /\ new.weight = weight + newWeight
               /\ new.average * new.weight <= newValue
               /\ newValue <= (new.average + (n + 1)) * new.weight
<1> DEFINE total_ == weight + newWeight
           added == newPrice * newWeight
           a == average * weight + added
           q == a \div total_
           new == updateWeightedAverage(average, weight, newPrice, newWeight)
<1>1. CASE total_ = 0
  <2>1. weight = 0 /\ newWeight = 0 /\ new = [average |-> 0, weight |-> 0]
    BY <1>1 DEF updateWeightedAverage
  <2>2. totalValue = 0 /\ added = 0
    BY <2>1
  <2> QED BY <2>1, <2>2
<1>2. CASE total_ # 0
  <2>1. new.average = q /\ new.weight = total_ /\ total_ \in Nat \ {0} /\ a \in Nat
    BY <1>2 DEF updateWeightedAverage
  <2>2. q \in Nat /\ total_ * q <= a /\ a < total_ * q + total_
    <3> HIDE DEF total_, a
    <3> QED BY <2>1, Quotient
  <2>3. /\ added \in Nat /\ (average + n) * weight = average * weight + n * weight
        /\ n * weight <= n * total_ /\ n * weight \in Nat /\ average * weight \in Nat
    OBVIOUS
  <2>4. /\ a <= totalValue + added
        /\ totalValue + added <= a + n * weight
    BY <2>3
  <2>5. (q + (n + 1)) * total_ = total_ * q + n * total_ + total_ /\ q * total_ = total_ * q
    <3> HIDE DEF q, total_
    <3> QED BY <2>1, <2>2
  <2>6. /\ q * total_ <= totalValue + added
        /\ totalValue + added <= (q + (n + 1)) * total_
    <3>1. n * total_ \in Nat /\ total_ * q \in Nat
      <4> HIDE DEF q, total_
      <4> QED BY <2>1, <2>2
    <3> HIDE DEF q, total_, a, added
    <3> QED BY <2>1, <2>2, <2>3, <2>4, <2>5, <3>1
  <2> QED BY <2>1, <2>2, <2>6
<1> QED BY <1>1, <1>2

\* A price that isSlippageAcceptable accepts deviates from the expected one by less
\* than the tolerance and one basis point more, which is what rounding down admits.
THEOREM AcceptedSlippageIsSmall ==
    ASSUME NEW expectedPrice \in Nat \ {0}, NEW actualPrice \in Nat, NEW maxSlippage \in Nat,
           isSlippageAcceptable(expectedPrice, actualPrice, maxSlippage)
    PROVE  /\ (expectedPrice - actualPrice) * BASIS_POINTS < expectedPrice * (maxSlippage + 1)
           /\ (actualPrice - expectedPrice) * BASIS_POINTS < expectedPrice * (maxSlippage + 1)
<1> DEFINE difference == IF expectedPrice > actualPrice THEN expectedPrice - actualPrice
                                                        ELSE actualPrice - expectedPrice
           scaled == difference * BASIS_POINTS
           slippage == scaled \div expectedPrice
<1>1. difference \in Nat /\ scaled \in Nat
  BY DEF BASIS_POINTS
<1>2. slippage \in Nat /\ slippage <= maxSlippage
        /\ scaled < expectedPrice * slippage + expectedPrice
  <2>1. slippage <= maxSlippage
    BY DEF isSlippageAcceptable, calculateSlippage
  <2> HIDE DEF scaled
  <2> QED BY <1>1, <2>1, Quotient
<1>3. expectedPrice * slippage <= expectedPrice * maxSlippage
  <2> HIDE DEF slippage
  <2> QED BY <1>2
<1>4. scaled < expectedPrice * (maxSlippage + 1)
  <2>1. expectedPrice * (maxSlippage + 1) = expectedPrice * maxSlippage + expectedPrice
    OBVIOUS
  <2> HIDE DEF scaled, slippage
  <2> QED BY <1>1, <1>2, <1>3, <2>1
<1> QED BY <1>4 DEF BASIS_POINTS

\* Intervals of the size of calculateIntervalSize leave less than one unit per
\* interval of the amount unexecuted, and none is below the minimum fill.
THEOREM IntervalsCoverTheAmount ==
    ASSUME NEW totalAmount \in Nat, NEW numberOfIntervals \in Nat \ {0}, NEW minFillSize \in Nat
    PROVE  LET size == calculateIntervalSize(totalAmount, numberOfIntervals, minFillSize)
           IN  /\ minFillSize <= size
               /\ totalAmount < numberOfIntervals * size + numberOfIntervals
<1> DEFINE baseSize == totalAmount \div numberOfIntervals
           size == calculateIntervalSize(totalAmount, numberOfIntervals, minFillSize)
<1>1. baseSize \in Nat /\ totalAmount < numberOfIntervals * baseSize + numberOfIntervals
  BY Quotient
<1>2. size = IF baseSize < minFillSize THEN minFillSize ELSE baseSize
  BY DEF calculateIntervalSize
<1>3. size \in Nat /\ minFillSize <= size /\ baseSize <= size
  <2> HIDE DEF baseSize, size
  <2> QED BY <1>1, <1>2
<1>4. numberOfIntervals * baseSize <= numberOfIntervals * size
  <2> HIDE DEF baseSize, size
  <2> QED BY <1>1, <1>3
<1> QED BY <1>1, <1>3, <1>4

\* All intervals of the length of calculateIntervalDuration fit into the window.
THEOREM IntervalsFitTheWindow ==
    ASSUME NEW windowMinutes \in Nat, NEW numberOfIntervals \in Nat \ {0}
    PROVE  numberOfIntervals * calculateIntervalDuration(windowMinutes, numberOfIntervals)
               <= windowMinutes * 60
BY Quotient DEF calculateIntervalDuration

-----------------------------------------------------------------------------
(* The library's averages of the points in the cache.                      *)

\* A weighted average lies within the prices it is of, or is 0 when there are none.
LEMMA WeightedAverageIsWithin ==
    ASSUME NEW prices, NEW weights, NEW used, IsFiniteSet(used),
           \A i \in used : prices[i] \in Nat /\ weights[i] \in Nat \ {0}
    PROVE  LET average == weightedAverage(prices, weights, used)
           IN  IF used = {} THEN average = 0
               ELSE /\ \E i \in used : prices[i] <= average
                    /\ \E j \in used : average <= prices[j]
<1> DEFINE value == [i \in used |-> prices[i] * weights[i]]
           W == SumFunctionOnSet(weights, used)
           V == SumFunctionOnSet(value, used)
<1>1. weightedAverage(prices, weights, used) = IF W = 0 THEN 0 ELSE V \div W
  BY DEF weightedAverage
<1>2. CASE used = {}
  <2>1. W = 0
    BY <1>2, SumOfNothing
  <2> QED BY <1>1, <1>2, <2>1
<1>3. CASE used # {}
  <2>1. \A i \in used : /\ weights[i] \in Nat \ {0} /\ prices[i] \in Nat
                        /\ value[i] = prices[i] * weights[i]
    OBVIOUS
  <2> HIDE DEF value
  <2>2. /\ W \in Nat \ {0}
        /\ \E i \in used : prices[i] <= V \div W
        /\ \E j \in used : V \div W <= prices[j]
    BY <1>3, <2>1, MeanIsWithin
  <2> HIDE DEF V, W
  <2>3. weightedAverage(prices, weights, used) = V \div W
    BY <1>1, <2>2
  <2> QED BY <1>3, <2>2, <2>3
<1> QED BY <1>2, <1>3

\* The points of the cache in the form the library takes them.
LEMMA LibraryPoints ==
    ASSUME PriceInv, NEW pair \in Pairs, NEW volumes \in [DOMAIN cache[pair] -> 0..1]
    PROVE  LET points == [i \in DOMAIN cache[pair] |->
                             [timestamp |-> cache[pair][i].timestamp,
                              price |-> cache[pair][i].price, volume |-> volumes[i]]]
           IN  /\ DOMAIN points = 1..Len(cache[pair]) /\ Len(cache[pair]) \in Nat
               /\ \A i \in DOMAIN points :
                      /\ points[i].timestamp \in Nat
                      /\ points[i].price \in Nat \ {0}
                      /\ points[i].volume \in 0..1 /\ points[i].volume = volumes[i]
               /\ \A i \in DOMAIN points : i > 1 =>
                      /\ i - 1 \in DOMAIN points
                      /\ points[i].timestamp - points[i - 1].timestamp \in Nat \ {0}
<1> DEFINE s == cache[pair]
           points == [i \in DOMAIN s |-> [timestamp |-> s[i].timestamp,
                                          price |-> s[i].price, volume |-> volumes[i]]]
<1>1. s \in Seq(PricePoint) /\ Spaced(s)
  BY DEF PriceInv, TypeOK, CacheInv
<1>2. /\ DOMAIN s = 1..Len(s) /\ Len(s) \in Nat
      /\ \A i \in DOMAIN s : s[i].timestamp \in Nat /\ s[i].price \in Nat \ {0}
                             /\ volumes[i] \in 0..1
  BY <1>1, SeqParts, PointParts
<1>3. DOMAIN points = DOMAIN s
  OBVIOUS
<1>4. \A i \in DOMAIN s : /\ points[i].timestamp = s[i].timestamp
                          /\ points[i].price = s[i].price
                          /\ points[i].volume = volumes[i]
  OBVIOUS
<1> HIDE DEF s, points
<1>5. ASSUME NEW i \in DOMAIN s, i > 1
      PROVE  /\ i - 1 \in DOMAIN s
             /\ s[i].timestamp - s[i - 1].timestamp \in Nat \ {0}
  <2>1. i - 1 \in DOMAIN s /\ i - 1 < i
    BY <1>2, <1>5
  <2>2. s[i - 1].timestamp + RequestDelay <= s[i].timestamp
    BY <1>1, <2>1, SpacedIsOrdered
  <2> QED BY <1>2, <2>1, <2>2, TimeTypes
<1> QED BY <1>2, <1>3, <1>4, <1>5 DEF points, s

LEMMA LibraryAveragesFollow == PriceInv => LibraryAveragesAreWithinPrices
<1> SUFFICES ASSUME PriceInv, NEW pair \in Pairs, NEW window \in {w \in Windows : w <= clock},
                    NEW volumes \in [DOMAIN cache[pair] -> 0..1]
             PROVE
        LET from == clock - window
            points == [i \in DOMAIN cache[pair] |->
                          [timestamp |-> cache[pair][i].timestamp,
                           price |-> cache[pair][i].price, volume |-> volumes[i]]]
            priced_(average, used) ==
                IF used = {} THEN average = 0
                ELSE \E i, j \in used : points[i].price <= average /\ average <= points[j].price
            inside == counted(points, from, clock)
        IN  /\ priced_(calculateTWAP(points, from, clock), inside)
            /\ priced_(calculateVWAP(points, from, clock),
                       {i \in inside : volumes[i] > 0})
  BY DEF LibraryAveragesAreWithinPrices
<1> DEFINE from == clock - window
           points == [i \in DOMAIN cache[pair] |->
                          [timestamp |-> cache[pair][i].timestamp,
                           price |-> cache[pair][i].price, volume |-> volumes[i]]]
           inside == counted(points, from, clock)
           priced_(average, used) ==
                IF used = {} THEN average = 0
                ELSE \E i, j \in used : points[i].price <= average /\ average <= points[j].price
<1>1. /\ DOMAIN points = 1..Len(cache[pair]) /\ Len(cache[pair]) \in Nat
      /\ \A i \in DOMAIN points : /\ points[i].timestamp \in Nat
                                  /\ points[i].price \in Nat \ {0}
                                  /\ points[i].volume \in 0..1 /\ points[i].volume = volumes[i]
      /\ \A i \in DOMAIN points : i > 1 =>
             points[i].timestamp - points[i - 1].timestamp \in Nat \ {0}
  BY LibraryPoints
<1>2. clock \in Nat /\ clock - from \in Nat \ {0}
  BY ClockType, TimeTypes DEF PriceInv
<1> HIDE DEF points, from
<1>3. inside \subseteq DOMAIN points /\ IsFiniteSet(inside)
  <2>1. inside \subseteq 1..Len(cache[pair])
    BY <1>1 DEF counted
  <2>2. IsFiniteSet(1..Len(cache[pair]))
    BY <1>1, FS_Interval
  <2> QED BY <1>1, <2>1, <2>2, FS_Subset
<1> HIDE DEF inside
<1>4. ASSUME NEW weights, NEW used \in SUBSET inside,
             \A i \in used : weights[i] \in Nat \ {0}
      PROVE  priced_(weightedAverage(pricesOf(points), weights, used), used)
  <2>1. IsFiniteSet(used)
    BY <1>3, FS_Subset
  <2>2. \A i \in used : pricesOf(points)[i] = points[i].price /\ points[i].price \in Nat
    BY <1>1, <1>3 DEF pricesOf
  <2> DEFINE average == weightedAverage(pricesOf(points), weights, used)
  <2>3. IF used = {} THEN average = 0
        ELSE /\ \E i \in used : pricesOf(points)[i] <= average
             /\ \E j \in used : average <= pricesOf(points)[j]
    BY <1>4, <2>1, <2>2, WeightedAverageIsWithin
  <2> HIDE DEF average
  <2>4. priced_(average, used)
    BY <2>2, <2>3
  <2> QED BY <2>4 DEF average
<1>5. priced_(calculateTWAP(points, from, clock), inside)
  <2> DEFINE weights == timeWeights(points, from, clock)
  <2>1. \A i \in inside : weights[i] \in Nat \ {0}
    <3> SUFFICES ASSUME NEW i \in inside PROVE weights[i] \in Nat \ {0}
      OBVIOUS
    <3>1. i \in DOMAIN points
      BY <1>3
    <3>2. weights[i] = IF i > 1 THEN points[i].timestamp - points[i - 1].timestamp
                                ELSE clock - from
      BY <3>1 DEF timeWeights, timeWeight
    <3> HIDE DEF weights
    <3> QED BY <1>1, <1>2, <3>1, <3>2
  <2>2. {i \in inside : weights[i] > 0 /\ points[i].price > 0} = inside
    <3> HIDE DEF weights
    <3>1. \A i \in inside : weights[i] > 0 /\ points[i].price > 0
      BY <1>1, <1>3, <2>1
    <3> QED BY <3>1
  <2>3. calculateTWAP(points, from, clock) = weightedAverage(pricesOf(points), weights, inside)
    BY <2>2 DEF calculateTWAP, inside
  <2> HIDE DEF weights
  <2> QED BY <1>4, <2>1, <2>3
<1>6. priced_(calculateVWAP(points, from, clock), {i \in inside : volumes[i] > 0})
  <2> DEFINE used == {i \in inside : volumes[i] > 0}
  <2>1. {i \in inside : points[i].volume > 0} = used
    BY <1>1, <1>3
  <2>2. \A i \in used : volumesOf(points)[i] \in Nat \ {0}
    BY <1>1, <1>3 DEF volumesOf
  <2>3. calculateVWAP(points, from, clock)
            = weightedAverage(pricesOf(points), volumesOf(points), used)
    BY <2>1 DEF calculateVWAP, inside
  <2>4. used \in SUBSET inside
    OBVIOUS
  <2> HIDE DEF used
  <2>5. priced_(calculateVWAP(points, from, clock), used)
    BY <1>4, <2>2, <2>3, <2>4
  <2> QED BY <2>5 DEF used
<1> QED BY <1>5, <1>6 DEF inside, points, from

\* The library's time and volume weighted averages of the cached points lie between
\* two prices in the window, and are 0 only when no point in it has a weight.
THEOREM LibraryAveragesHold == Spec => []LibraryAveragesAreWithinPrices
BY AlwaysPriceInv, LibraryAveragesFollow, PTL

-----------------------------------------------------------------------------
(* Many updates of the library's running averages.                         *)

\* the weights of the cached points in a running average
weightsIn(points) == [i \in DOMAIN points |-> timeWeight(points, 0, 1, i)]
amountsIn(points) == [i \in DOMAIN points |-> points[i].price * weightsIn(points)[i]]

LEMMA CachedWeights ==
    ASSUME NEW s \in Seq(PricePoint), Spaced(s)
    PROVE  /\ DOMAIN s = 1..Len(s) /\ Len(s) \in Nat
           /\ \A i \in DOMAIN s : s[i].price \in Nat /\ weightsIn(s)[i] \in Nat \ {0}
                  /\ weightsIn(s)[i] = timeWeight(s, 0, 1, i)
                  /\ amountsIn(s)[i] = s[i].price * weightsIn(s)[i] /\ amountsIn(s)[i] \in Nat
           /\ s # <<>> => 1 \in DOMAIN s /\ weightsIn(s)[1] = 1 /\ amountsIn(s)[1] = s[1].price
<1>1. /\ DOMAIN s = 1..Len(s) /\ Len(s) \in Nat
      /\ \A i \in DOMAIN s : s[i].timestamp \in Nat /\ s[i].price \in Nat
  BY SeqParts, PointParts
<1>2. ASSUME NEW i \in DOMAIN s
      PROVE  timeWeight(s, 0, 1, i) \in Nat \ {0} /\ (i = 1 => timeWeight(s, 0, 1, i) = 1)
  <2>1. CASE i > 1
    <3>1. i - 1 \in DOMAIN s /\ i - 1 < i /\ i # 1
      BY <1>1, <2>1
    <3>2. s[i - 1].timestamp + RequestDelay <= s[i].timestamp
      BY <3>1, SpacedIsOrdered
    <3>3. timeWeight(s, 0, 1, i) = s[i].timestamp - s[i - 1].timestamp
      BY <2>1 DEF timeWeight
    <3> QED BY <1>1, <3>1, <3>2, <3>3, TimeTypes
  <2>2. CASE ~(i > 1)
    BY <2>2 DEF timeWeight
  <2> QED BY <2>1, <2>2
<1>3. ASSUME NEW i \in DOMAIN s
      PROVE  /\ weightsIn(s)[i] = timeWeight(s, 0, 1, i)
             /\ amountsIn(s)[i] = s[i].price * weightsIn(s)[i]
  BY DEF weightsIn, amountsIn
<1>4. ASSUME NEW i \in DOMAIN s
      PROVE  weightsIn(s)[i] \in Nat \ {0} /\ amountsIn(s)[i] \in Nat
  <2>1. \A a, b \in Nat : a * b \in Nat
    OBVIOUS
  <2>2. weightsIn(s)[i] \in Nat \ {0}
    BY <1>2, <1>3, Zenon
  <2>3. weightsIn(s)[i] \in Nat /\ s[i].price \in Nat
    BY <1>1, <2>2
  <2>4. amountsIn(s)[i] \in Nat
    BY <1>3, <2>1, <2>3
  <2> QED BY <2>2, <2>4
<1>5. ASSUME s # <<>>
      PROVE  1 \in DOMAIN s /\ weightsIn(s)[1] = 1 /\ amountsIn(s)[1] = s[1].price
  <2>1. 1 \in DOMAIN s
    BY <1>1, <1>5, SeqParts
  <2>2. weightsIn(s)[1] = 1
    BY <1>2, <1>3, <2>1
  <2>3. s[1].price * 1 = s[1].price
    BY <1>1, <2>1
  <2> QED BY <1>3, <2>1, <2>2, <2>3
<1> QED BY <1>1, <1>3, <1>4, <1>5

\* The running average as a function of the number of points.
Running == [average : Nat, weight : Nat]

LEMMA RunningAverages ==
    ASSUME NEW s \in Seq(PricePoint), Spaced(s)
    PROVE  LET running == runningAverages(s)
           IN  /\ running \in [0..Len(s) -> Running]
               /\ running[0] = [average |-> 0, weight |-> 0]
               /\ \A k \in 1..Len(s) :
                      running[k] = updateWeightedAverage(running[k - 1].average,
                                       running[k - 1].weight, s[k].price, weightsIn(s)[k])
<1> DEFINE n == Len(s)
           zero == [average |-> 0, weight |-> 0]
           next(r, k) == updateWeightedAverage(r.average, r.weight,
                                               s[k].price, timeWeight(s, 0, 1, k))
           Is(f) == f = [k \in 0..n |-> IF k = 0 THEN zero ELSE next(f[k - 1], k)]
           step == [x \in Running \X Nat |-> IF x[2] \in 1..n THEN next(x[1], x[2]) ELSE zero]
<1>1. /\ n \in Nat
      /\ \A k \in 1..n : /\ s[k].price \in Nat
                         /\ weightsIn(s)[k] = timeWeight(s, 0, 1, k)
                         /\ timeWeight(s, 0, 1, k) \in Nat
  BY CachedWeights
<1>2. runningAverages(s) = CHOOSE f : Is(f)
  BY DEF runningAverages
<1>3. zero \in Running
  BY DEF Running
<1>4. ASSUME NEW r \in Running, NEW k \in 1..n PROVE next(r, k) \in Running
  <2>1. /\ r.average \in Nat /\ r.weight \in Nat
    BY DEF Running
  <2> DEFINE total_ == r.weight + timeWeight(s, 0, 1, k)
             a == r.average * r.weight + s[k].price * timeWeight(s, 0, 1, k)
  <2>2. total_ \in Nat /\ a \in Nat
    <3>1. \A x, y, z, w \in Nat : x * y + z * w \in Nat /\ x + y \in Nat
      OBVIOUS
    <3> QED BY <1>1, <2>1, <3>1, Zenon
  <2>3. next(r, k) = IF total_ = 0 THEN zero ELSE [average |-> a \div total_, weight |-> total_]
    BY DEF updateWeightedAverage
  <2> HIDE DEF total_, a, next
  <2>4. total_ # 0 => a \div total_ \in Nat
    BY <2>2, Quotient
  <2> QED BY <1>3, <2>2, <2>3, <2>4 DEF Running
<1> HIDE DEF next, zero, n
<1>5. step \in [Running \X Nat -> Running]
  BY <1>3, <1>4
<1>6. ASSUME NEW r \in Running, NEW k \in 1..n PROVE step[<<r, k>>] = next(r, k)
  <2>1. <<r, k>> \in Running \X Nat
    BY <1>1
  <2> QED BY <2>1
<1> HIDE DEF step
<1> DEFINE g == recursion(n, Running, zero, step)
<1>7. g \in [0..n -> Running] /\ g[0] = zero /\ \A k \in 1..n : g[k] = step[<<g[k - 1], k>>]
  <2>1. n \in Nat
    BY <1>1
  <2>2. IsRecursion(recursion(n, Running, zero, step), n, Running, zero, step)
    BY <1>3, <1>5, <2>1, RecursionAlongRange
  <2> QED BY <2>2 DEF IsRecursion
<1> HIDE DEF g
<1>8. Is(g)
  <2>1. ASSUME NEW k \in 0..n PROVE g[k] = IF k = 0 THEN zero ELSE next(g[k - 1], k)
    <3>1. k # 0 => k - 1 \in 0..n /\ k \in 1..n
      BY <1>1
    <3> QED BY <1>6, <1>7, <3>1
  <2>2. g = [k \in 0..n |-> g[k]]
    BY <1>7
  <2> QED BY <2>1, <2>2
<1> DEFINE running == runningAverages(s)
<1>9. Is(running)
  <2> HIDE DEF Is
  <2> QED BY <1>2, <1>8
<1> HIDE DEF running
<1>10. /\ running[0] = zero
       /\ \A k \in 1..n : running[k] = next(running[k - 1], k)
  <2>1. 0 \in 0..n /\ \A k \in 1..n : k \in 0..n /\ k # 0
    BY <1>1
  <2> QED BY <1>9, <2>1
<1>11. \A k \in 0..n : running[k] \in Running
  <2> DEFINE good == {k \in 0..n : running[k] \in Running}
  <2>1. 0 \in good
    BY <1>1, <1>3, <1>10
  <2>2. ASSUME NEW k \in 0..(n - 1), k \in good PROVE k + 1 \in good
    <3>1. k + 1 \in 1..n /\ k + 1 \in 0..n /\ (k + 1) - 1 = k
      BY <1>1
    <3>2. running[k + 1] = next(running[k], k + 1)
      BY <1>10, <3>1
    <3> QED BY <1>4, <2>2, <3>1, <3>2
  <2> HIDE DEF good
  <2>3. \A k \in 0..n : k \in good
    BY <1>1, <2>1, <2>2, AlongRange
  <2> QED BY <2>3 DEF good
<1>12. running \in [0..n -> Running]
  <2>1. running = [k \in 0..n |-> running[k]]
    BY <1>9
  <2> QED BY <1>11, <2>1
<1> QED BY <1>1, <1>10, <1>12 DEF running, zero, next, n

\* After k updates the running average is not above the exact one, and behind it
\* by at most k - 1.
LEMMA LagAfter ==
    ASSUME NEW s \in Seq(PricePoint), Spaced(s), NEW k \in 1..Len(s)
    PROVE  LET r == runningAverages(s)[k]
               V == SumFunctionOnSet(amountsIn(s), 1..k)
           IN  /\ r.average \in Nat /\ V \in Nat
               /\ r.weight = SumFunctionOnSet(weightsIn(s), 1..k)
               /\ r.average * r.weight <= V
               /\ V <= (r.average + (k - 1)) * r.weight
<1> DEFINE n == Len(s)
           running == runningAverages(s)
           V(j) == SumFunctionOnSet(amountsIn(s), 1..j)
           W(j) == SumFunctionOnSet(weightsIn(s), 1..j)
           good == {j \in 0..n : j # 0 =>
                       /\ running[j].average \in Nat
                       /\ V(j) \in Nat
                       /\ running[j].weight = W(j) /\ W(j) \in Nat
                       /\ running[j].average * W(j) <= V(j)
                       /\ V(j) <= (running[j].average + (j - 1)) * W(j)}
<1>1. /\ n \in Nat /\ DOMAIN s = 1..n
      /\ \A i \in 1..n : /\ s[i].price \in Nat
                         /\ weightsIn(s)[i] \in Nat
                         /\ amountsIn(s)[i] = s[i].price * weightsIn(s)[i]
                         /\ amountsIn(s)[i] \in Nat
  BY CachedWeights
<1>2. /\ running[0] = [average |-> 0, weight |-> 0]
      /\ \A j \in 1..n : running[j] = updateWeightedAverage(running[j - 1].average,
                             running[j - 1].weight, s[j].price, weightsIn(s)[j])
  BY RunningAverages
<1>3. ASSUME NEW j \in 0..(n - 1)
      PROVE  V(j + 1) = V(j) + amountsIn(s)[j + 1] /\ W(j + 1) = W(j) + weightsIn(s)[j + 1]
  <2>1. \A i \in 1..(j + 1) : i \in 1..n
    BY <1>1
  <2>2. j \in Nat /\ \A i \in 1..(j + 1) : amountsIn(s)[i] \in Int /\ weightsIn(s)[i] \in Int
    BY <1>1, <2>1
  <2> QED BY <2>2, SumOfAppended
<1>4. V(0) = 0 /\ W(0) = 0
  <2>1. 1..0 = {}
    OBVIOUS
  <2> QED BY <2>1, SumOfNothing
<1> HIDE DEF running, V, W, n
<1>5. 0 \in good
  BY <1>1
<1>6. ASSUME NEW j \in 0..(n - 1), j \in good PROVE j + 1 \in good
  <2> DEFINE r == running[j]
             new == running[j + 1]
             price == s[j + 1].price
             weight == weightsIn(s)[j + 1]
  <2>1. j + 1 \in 1..n /\ j + 1 \in 0..n /\ (j + 1) - 1 = j /\ j \in Nat /\ j + 1 # 0
    BY <1>1
  <2>2. new = updateWeightedAverage(r.average, r.weight, price, weight)
    BY <1>2, <2>1
  <2>3. price \in Nat /\ weight \in Nat /\ V(j + 1) = V(j) + price * weight
        /\ W(j + 1) = W(j) + weight
    BY <1>1, <1>3, <2>1
  <2>4. CASE j = 0
    <3>1. r.average = 0 /\ r.weight = 0 /\ V(j) = 0 /\ W(j) = 0 /\ s # <<>> /\ j + 1 = 1
      BY <1>1, <1>2, <1>4, <2>1, <2>4, SeqParts DEF n
    <3>2. weight = 1
      BY <3>1, CachedWeights
    <3>3. V(j + 1) = price /\ W(j + 1) = 1
      <4> HIDE DEF price, weight
      <4> QED BY <2>3, <3>1, <3>2
    <3> HIDE DEF price, weight, r, new
    <3>4. new.average = price /\ new.weight = 1
      <4>1. new = updateWeightedAverage(0, 0, price, 1)
        BY <2>2, <3>1, <3>2
      <4>2. 0 + 1 # 0 /\ 0 + 1 = 1 /\ (0 * 0 + price * 1) \div (0 + 1) = price
        BY <2>3
      <4> QED BY <4>1, <4>2 DEF updateWeightedAverage
    <3>5. new.average * W(j + 1) <= V(j + 1)
          /\ V(j + 1) <= (new.average + ((j + 1) - 1)) * W(j + 1)
      BY <2>1, <2>3, <2>4, <3>3, <3>4
    <3>6. V(j + 1) \in Nat /\ W(j + 1) \in Nat /\ new.weight = W(j + 1) /\ new.average \in Nat
      BY <2>3, <3>3, <3>4
    <3> QED BY <2>1, <3>5, <3>6 DEF new
  <2>5. CASE j # 0
    <3> DEFINE m == j - 1
    <3>1. /\ r.average \in Nat /\ V(j) \in Nat /\ r.weight = W(j) /\ r.weight \in Nat
          /\ r.average * r.weight <= V(j)
          /\ V(j) <= (r.average + m) * r.weight
      BY <1>6, <2>5
    <3>2. m \in Nat /\ m + 1 = j
      BY <2>1, <2>5
    <3> HIDE DEF m, price, weight, r, new
    <3>3. /\ new.average \in Nat /\ new.weight = r.weight + weight
          /\ new.average * new.weight <= V(j) + price * weight
          /\ V(j) + price * weight <= (new.average + (m + 1)) * new.weight
      <4>1. price \in Nat /\ weight \in Nat
        BY <2>3
      <4> DEFINE a == r.average
                 w == r.weight
                 total_ == V(j)
                 u == updateWeightedAverage(a, w, price, weight)
      <4>2. a \in Nat /\ total_ \in Nat /\ w \in Nat /\ a * w <= total_
            /\ total_ <= (a + m) * w
        BY <3>1
      <4>3. new = u
        BY <2>2
      <4> HIDE DEF a, w, total_
      <4>4. /\ u.average \in Nat /\ u.weight = w + weight
            /\ u.average * u.weight <= total_ + price * weight
            /\ total_ + price * weight <= (u.average + (m + 1)) * u.weight
        BY <3>2, <4>1, <4>2, RunningAverageStep
      <4> HIDE DEF u
      <4> QED BY <4>3, <4>4 DEF w, total_
    <3>4. V(j + 1) \in Nat /\ W(j + 1) \in Nat /\ new.weight = W(j + 1)
      <4>1. \A a, b \in Nat : a * b \in Nat /\ a + b \in Nat
        OBVIOUS
      <4> QED BY <2>3, <3>1, <3>3, <4>1
    <3>5. /\ new.average * W(j + 1) <= V(j + 1)
          /\ V(j + 1) <= (new.average + ((j + 1) - 1)) * W(j + 1)
      BY <2>1, <2>3, <3>2, <3>3, <3>4
    <3> QED BY <2>1, <3>3, <3>4, <3>5 DEF new
  <2> QED BY <2>4, <2>5
<1> HIDE DEF good
<1>7. k \in good
  <2>1. \A j \in 0..n : j \in good
    BY <1>1, <1>5, <1>6, AlongRange
  <2> QED BY <1>1, <2>1 DEF n
<1>8. k # 0
  BY <1>1 DEF n
<1> QED BY <1>7, <1>8 DEF good, running, V, W

LEMMA AverageLags ==
    ASSUME NEW s \in Seq(PricePoint), Spaced(s), s # <<>>
    PROVE  LET exact == calculateWeightedAverage(
                            [i \in DOMAIN s |-> s[i].price],
                            [i \in DOMAIN s |-> timeWeight(s, 0, 1, i)])
               lag == exact - runningAverages(s)[Len(s)].average
           IN  0 <= lag /\ lag < Len(s)
<1> DEFINE n == Len(s)
           prices == [i \in DOMAIN s |-> s[i].price]
           exact == calculateWeightedAverage(prices, weightsIn(s))
           average == runningAverages(s)[n].average
           W == SumFunctionOnSet(weightsIn(s), 1..n)
           V == SumFunctionOnSet(amountsIn(s), 1..n)
<1>1. /\ n \in Nat /\ DOMAIN s = 1..n /\ n \in 1..n /\ 1 \in 1..n
      /\ \A i \in 1..n : /\ weightsIn(s)[i] \in Nat \ {0}
                         /\ amountsIn(s)[i] = s[i].price * weightsIn(s)[i]
                         /\ amountsIn(s)[i] \in Nat
  BY CachedWeights, SeqParts
<1>2. IsFiniteSet(1..n)
  BY <1>1, FS_Interval
<1>3. /\ average \in Nat /\ V \in Nat
      /\ average * W <= V
      /\ V <= (average + (n - 1)) * W
  BY <1>1, LagAfter
<1>4. W \in Nat \ {0}
  <2>1. \A i \in 1..n : weightsIn(s)[i] \in Nat
    BY <1>1
  <2>2. W = weightsIn(s)[1] + SumFunctionOnSet(weightsIn(s), (1..n) \ {1})
    <3>1. \A i \in 1..n : weightsIn(s)[i] \in Int
      BY <2>1
    <3>2. 1 \in 1..n
      BY <1>1
    <3> QED BY <1>2, <3>1, <3>2, SumWithout
  <2>3. SumFunctionOnSet(weightsIn(s), (1..n) \ {1}) \in Nat
    BY <1>2, <2>1, SumOfNaturals, FS_Subset
  <2> HIDE DEF W
  <2> QED BY <1>1, <2>2, <2>3
<1>5. exact = V \div W
  <2> DEFINE value == [i \in 1..n |-> prices[i] * weightsIn(s)[i]]
  <2>1. \A i \in 1..n : value[i] = amountsIn(s)[i]
    BY <1>1
  <2> HIDE DEF value
  <2>2. SumFunctionOnSet(value, 1..n) = V
    BY <1>2, <2>1, SumOfSame
  <2>3. DOMAIN prices = 1..n
    BY <1>1
  <2>4. exact = IF W = 0 THEN 0 ELSE SumFunctionOnSet(value, 1..n) \div W
    BY <2>3 DEF calculateWeightedAverage, weightedAverage, value
  <2> HIDE DEF W, V, exact
  <2> QED BY <1>4, <2>2, <2>4
<1>6. exact = calculateWeightedAverage(prices, [i \in DOMAIN s |-> timeWeight(s, 0, 1, i)])
  BY DEF weightsIn
<1> HIDE DEF V, W, exact, average, n
<1> DEFINE q == V \div W
<1>7. q \in Nat /\ W * q <= V /\ V < W * q + W
  BY <1>3, <1>4, Quotient
<1>8. q <= average + (n - 1)
  <2>1. average + (n - 1) \in Nat
    BY <1>1, <1>3
  <2>2. V <= W * (average + (n - 1))
    BY <1>3, <1>4, <2>1
  <2> QED BY <1>3, <1>4, <2>1, <2>2, QuotientAtMost
<1> HIDE DEF q
<1>9. average <= q
  <2> SUFFICES ASSUME ~(average <= q) PROVE FALSE
    OBVIOUS
  <2>1. q + 1 <= average
    BY <1>3, <1>7
  <2>2. (q + 1) * W <= average * W
    BY <1>3, <1>4, <1>7, <2>1
  <2>3. (q + 1) * W = W * q + W /\ W * q \in Nat /\ average * W \in Nat
    BY <1>3, <1>4, <1>7
  <2> QED BY <1>3, <1>4, <1>7, <2>2, <2>3
<1>10. 0 <= exact - average /\ exact - average < n
  BY <1>1, <1>3, <1>5, <1>7, <1>8, <1>9 DEF q
<1> QED BY <1>6, <1>10 DEF average, n, exact

\* One update of exponentialMovingAverage: two roundings at each update never
\* take the average further than 2 / alpha below a price that no price is below.
LEMMA MovingAverageSinksLittle ==
    ASSUME NEW low \in Nat, NEW e \in Nat, NEW p \in Nat, NEW alpha \in 1..PRECISION,
           low <= p, low * alpha < e * alpha + 2 * PRECISION
    PROVE  LET new == exponentialMovingAverage(e, p, alpha)
           IN  new \in Nat /\ low * alpha < new * alpha + 2 * PRECISION
<1> DEFINE P == PRECISION
           beta == P - alpha
           a == alpha * p
           b == beta * e
           qa == a \div P
           qb == b \div P
           new == qa + qb
<1>1. P \in Nat \ {0} /\ alpha \in Nat \ {0} /\ beta \in Nat /\ alpha + beta = P
  BY MathAssumption
<1>2. exponentialMovingAverage(e, p, alpha) = new
  BY DEF exponentialMovingAverage
<1>3. low * alpha < e * alpha + 2 * P
  OBVIOUS
<1> HIDE DEF P, beta
<1>4. a \in Nat /\ b \in Nat
  BY <1>1
<1>5. a = alpha * p /\ b = beta * e
  OBVIOUS
<1> HIDE DEF a, b
<1>6. /\ qa \in Nat /\ P * qa <= a /\ a < P * qa + P
      /\ qb \in Nat /\ P * qb <= b /\ b < P * qb + P
  BY <1>1, <1>4, Quotient
<1> HIDE DEF qa, qb
<1>7. new \in Nat /\ P * new = P * qa + P * qb
  BY <1>1, <1>6
<1>8. a + b < P * new + 2 * P
  BY <1>1, <1>4, <1>6, <1>7
<1> HIDE DEF new
<1> DEFINE L == low * alpha
           E == e * alpha
           N == new * alpha
<1>9. L \in Nat /\ E \in Nat /\ N \in Nat /\ L < E + 2 * P
  BY <1>1, <1>3, <1>7
\* The step, times alpha.
<1>10. alpha * L + beta * E < P * N + 2 * (P * alpha)
  <2>1. alpha * a + alpha * b < alpha * (P * new + 2 * P)
    <3>1. \A x, y \in Nat, z \in Nat \ {0} : x < y => z * x < z * y
      OBVIOUS
    <3>2. a + b \in Nat /\ P * new + 2 * P \in Nat
      BY <1>1, <1>4, <1>7
    <3>3. alpha * (a + b) < alpha * (P * new + 2 * P)
      BY <1>1, <1>8, <3>1, <3>2
    <3>4. alpha * (a + b) = alpha * a + alpha * b
      BY <1>1, <1>4
    <3> QED BY <3>3, <3>4
  <2>2. alpha * (P * new + 2 * P) = P * N + 2 * (P * alpha)
    BY <1>1, <1>7
  <2>3. alpha * b = beta * E
    BY <1>1, <1>5
  <2>4. alpha * L <= alpha * a
    <3>1. L <= a
      BY <1>1, <1>5
    <3>2. \A x, y, z \in Nat : x <= y => z * x <= z * y
      OBVIOUS
    <3> HIDE DEF L
    <3> QED BY <1>1, <1>4, <1>9, <3>1, <3>2
  <2>5. /\ alpha * L \in Nat /\ beta * E \in Nat /\ alpha * a \in Nat
        /\ P * N + 2 * (P * alpha) \in Nat
    <3> HIDE DEF L, E, N
    <3> QED BY <1>1, <1>4, <1>9
  <2> HIDE DEF L, E, N
  <2> QED BY <2>1, <2>2, <2>3, <2>4, <2>5
\* What was assumed, times beta.
<1>11. beta * L <= beta * E + 2 * (P * beta)
  <2> HIDE DEF L, E
  <2>1. \A x, y, z \in Nat : x < y => z * x <= z * y
    OBVIOUS
  <2>2. beta * L <= beta * (E + 2 * P)
    BY <1>1, <1>9, <2>1
  <2> QED BY <1>1, <1>9, <2>2
<1> HIDE DEF L, E, N
<1>12. P * L < P * (N + 2 * P)
  <2>1. P * L = alpha * L + beta * L /\ P * P = P * alpha + P * beta
    BY <1>1, <1>9
  <2>2. P * (N + 2 * P) = P * N + 2 * (P * P)
    BY <1>1, <1>9
  <2>3. /\ alpha * L \in Nat /\ beta * L \in Nat /\ beta * E \in Nat /\ P * N \in Nat
        /\ P * alpha \in Nat /\ P * beta \in Nat
    BY <1>1, <1>9
  <2> QED BY <1>10, <1>11, <2>1, <2>2, <2>3
<1>13. L < N + 2 * P
  <2>1. \A x, y \in Nat, z \in Nat \ {0} : z * x < z * y => x < y
    OBVIOUS
  <2> QED BY <1>1, <1>9, <1>12, <2>1
<1> QED BY <1>2, <1>7, <1>13 DEF L, N, P

\* The moving average as a function of the number of points.
LEMMA MovingAverages ==
    ASSUME NEW s \in Seq(PricePoint), s # <<>>, NEW alpha \in 1..PRECISION
    PROVE  LET moving == movingAverages(s, alpha)
           IN  /\ moving[1] = s[1].price
               /\ \A k \in 1..(Len(s) - 1) :
                      moving[k + 1] = exponentialMovingAverage(moving[k], s[k + 1].price, alpha)
<1> DEFINE n == Len(s)
           first == s[1].price
           next(e, k) == exponentialMovingAverage(e, s[k].price, alpha)
           Is(f) == f = [k \in 1..n |-> IF k = 1 THEN first ELSE next(f[k - 1], k)]
           step == [x \in Nat \X Nat |-> IF x[2] \in 1..(n - 1) THEN next(x[1], x[2] + 1) ELSE 0]
           m == n - 1
           g == recursion(m, Nat, first, step)
           f == [k \in 1..n |-> g[k - 1]]
<1>1. n \in Nat \ {0} /\ m \in Nat /\ 1 \in 1..n /\ \A k \in 1..n : s[k].price \in Nat
  BY SeqParts, PointParts
<1>2. movingAverages(s, alpha) = CHOOSE h : Is(h)
  BY DEF movingAverages
<1>3. ASSUME NEW e \in Nat, NEW k \in 1..n PROVE next(e, k) \in Nat
  <2>1. s[k].price \in Nat
    BY <1>1
  <2>2. alpha \in Nat /\ PRECISION - alpha \in Nat /\ PRECISION \in Nat \ {0}
    BY MathAssumption
  <2>3. \A a, b \in Nat : a * b \in Nat /\ a + b \in Nat
    OBVIOUS
  <2>4. alpha * s[k].price \in Nat /\ (PRECISION - alpha) * e \in Nat
    BY <2>1, <2>2, <2>3
  <2>5. \A a \in Nat, b \in Nat \ {0} : a \div b \in Nat
    OBVIOUS
  <2>6. /\ (alpha * s[k].price) \div PRECISION \in Nat
        /\ ((PRECISION - alpha) * e) \div PRECISION \in Nat
    BY <2>2, <2>4, <2>5
  <2> QED BY <2>3, <2>6 DEF exponentialMovingAverage
<1>4. first \in Nat
  BY <1>1
<1> HIDE DEF next, first, n
<1>5. step \in [Nat \X Nat -> Nat]
  <2>1. \A k \in 1..(n - 1) : k + 1 \in 1..n
    BY <1>1
  <2> QED BY <1>3, <2>1
<1>6. ASSUME NEW e \in Nat, NEW k \in 1..(n - 1) PROVE step[<<e, k>>] = next(e, k + 1)
  <2>1. <<e, k>> \in Nat \X Nat
    BY <1>1
  <2> QED BY <2>1
<1> HIDE DEF step
<1>7. g \in [0..m -> Nat] /\ g[0] = first /\ \A k \in 1..m : g[k] = step[<<g[k - 1], k>>]
  <2> HIDE DEF m
  <2>1. IsRecursion(recursion(m, Nat, first, step), m, Nat, first, step)
    BY <1>1, <1>4, <1>5, RecursionAlongRange
  <2> QED BY <2>1 DEF IsRecursion
<1> HIDE DEF g
<1>8. Is(f)
  <2>1. ASSUME NEW k \in 1..n PROVE f[k] = IF k = 1 THEN first ELSE next(f[k - 1], k)
    <3>1. CASE k = 1
      BY <1>7, <3>1
    <3>2. CASE k # 1
      <4>1. /\ k - 1 \in 1..n /\ k - 1 \in 1..m /\ k - 1 \in 1..(n - 1)
            /\ (k - 1) - 1 \in 0..m /\ (k - 1) + 1 = k
        BY <1>1, <3>2
      <4>2. f[k] = g[k - 1] /\ f[k - 1] = g[(k - 1) - 1]
        BY <4>1
      <4>3. g[k - 1] = step[<<g[(k - 1) - 1], k - 1>>] /\ g[(k - 1) - 1] \in Nat
        BY <1>7, <4>1
      <4> HIDE DEF f, m
      <4> QED BY <1>6, <3>2, <4>1, <4>2, <4>3
    <3> QED BY <3>1, <3>2
  <2>2. f = [k \in 1..n |-> f[k]]
    OBVIOUS
  <2> HIDE DEF f
  <2> QED BY <2>1, <2>2
<1> HIDE DEF f
<1> DEFINE moving == movingAverages(s, alpha)
<1>9. Is(moving)
  <2> HIDE DEF Is
  <2> QED BY <1>2, <1>8
<1> HIDE DEF moving
<1>10. moving[1] = first
  BY <1>1, <1>9
<1>11. ASSUME NEW k \in 1..(n - 1) PROVE moving[k + 1] = next(moving[k], k + 1)
  <2>1. k + 1 \in 1..n /\ k + 1 # 1 /\ (k + 1) - 1 = k
    BY <1>1
  <2> QED BY <1>9, <2>1
<1> QED BY <1>10, <1>11 DEF moving, first, next, n

LEMMA MovingAverageIsNear ==
    ASSUME NEW s \in Seq(PricePoint), s # <<>>, NEW alpha \in 1..PRECISION
    PROVE  LET average == movingAverages(s, alpha)[Len(s)]
           IN  \E low, high \in ToSet(s) :
                   /\ low.price * alpha < average * alpha + 2 * PRECISION
                   /\ average <= high.price
<1> DEFINE n == Len(s)
           moving == movingAverages(s, alpha)
           near(k) == /\ moving[k] \in Nat
                      /\ \E low \in ToSet(s) :
                             low.price * alpha < moving[k] * alpha + 2 * PRECISION
                      /\ \E high \in ToSet(s) : moving[k] <= high.price
           good == {k \in 0..n : k # 0 => near(k)}
<1>1. /\ n \in Nat \ {0} /\ 1 \in 1..n
      /\ \A k \in 1..n : s[k].price \in Nat /\ s[k] \in ToSet(s)
      /\ \A q \in ToSet(s) : q.price \in Nat
  <2>1. \A q \in ToSet(s) : q.price \in Nat
    <3>1. \A q \in ToSet(s) : q \in PricePoint
      BY SeqParts
    <3> QED BY <3>1 DEF PricePoint
  <2> QED BY <2>1, SeqParts, PointParts
<1>2. /\ moving[1] = s[1].price
      /\ \A k \in 1..(n - 1) :
             moving[k + 1] = exponentialMovingAverage(moving[k], s[k + 1].price, alpha)
  BY MovingAverages
<1> HIDE DEF moving, n
<1>3. ASSUME NEW k \in 0..(n - 1), k \in good PROVE k + 1 \in good
  <2>1. CASE k = 0
    <3>1. k + 1 = 1 /\ moving[1] = s[1].price /\ s[1].price \in Nat /\ s[1] \in ToSet(s)
      BY <1>1, <1>2, <2>1
    <3>2. s[1].price * alpha < s[1].price * alpha + 2 * PRECISION
      <4>1. \A a, b, c \in Nat : c # 0 => a * b < a * b + 2 * c
        OBVIOUS
      <4>2. alpha \in Nat /\ PRECISION \in Nat /\ PRECISION # 0
        BY MathAssumption
      <4> QED BY <3>1, <4>1, <4>2
    <3>3. near(1)
      <4>1. s[1].price <= s[1].price
        BY <3>1
      <4> QED BY <3>1, <3>2, <4>1
    <3> HIDE DEF near
    <3> QED BY <1>1, <3>1, <3>3
  <2>2. CASE k # 0
    <3> DEFINE p == s[k + 1].price
               e == moving[k]
               new == moving[k + 1]
    <3>1. k \in 1..(n - 1) /\ k + 1 \in 1..n /\ k + 1 \in 0..n
      BY <1>1, <2>2
    <3>2. e \in Nat /\ p \in Nat /\ s[k + 1] \in ToSet(s)
      BY <1>1, <1>3, <2>2, <3>1
    <3>3. new = exponentialMovingAverage(e, p, alpha)
      BY <1>2, <3>1
    <3>4. PICK l \in ToSet(s) : l.price * alpha < e * alpha + 2 * PRECISION
      BY <1>3, <2>2
    <3>5. PICK h \in ToSet(s) : e <= h.price
      BY <1>3, <2>2
    <3>6. l.price \in Nat /\ h.price \in Nat /\ alpha \in Nat /\ PRECISION \in Nat \ {0}
      BY <1>1, MathAssumption
    \* the lower of the two points, and the higher one
    <3>7. PICK low \in ToSet(s) : /\ low.price \in Nat /\ low.price <= p
                                  /\ low.price * alpha < e * alpha + 2 * PRECISION
      <4>1. CASE l.price <= p
        BY <3>4, <3>6, <4>1
      <4>2. CASE p < l.price
        <5>1. \A a, b, c \in Nat : a < b => a * c <= b * c
          OBVIOUS
        <5>2. p * alpha <= l.price * alpha
          BY <3>2, <3>6, <4>2, <5>1
        <5>3. p * alpha \in Nat /\ l.price * alpha \in Nat /\ e * alpha + 2 * PRECISION \in Nat
          <6>1. \A a, b \in Nat : a * b \in Nat /\ a + b \in Nat
            OBVIOUS
          <6> QED BY <3>2, <3>6, <6>1
        <5>4. p * alpha < e * alpha + 2 * PRECISION
          BY <3>4, <5>2, <5>3
        <5>5. p <= p
          BY <3>2
        <5> QED BY <3>2, <5>4, <5>5
      <4> QED BY <3>2, <3>6, <4>1, <4>2
    <3>8. PICK high \in ToSet(s) : high.price \in Nat /\ p <= high.price /\ e <= high.price
      <4>1. CASE p <= h.price
        BY <3>5, <3>6, <4>1
      <4>2. CASE h.price < p
        <5>1. e <= p /\ p <= p
          BY <3>2, <3>5, <3>6, <4>2
        <5> QED BY <3>2, <5>1
      <4> QED BY <3>2, <3>6, <4>1, <4>2
    <3> HIDE DEF p, e, new
    <3>9. new \in Nat /\ low.price * alpha < new * alpha + 2 * PRECISION
      BY <3>2, <3>3, <3>7, MovingAverageSinksLittle
    <3>10. new <= high.price
      <4>1. e \in 0..high.price /\ p \in 0..high.price /\ alpha \in 0..PRECISION
        BY <3>2, <3>6, <3>8
      <4>2. 0 \in Nat
        OBVIOUS
      <4> QED BY <3>3, <3>8, <4>1, <4>2, MovingAverageStep
    <3>11. near(k + 1)
      BY <3>9, <3>10 DEF new
    <3> HIDE DEF near
    <3> QED BY <3>1, <3>11
  <2> QED BY <2>1, <2>2
<1>4. 0 \in good
  BY <1>1
<1> HIDE DEF near
<1>5. near(n)
  <2> HIDE DEF good
  <2>1. \A k \in 0..n : k \in good
    BY <1>1, <1>3, <1>4, AlongRange
  <2> QED BY <1>1, <2>1 DEF good
<1> QED BY <1>5 DEF near, n, moving

LEMMA RoundingFollows == PriceInv => RoundingStaysBounded
<1> SUFFICES ASSUME PriceInv PROVE RunningAverageLags /\ MovingAverageStaysNear
  BY DEF RoundingStaysBounded
<1>1. \A pair \in Pairs : cache[pair] \in Seq(PricePoint) /\ Spaced(cache[pair])
  BY DEF PriceInv, TypeOK, CacheInv
<1>2. RunningAverageLags
  BY <1>1, AverageLags DEF RunningAverageLags
<1>3. MovingAverageStaysNear
  BY <1>1, MovingAverageIsNear DEF MovingAverageStaysNear
<1> QED BY <1>2, <1>3

\* However many points are averaged, the rounding of updateWeightedAverage and of
\* exponentialMovingAverage stays within the bounds: the first lags by less than one
\* unit per point, the second sinks below all prices by less than 2 / alpha.
THEOREM RoundingStaysBoundedHolds == Spec => []RoundingStaysBounded
BY AlwaysPriceInv, RoundingFollows, PTL
=============================================================================
