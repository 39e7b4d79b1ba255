------------------------ MODULE BridgeHistoryProofs ------------------------
(***************************************************************************)
(* Theorems about the life of an order: it ends once, its executions are   *)
(* spaced, only its last fill is small, its average price stays within     *)
(* its prices, and the bridge implements the escrow of its deposit.        *)
(* They share one lemma that says what a step can do to an order.          *)
(***************************************************************************)
EXTENDS FlowFusionBridgeProofs

\* What a step does to the one order it changes.
Opened(id) ==
    /\ ~orderExists(id)
    /\ \E new \in Order :
        /\ orders' = [orders EXCEPT ![id] = new]
        /\ new.user # NoUser
        /\ new.status = "Executing"
        /\ new.sourceAmount > 0
        /\ new.executedAmount = 0
        /\ new.lastExecution = 0
        /\ new.averagePrice = 0
        /\ validTWAPConfig(new.twapConfig)
    /\ UNCHANGED executionHistory

Filled(id) ==
    /\ orderExists(id)
    /\ orders[id].status = "Executing"
    /\ \/ orders[id].lastExecution = 0
       \/ now >= orders[id].lastExecution
                     + getIntervalDuration(orders[id].twapConfig)
    /\ \E amount \in Nat \ {0}, price \in Nat, slippage \in Nat :
        /\ amount <= Remaining(orders[id])
        /\ meetsMinimumFill(orders[id], amount)
        /\ orders' = [orders EXCEPT ![id] = fill(orders[id], amount, price)]
        /\ executionHistory' = [executionHistory EXCEPT ![id] =
               Append(@, [timestamp |-> now, amount |-> amount,
                          price |-> price, slippage |-> slippage])]

Closed(id) ==
    /\ orderExists(id)
    /\ \E status \in {"Cancelled", "Claimed"} :
        /\ orders[id].status =
               IF status = "Cancelled" THEN "Executing" ELSE "Completed"
        /\ orders' = [orders EXCEPT ![id] = [orders[id] EXCEPT !.status = status]]
    /\ UNCHANGED executionHistory

LEMMA OneOrderPerStep ==
    ASSUME IInv, [Next]_vars
    PROVE  \/ UNCHANGED orderVars
           \/ \E id \in OrderIds : Opened(id) \/ Filled(id) \/ Closed(id)
<1> USE DEF IInv
<1>1. ASSUME NEW u \in Users, NEW id \in OrderIds, NEW token \in Tokens,
             NEW amount \in Amounts, NEW value \in Values, NEW chain \in Chains,
             NEW config \in Configs, NEW hash \in Hashes, NEW timeout \in Timeouts,
             createTWAPOrder(u, id, token, amount, value, chain, config, hash, timeout)
      PROVE  Opened(id)
  <2> DEFINE new == [user |-> u, sourceToken |-> token,
                     sourceAmount |-> netAmount(amount), twapConfig |-> config,
                     htlcHash |-> hash, timeoutHeight |-> timeout,
                     executedAmount |-> 0, lastExecution |-> 0,
                     status |-> "Executing", averagePrice |-> 0]
  <2>1. amount \in Nat /\ config \in Config /\ timeout \in Nat /\ u # NoUser
    BY InputAssumption, AddressAssumption
  <2>2. netAmount(amount) \in Nat /\ netAmount(amount) > 0
    <3>1. settings.protocolFeeRate \in 0..MAX_FEE_RATE /\ amount >= MIN_EXECUTION_AMOUNT
      BY <1>1 DEF TypeOK, Settings, createTWAPOrder
    <3> QED BY <2>1, <3>1, FeeIsSmall DEF protocolFee, netAmount
  <2>3. new \in Order
    BY <2>1, <2>2 DEF Order, Status
  <2>4. /\ ~orderExists(id)
        /\ orders' = [orders EXCEPT ![id] = new]
        /\ validTWAPConfig(config)
        /\ UNCHANGED executionHistory
    BY <1>1 DEF createTWAPOrder
  <2> QED BY <2>1, <2>2, <2>3, <2>4 DEF Opened
<1>2. ASSUME NEW e \in Executors, NEW id \in OrderIds, NEW amount \in Amounts,
             NEW price \in Prices, executeTWAPInterval(e, id, amount, price)
      PROVE  Filled(id)
  <2>1. amount \in Nat \ {0} /\ price \in Nat
    BY <1>2, InputAssumption DEF executeTWAPInterval
  <2>2. orders[id].twapConfig.maxSlippage \in Nat
    BY DEF TypeOK, Order, Config
  <2>3. PICK slippage \in 0..orders[id].twapConfig.maxSlippage :
          executionHistory' = [executionHistory EXCEPT ![id] =
              Append(@, [timestamp |-> now, amount |-> amount,
                         price |-> price, slippage |-> slippage])]
    BY <1>2, Zenon DEF executeTWAPInterval
  <2>4. slippage \in Nat
    BY <2>2
  <2>5. /\ orderExists(id)
        /\ orders[id].status = "Executing"
        /\ \/ orders[id].lastExecution = 0
           \/ now >= orders[id].lastExecution
                         + getIntervalDuration(orders[id].twapConfig)
        /\ amount <= Remaining(orders[id])
        /\ meetsMinimumFill(orders[id], amount)
        /\ orders' = [orders EXCEPT ![id] = fill(orders[id], amount, price)]
    BY <1>2 DEF executeTWAPInterval, orderActive
  <2> QED BY <2>1, <2>3, <2>4, <2>5, Zenon DEF Filled
<1>3. ASSUME NEW id \in OrderIds, cancelOrder(id)
      PROVE  Closed(id)
  BY <1>3 DEF cancelOrder, orderActive, Closed
<1>4. ASSUME NEW id \in OrderIds, NEW secret \in Secrets, claimHTLC(id, secret)
      PROVE  Closed(id)
  BY <1>4 DEF claimHTLC, Closed
<1>5. CASE \/ Administer \/ UNCHANGED vars
           \/ \E token \in Tokens, amount \in Transfers :
                  emergencyWithdraw(token, amount) \/ receiveTokens(token, amount)
           \/ \E tick \in Ticks : NewBlock(tick)
  BY <1>5 DEF Administer, vars, emergencyWithdraw, receiveTokens, NewBlock, orderVars
<1> QED BY <1>1, <1>2, <1>3, <1>4, <1>5 DEF Next, CreateOrder, ExecuteInterval

\* The types that the later proofs need.
LEMMA OrderTypes ==
    ASSUME IInv, NEW id \in OrderIds
    PROVE  /\ orders \in [OrderIds -> Order]
           /\ executionHistory \in [OrderIds -> Seq(ExecutionRecord)]
           /\ orders[id] \in Order
           /\ executionHistory[id] \in Seq(ExecutionRecord)
           /\ orders[id].sourceAmount \in Nat
           /\ orders[id].executedAmount \in Nat
           /\ orders[id].lastExecution \in Nat
           /\ orders[id].averagePrice \in Nat
           /\ orders[id].twapConfig \in Config
BY DEF IInv, TypeOK, Order

\* A history after one more record.
LEMMA OneMoreRecord ==
    ASSUME NEW h \in Seq(ExecutionRecord), NEW r \in ExecutionRecord
    PROVE  /\ Len(h) \in Nat
           /\ DOMAIN h = 1..Len(h)
           /\ \A i \in 1..Len(h) : h[i] \in ExecutionRecord
           /\ Append(h, r) # <<>>
           /\ Len(Append(h, r)) = Len(h) + 1
           /\ DOMAIN Append(h, r) = 1..(Len(h) + 1)
           /\ \A i \in 1..Len(h) : Append(h, r)[i] = h[i]
           /\ Append(h, r)[Len(h) + 1] = r
OBVIOUS

\* The fields of an order after a fill.
LEMMA FillFields ==
    ASSUME IInv, NEW id \in OrderIds, NEW amount \in Nat \ {0}, NEW price \in Nat
    PROVE  LET old == orders[id]
               new == fill(old, amount, price)
           IN  /\ new.user = old.user
               /\ new.sourceAmount = old.sourceAmount
               /\ new.twapConfig = old.twapConfig
               /\ new.executedAmount = old.executedAmount + amount
               /\ new.lastExecution = now
               /\ new.status = IF old.executedAmount + amount >= old.sourceAmount
                               THEN "Completed" ELSE old.status
               /\ new.averagePrice =
                      IF old.averagePrice = 0 THEN price
                      ELSE calculateWeightedAveragePrice(old.averagePrice,
                               old.executedAmount + amount, price, amount)
<1>1. orders[id] \in Order
  BY OrderTypes
<1> DEFINE old == orders[id]
           executed == old.executedAmount + amount
           average == IF old.averagePrice = 0 THEN price
                      ELSE calculateWeightedAveragePrice(old.averagePrice,
                               executed, price, amount)
           status == IF executed >= old.sourceAmount THEN "Completed" ELSE old.status
<1>2. fill(old, amount, price) =
        [old EXCEPT !.executedAmount = executed, !.lastExecution = now,
                    !.averagePrice = average, !.status = status]
  BY DEF fill
<1> DEFINE new == fill(old, amount, price)
<1>3. /\ new.user = old.user
      /\ new.sourceAmount = old.sourceAmount
      /\ new.twapConfig = old.twapConfig
      /\ new.executedAmount = executed
      /\ new.lastExecution = now
      /\ new.status = status
      /\ new.averagePrice = average
  <2> HIDE DEF executed, average, status, old
  <2>1. old \in Order
    BY <1>1 DEF old
  <2> QED BY <1>2, <2>1 DEF Order
<1> QED BY <1>3

-----------------------------------------------------------------------------
(* The life of an order.                                                   *)

LEMMA StepEndsOnce ==
    ASSUME IInv, [Next]_vars, NEW id \in OrderIds, orderExists(id)
    PROVE  OrderStep(orders[id], orders'[id])
<1> DEFINE old == orders[id]
           new == orders'[id]
<1>1. old \in Order /\ old.status \in Status /\ old.status # "Expired"
        /\ (old.status = "Completed" => old.executedAmount = old.sourceAmount)
  BY OrderTypes DEF IInv, StatusMatchesAmounts, Order
<1>2. ASSUME new = old PROVE OrderStep(old, new)
  <2>1. old = [old EXCEPT !.status = old.status]
    BY <1>1 DEF Order
  <2> QED BY <1>1, <1>2, <2>1 DEF OrderStep, Status
<1>3. ASSUME NEW i \in OrderIds, i # id, Opened(i) \/ Filled(i) \/ Closed(i)
      PROVE  new = old
  BY <1>3, OrderTypes DEF Opened, Filled, Closed
<1>4. ASSUME Filled(id) PROVE OrderStep(old, new)
  <2>1. PICK amount \in Nat \ {0}, price \in Nat :
            orders' = [orders EXCEPT ![id] = fill(old, amount, price)]
    BY <1>4 DEF Filled
  <2>2. new = fill(old, amount, price)
    BY <2>1, OrderTypes
  <2>3. new.user = old.user /\ new.status \in {"Executing", "Completed"}
          /\ old.status = "Executing"
    BY <1>4, <2>2, FillFields DEF Filled
  <2> QED BY <2>3 DEF OrderStep
<1>5. ASSUME Closed(id) PROVE OrderStep(old, new)
  <2>1. PICK status \in {"Cancelled", "Claimed"} :
          /\ old.status = IF status = "Cancelled" THEN "Executing" ELSE "Completed"
          /\ orders' = [orders EXCEPT ![id] = [old EXCEPT !.status = status]]
    BY <1>5 DEF Closed
  <2>2. new = [old EXCEPT !.status = status] /\ new.user = old.user
          /\ new.status = status
    BY <1>1, <2>1, OrderTypes DEF Order
  <2> QED BY <2>1, <2>2 DEF OrderStep
<1>6. ~Opened(id)
  BY DEF Opened
<1>7. ASSUME UNCHANGED orderVars PROVE new = old
  BY <1>7 DEF orderVars
<1> QED
  BY <1>2, <1>3, <1>4, <1>5, <1>6, <1>7, OneOrderPerStep

\* An order is completed or cancelled at most once, claimed only when it is
\* completed, and frozen after that.
THEOREM OrdersEndOnceHolds == Spec => OrdersEndOnce
<1>1. IInv /\ [Next]_vars =>
        [\A id \in OrderIds : orderExists(id) => OrderStep(orders[id], orders'[id])]_vars
  BY StepEndsOnce
<1> QED BY <1>1, IInvHolds, PTL DEF Spec, OrdersEndOnce

-----------------------------------------------------------------------------
(* Average price.                                                          *)

LEMMA AverageStep == IInv /\ AverageWithinPrices /\ [Next]_vars => AverageWithinPrices'
<1> SUFFICES ASSUME IInv, AverageWithinPrices, [Next]_vars, NEW id \in OrderIds
             PROVE  AverageWithinPrices!(id)'
  BY DEF AverageWithinPrices
<1> DEFINE h == executionHistory[id]
           old == orders[id]
<1>1. ASSUME orders'[id].averagePrice = old.averagePrice,
             executionHistory'[id] = h
      PROVE  AverageWithinPrices!(id)'
  BY <1>1 DEF AverageWithinPrices
<1>2. ASSUME NEW i \in OrderIds, i # id, Opened(i) \/ Filled(i) \/ Closed(i)
      PROVE  orders'[id].averagePrice = old.averagePrice
               /\ executionHistory'[id] = h
  BY <1>2, OrderTypes DEF Opened, Filled, Closed
<1>3. ASSUME Opened(id)
      PROVE  orders'[id].averagePrice = old.averagePrice
               /\ executionHistory'[id] = h
  <2>1. old = NoOrder
    BY <1>3 DEF Opened, IInv, StatusMatchesAmounts
  <2> QED BY <1>3, <2>1, OrderTypes DEF Opened, NoOrder
<1>4. ASSUME Closed(id)
      PROVE  orders'[id].averagePrice = old.averagePrice
               /\ executionHistory'[id] = h
  BY <1>4, OrderTypes DEF Closed, Order
<1>5. ASSUME Filled(id) PROVE AverageWithinPrices!(id)'
  <2>1. PICK amount \in Nat \ {0}, price \in Nat, slippage \in Nat :
          /\ orders' = [orders EXCEPT ![id] = fill(old, amount, price)]
          /\ executionHistory' = [executionHistory EXCEPT ![id] =
               Append(@, [timestamp |-> now, amount |-> amount,
                          price |-> price, slippage |-> slippage])]
    BY <1>5, Zenon DEF Filled
  <2> DEFINE new == orders'[id].averagePrice
             n == Len(h)
  <2> DEFINE r == [timestamp |-> now, amount |-> amount,
                   price |-> price, slippage |-> slippage]
             g == executionHistory'[id]
  <2>2. h \in Seq(ExecutionRecord) /\ r \in ExecutionRecord /\ g = Append(h, r)
          /\ r.price = price
    BY <2>1, OrderTypes DEF ExecutionRecord, IInv, TypeOK
  <2>3. /\ n \in Nat
        /\ DOMAIN h = 1..n
        /\ g # <<>>
        /\ DOMAIN g = 1..(n+1)
        /\ \A i \in 1..n : g[i].price = h[i].price /\ h[i].price \in Nat
        /\ g[n+1].price = price
    <3> HIDE DEF g, r
    <3> QED BY <2>2, OneMoreRecord DEF ExecutionRecord
  <2>4. old.averagePrice \in Nat
          /\ new = IF old.averagePrice = 0 THEN price
                   ELSE calculateWeightedAveragePrice(old.averagePrice,
                            old.executedAmount + amount, price, amount)
    BY <2>1, FillFields, OrderTypes
  <2>5. CASE new = price
    BY <2>3, <2>5
  <2>6. CASE old.averagePrice # 0
    <3>1. /\ new \in Nat
          /\ new >= old.averagePrice \/ new >= price
          /\ new <= old.averagePrice \/ new <= price
      <4>1. old.executedAmount + amount \in Nat
        BY OrderTypes
      <4> HIDE DEF old, new
      <4> QED BY <2>4, <2>6, <4>1, AverageIsBetween
    <3>2. h # <<>>
      BY <2>6 DEF AverageWithinPrices
    <3>3. PICK i \in DOMAIN h, j \in DOMAIN h :
            h[i].price <= old.averagePrice /\ old.averagePrice <= h[j].price
      BY <3>2 DEF AverageWithinPrices
    <3> HIDE DEF g, h, n, new, old
    <3>4. /\ g[i].price \in Nat /\ g[i].price <= old.averagePrice
          /\ g[j].price \in Nat /\ old.averagePrice <= g[j].price
          /\ i \in 1..(n+1) /\ j \in 1..(n+1) /\ n+1 \in 1..(n+1)
      BY <2>3, <3>3
    <3>5. \E k \in 1..(n+1) : g[k].price <= new
      BY <2>3, <2>4, <3>1, <3>4
    <3>6. \E k \in 1..(n+1) : new <= g[k].price
      BY <2>3, <2>4, <3>1, <3>4
    <3>7. \E k, l \in DOMAIN g : g[k].price <= new /\ new <= g[l].price
      BY <2>3, <3>5, <3>6
    <3> USE DEF g, new
    <3> QED BY <2>3, <3>7
  <2> QED BY <2>4, <2>5, <2>6
<1>6. CASE UNCHANGED orderVars
  BY <1>1, <1>6 DEF orderVars
<1> QED
  BY <1>1, <1>2, <1>3, <1>4, <1>5, <1>6, OneOrderPerStep

\* The average price is always within the prices executed, although it is not
\* their weighted average.
THEOREM AverageIsWithinPrices == Spec => []AverageWithinPrices
<1>1. Init => AverageWithinPrices
  BY DEF Init, AverageWithinPrices, NoOrder
<1> QED BY <1>1, AverageStep, IInvHolds, PTL DEF Spec

-----------------------------------------------------------------------------
(* Spacing.  The guard of executeTWAPInterval compares with lastExecution, *)
(* so the invariant says that this is the time of the last record, and     *)
(* that no record has the time 0 that means "never".                       *)

LastIsLatest ==
    \A id \in OrderIds :
        LET history == executionHistory[id] IN
        /\ orderExists(id) => validTWAPConfig(orders[id].twapConfig)
        /\ history # <<>> =>
              /\ orderExists(id)
              /\ orders[id].lastExecution = history[Len(history)].timestamp
        /\ \A i \in DOMAIN history : history[i].timestamp # 0

SpacingInv == LastIsLatest /\ ExecutionsAreSpaced

LEMMA IntervalIsNat ==
    ASSUME NEW config \in Config, validTWAPConfig(config)
    PROVE  getIntervalDuration(config) \in Nat
<1>1. config.windowMinutes \in Nat /\ config.executionIntervals \in 2..20
  BY DEF Config, validTWAPConfig, MAX_EXECUTION_INTERVALS
<1> DEFINE w == config.windowMinutes
           k == config.executionIntervals
<1>2. (w * 60) \div k \in Nat
  <2> HIDE DEF w, k
  <2>1. w \in Nat /\ k \in 2..20
    BY <1>1 DEF w, k
  <2> QED BY <2>1
<1> QED BY <1>2 DEF getIntervalDuration

LEMMA OneMoreInterval ==
    ASSUME NEW m \in Nat, NEW d \in Nat
    PROVE  (m + 1) * d = m * d + d
OBVIOUS

LEMMA SpacingStep == IInv /\ SpacingInv /\ [Next]_vars => SpacingInv'
<1> SUFFICES ASSUME IInv, SpacingInv, [Next]_vars, NEW id \in OrderIds
             PROVE  LastIsLatest!(id)' /\ ExecutionsAreSpaced!(id)'
  BY DEF SpacingInv, LastIsLatest, ExecutionsAreSpaced
<1> DEFINE h == executionHistory[id]
           old == orders[id]
           new == orders'[id]
           Goal == LastIsLatest!(id)' /\ ExecutionsAreSpaced!(id)'
<1>1. ASSUME new.twapConfig = old.twapConfig, new.lastExecution = old.lastExecution,
             new.user = old.user, executionHistory'[id] = h
      PROVE  Goal
  BY <1>1 DEF SpacingInv, LastIsLatest, ExecutionsAreSpaced, orderExists
<1>2. ASSUME NEW i \in OrderIds, i # id, Opened(i) \/ Filled(i) \/ Closed(i)
      PROVE  Goal
  <2>1. new = old /\ executionHistory'[id] = h
    BY <1>2, OrderTypes DEF Opened, Filled, Closed
  <2> QED BY <1>1, <2>1
<1>3. ASSUME Opened(id) PROVE Goal
  <2>1. h = <<>>
    BY <1>3 DEF Opened, IInv, StatusMatchesAmounts
  <2>2. executionHistory'[id] = <<>> /\ validTWAPConfig(new.twapConfig)
    BY <1>3, <2>1, OrderTypes DEF Opened
  <2> QED BY <2>2
<1>4. ASSUME Closed(id) PROVE Goal
  <2>1. /\ new.twapConfig = old.twapConfig /\ new.lastExecution = old.lastExecution
        /\ new.user = old.user /\ executionHistory'[id] = h
    BY <1>4, OrderTypes DEF Closed, Order
  <2> QED BY <1>1, <2>1
<1>5. ASSUME Filled(id) PROVE Goal
  <2>1. PICK amount \in Nat \ {0}, price \in Nat, slippage \in Nat :
          /\ orders' = [orders EXCEPT ![id] = fill(old, amount, price)]
          /\ executionHistory' = [executionHistory EXCEPT ![id] =
               Append(@, [timestamp |-> now, amount |-> amount,
                          price |-> price, slippage |-> slippage])]
    BY <1>5, Zenon DEF Filled
  <2> DEFINE r == [timestamp |-> now, amount |-> amount,
                   price |-> price, slippage |-> slippage]
             g == executionHistory'[id]
             n == Len(h)
             d == getIntervalDuration(old.twapConfig)
  <2>2. h \in Seq(ExecutionRecord) /\ r \in ExecutionRecord /\ g = Append(h, r)
          /\ r.timestamp = now /\ now \in Nat \ {0}
    BY <2>1, OrderTypes, ClockAssumption
    DEF ExecutionRecord, IInv, TypeOK, MAX_WINDOW_MINUTES
  <2>3. /\ n \in Nat
        /\ DOMAIN h = 1..n
        /\ g # <<>>
        /\ Len(g) = n + 1
        /\ DOMAIN g = 1..(n+1)
        /\ \A i \in 1..n : g[i].timestamp = h[i].timestamp /\ h[i].timestamp \in Nat
        /\ g[n+1].timestamp = now
    <3> HIDE DEF g, h, r
    <3>1. /\ n \in Nat
          /\ DOMAIN h = 1..n
          /\ g # <<>>
          /\ Len(g) = n + 1
          /\ DOMAIN g = 1..(n+1)
          /\ \A i \in 1..n : h[i] \in ExecutionRecord
          /\ \A i \in 1..n : g[i] = h[i]
          /\ g[n+1] = r
      BY <2>2, OneMoreRecord
    <3>2. \A i \in 1..n : g[i].timestamp = h[i].timestamp /\ h[i].timestamp \in Nat
      BY <3>1 DEF ExecutionRecord
    <3> HIDE DEF n
    <3> QED BY <2>2, <3>1, <3>2
  <2>4. /\ new.user = old.user /\ new.twapConfig = old.twapConfig
        /\ new.lastExecution = now
    BY <2>1, FillFields, OrderTypes
  <2>5. orderExists(id) /\ validTWAPConfig(old.twapConfig)
    BY <1>5 DEF Filled, SpacingInv, LastIsLatest
  <2>6. d \in Nat
    BY <2>5, IntervalIsNat, OrderTypes
  <2>7. ASSUME n # 0 PROVE h[n].timestamp + d <= now
    <3>1. h # <<>> /\ n \in DOMAIN h
      BY <2>2, <2>3, <2>7
    <3>2. old.lastExecution = h[n].timestamp /\ old.lastExecution # 0
      BY <3>1 DEF SpacingInv, LastIsLatest
    <3> QED BY <1>5, <3>2 DEF Filled
  <2>8. LastIsLatest!(id)'
    <3>1. \A i \in 1..n : h[i].timestamp # 0
      BY <2>3 DEF SpacingInv, LastIsLatest
    <3>2. \A i \in DOMAIN g : g[i].timestamp # 0
      <4> HIDE DEF g, h, n
      <4> QED BY <2>2, <2>3, <3>1
    <3> QED BY <2>3, <2>4, <2>5, <3>2 DEF orderExists
  <2>9. ASSUME NEW i \in DOMAIN g, NEW j \in DOMAIN g, i < j
        PROVE  g[j].timestamp - g[i].timestamp >= (j - i) * d
    <3>1. \A k, l \in 1..n : k < l =>
              h[l].timestamp - h[k].timestamp >= (l - k) * d
      BY <2>3 DEF SpacingInv, ExecutionsAreSpaced
    <3> HIDE DEF g, h, n, d
    <3>2. CASE j <= n
      <4>1. i \in 1..n /\ j \in 1..n
        BY <2>3, <2>9, <3>2
      <4>2. g[j].timestamp = h[j].timestamp /\ g[i].timestamp = h[i].timestamp
        BY <2>3, <4>1
      <4> QED BY <2>9, <3>1, <4>1, <4>2
    <3>3. CASE j = n + 1
      <4>1. i \in 1..n /\ n \in 1..n /\ n - i \in Nat /\ n # 0
        BY <2>3, <2>9, <3>3
      <4>2. h[n].timestamp - h[i].timestamp >= (n - i) * d
        <5>1. CASE i = n
          <6>1. (n - i) * d = 0
            BY <2>3, <2>6, <5>1
          <6> QED BY <2>3, <4>1, <5>1, <6>1
        <5>2. CASE i < n
          BY <3>1, <4>1, <5>2
        <5> QED BY <2>3, <4>1, <5>1, <5>2
      <4>3. (j - i) * d = (n - i) * d + d /\ (n - i) * d \in Nat
        <5>1. j - i = (n - i) + 1
          BY <2>3, <3>3, <4>1
        <5> QED BY <2>6, <4>1, <5>1, OneMoreInterval
      <4>4. /\ g[j].timestamp = now
            /\ g[i].timestamp = h[i].timestamp
            /\ g[i].timestamp \in Nat
            /\ h[n].timestamp \in Nat
            /\ h[n].timestamp + d <= now
        BY <2>3, <2>7, <3>3, <4>1
      <4> DEFINE m == (n - i) * d
                 t == h[n].timestamp
                 s == g[i].timestamp
      <4>5. (j - i) * d = m + d /\ m \in Nat /\ t - s >= m /\ t \in Nat /\ s \in Nat
        BY <4>2, <4>3, <4>4
      <4>6. t + d <= now
        BY <4>4
      <4>7. now - s >= m + d
        <5> HIDE DEF m, t, s
        <5> QED BY <2>2, <2>6, <4>5, <4>6
      <4> QED BY <4>4, <4>5, <4>7
    <3> QED BY <2>3, <3>2, <3>3
  <2>10. ExecutionsAreSpaced!(id)'
    BY <2>4, <2>9
  <2> QED BY <2>8, <2>10
<1>6. CASE UNCHANGED orderVars
  BY <1>1, <1>6 DEF orderVars
<1> QED BY <1>2, <1>3, <1>4, <1>5, <1>6, OneOrderPerStep

\* Any two executions of an order are as many intervals apart as there are
\* executions between them, and one more.
THEOREM ExecutionsAreSpacedAlways == Spec => []ExecutionsAreSpaced
<1>1. Init => SpacingInv
  BY DEF Init, SpacingInv, LastIsLatest, ExecutionsAreSpaced, orderExists, NoOrder
<1>2. SpacingInv => ExecutionsAreSpaced
  BY DEF SpacingInv
<1> QED BY <1>1, <1>2, SpacingStep, IInvHolds, PTL DEF Spec

-----------------------------------------------------------------------------
(* Minimum fills.  While an order is executing no record of it is small,   *)
(* and the fill that makes one completes the order.                        *)

LEMMA SmallStep ==
    IInv /\ OnlyLastFillIsSmall /\ [Next]_vars => OnlyLastFillIsSmall'
<1> SUFFICES ASSUME IInv, OnlyLastFillIsSmall, [Next]_vars, NEW id \in OrderIds
             PROVE  OnlyLastFillIsSmall!(id)'
  BY DEF OnlyLastFillIsSmall
<1> DEFINE h == executionHistory[id]
           old == orders[id]
           new == orders'[id]
           Goal == OnlyLastFillIsSmall!(id)'
<1>1. ASSUME new.twapConfig = old.twapConfig, executionHistory'[id] = h,
             \/ new.status = old.status
             \/ new.status = "Claimed"
             \/ old.status = "Executing"
      PROVE  Goal
  BY <1>1 DEF OnlyLastFillIsSmall
<1>2. ASSUME NEW i \in OrderIds, i # id, Opened(i) \/ Filled(i) \/ Closed(i)
      PROVE  Goal
  <2>1. new = old /\ executionHistory'[id] = h
    BY <1>2, OrderTypes DEF Opened, Filled, Closed
  <2> QED BY <1>1, <2>1
<1>3. ASSUME Opened(id) PROVE Goal
  <2>1. executionHistory'[id] = <<>>
    BY <1>3 DEF Opened, IInv, StatusMatchesAmounts
  <2> QED BY <2>1
<1>4. ASSUME Closed(id) PROVE Goal
  <2>1. /\ new.twapConfig = old.twapConfig /\ executionHistory'[id] = h
        /\ old.status = "Executing" \/ new.status = "Claimed"
    BY <1>4, OrderTypes DEF Closed, Order
  <2> QED BY <1>1, <2>1
<1>5. ASSUME Filled(id) PROVE Goal
  <2>1. PICK amount \in Nat \ {0}, price \in Nat, slippage \in Nat :
          /\ amount <= Remaining(old)
          /\ meetsMinimumFill(old, amount)
          /\ orders' = [orders EXCEPT ![id] = fill(old, amount, price)]
          /\ executionHistory' = [executionHistory EXCEPT ![id] =
               Append(@, [timestamp |-> now, amount |-> amount,
                          price |-> price, slippage |-> slippage])]
    BY <1>5, Zenon DEF Filled
  <2> DEFINE r == [timestamp |-> now, amount |-> amount,
                   price |-> price, slippage |-> slippage]
             g == executionHistory'[id]
             n == Len(h)
             least == old.twapConfig.minFillSize
  <2>2. h \in Seq(ExecutionRecord) /\ r \in ExecutionRecord /\ g = Append(h, r)
          /\ r.amount = amount
    BY <2>1, OrderTypes DEF ExecutionRecord, IInv, TypeOK
  <2>3. /\ n \in Nat
        /\ DOMAIN h = 1..n
        /\ Len(g) = n + 1
        /\ DOMAIN g = 1..(n+1)
        /\ \A i \in 1..n : g[i] = h[i] /\ h[i] \in ExecutionRecord
        /\ g[n+1] = r
    <3> HIDE DEF g, h, r
    <3> QED BY <2>2, OneMoreRecord
  <2>4. new.twapConfig = old.twapConfig
    BY <2>1, FillFields, OrderTypes
  <2>5. least \in Nat
    BY OrderTypes DEF Config
  <2>6. \A i \in 1..n : ~(g[i].amount < least)
    <3>1. old.status = "Executing"
      BY <1>5 DEF Filled
    <3> QED BY <2>3, <3>1 DEF OnlyLastFillIsSmall
  <2>7. ASSUME amount < least PROVE new.status = "Completed"
    <3>1. amount = old.sourceAmount - old.executedAmount
      BY <2>1, <2>5, <2>7 DEF meetsMinimumFill, Remaining
    <3>2. old.executedAmount + amount >= old.sourceAmount
      BY <3>1, OrderTypes
    <3> QED BY <2>1, <3>2, FillFields, OrderTypes
  <2>8. ASSUME NEW i \in DOMAIN g, g[i].amount < least
        PROVE  i = Len(g) /\ new.status = "Completed"
    <3> HIDE DEF g, h, n, r, new, least
    <3>1. i = n + 1
      BY <2>3, <2>6, <2>8
    <3> QED BY <2>2, <2>3, <2>7, <2>8, <3>1
  <2> QED BY <2>4, <2>8
<1>6. CASE UNCHANGED orderVars
  BY <1>1, <1>6 DEF orderVars
<1> QED BY <1>2, <1>3, <1>4, <1>5, <1>6, OneOrderPerStep

\* Only the execution that completes an order is below its minimum fill.
THEOREM OnlyLastFillIsSmallAlways == Spec => []OnlyLastFillIsSmall
<1>1. Init => OnlyLastFillIsSmall
  BY DEF Init, OnlyLastFillIsSmall
<1> QED BY <1>1, SmallStep, IInvHolds, PTL DEF Spec

-----------------------------------------------------------------------------
(* Escrow.  Opening an order opens its deposit, a fill spends, a           *)
(* cancellation returns, and a claim is invisible.                         *)

\* The mapped variables at one order.
LEMMA MappedOrder ==
    ASSUME NEW id \in OrderIds
    PROVE  LET order == orders[id]
               left(status) == IF order.status = status THEN Remaining(order) ELSE 0
           IN  /\ credited[id] = order.sourceAmount
               /\ filled[id] = order.executedAmount
               /\ unspent[id] = left("Executing")
               /\ refunded[id] = left("Cancelled")
BY DEF credited, filled, unspent, refunded

\* The same after a step.
LEMMA MappedOrderNext ==
    ASSUME NEW id \in OrderIds
    PROVE  LET order == orders'[id]
               left(status) == IF order.status = status THEN Remaining(order) ELSE 0
           IN  /\ credited'[id] = order.sourceAmount
               /\ filled'[id] = order.executedAmount
               /\ unspent'[id] = left("Executing")
               /\ refunded'[id] = left("Cancelled")
BY DEF credited, filled, unspent, refunded, Remaining

LEMMA MappedTypes == IInv => Vault!TypeOK
<1> SUFFICES ASSUME IInv PROVE Vault!TypeOK
  OBVIOUS
<1>1. ASSUME NEW id \in OrderIds, orders[id].status \in {"Executing", "Cancelled"}
      PROVE  Remaining(orders[id]) \in Nat
  BY <1>1, OrderTypes DEF IInv, StatusMatchesAmounts, Remaining, NoOrder
<1>2. \A id \in OrderIds :
        orders[id].sourceAmount \in Nat /\ orders[id].executedAmount \in Nat
  BY OrderTypes
<1> QED BY <1>1, <1>2 DEF Vault!TypeOK, credited, filled, unspent, refunded

LEMMA OneValueChanges ==
    ASSUME NEW S, NEW f \in [S -> Nat], NEW g \in [S -> Nat], NEW id \in S,
           \A i \in S : i # id => g[i] = f[i]
    PROVE  g = [f EXCEPT ![id] = g[id]]
OBVIOUS

\* A step that changes one order changes the mapped variables there only.
LEMMA MappedStep ==
    ASSUME IInv, IInv', NEW id \in OrderIds,
           \A i \in OrderIds : i # id => orders'[i] = orders[i]
    PROVE  LET new == orders'[id]
               left(status) == IF new.status = status THEN Remaining(new) ELSE 0
           IN  /\ credited' = [credited EXCEPT ![id] = new.sourceAmount]
               /\ filled' = [filled EXCEPT ![id] = new.executedAmount]
               /\ unspent' =
                    [unspent EXCEPT ![id] = left("Executing")]
               /\ refunded' =
                    [refunded EXCEPT ![id] = left("Cancelled")]
<1>1. Vault!TypeOK /\ Vault!TypeOK'
  BY MappedTypes, PTL
<1>2. \A i \in OrderIds : i # id =>
        /\ credited'[i] = credited[i] /\ filled'[i] = filled[i]
        /\ unspent'[i] = unspent[i]
        /\ refunded'[i] = refunded[i]
  BY MappedOrder, MappedOrderNext DEF Remaining
<1>3. /\ credited' = [credited EXCEPT ![id] = credited'[id]]
      /\ filled' = [filled EXCEPT ![id] = filled'[id]]
      /\ unspent' =
           [unspent EXCEPT ![id] = unspent'[id]]
      /\ refunded' =
           [refunded EXCEPT ![id] = refunded'[id]]
  BY <1>1, <1>2, OneValueChanges DEF Vault!TypeOK
<1> QED BY <1>3, MappedOrderNext

LEMMA EscrowInit == Init => Vault!Init
BY DEF Init, Vault!Init, NoOrder, Remaining, credited, filled, unspent, refunded

LEMMA EscrowStep == IInv /\ [Next]_vars => [Vault!Next]_Vault!vars
<1> SUFFICES ASSUME IInv, [Next]_vars
             PROVE  Vault!Next \/ UNCHANGED Vault!vars
  OBVIOUS
<1>0. IInv'
  BY StepPreservesIInv
<1>a. Vault!TypeOK
  BY MappedTypes
<1>1. ASSUME NEW id \in OrderIds, Opened(id)
      PROVE  Vault!Open(id)
  <2>1. orders[id] = NoOrder
    BY <1>1 DEF Opened, IInv, StatusMatchesAmounts
  <2> DEFINE new == orders'[id]
             amount == new.sourceAmount
  <2>2. /\ new \in Order /\ new.status = "Executing"
        /\ amount > 0 /\ new.executedAmount = 0
        /\ \A i \in OrderIds : i # id => orders'[i] = orders[i]
    BY <1>1, OrderTypes DEF Opened
  <2>3. amount \in Nat \ {0} /\ Remaining(new) = amount
    BY <2>2 DEF Order, Remaining
  <2>4. credited[id] = 0 /\ filled[id] = 0 /\ unspent[id] = 0 /\ refunded[id] = 0
    BY <2>1, MappedOrder DEF NoOrder, Remaining
  <2>5. /\ credited' = [credited EXCEPT ![id] = amount] /\ credited'[id] = amount
        /\ filled' = [filled EXCEPT ![id] = 0]
        /\ unspent' = [unspent EXCEPT ![id] = amount]
        /\ refunded' = [refunded EXCEPT ![id] = 0]
    BY <1>0, <2>2, <2>3, MappedStep, MappedOrderNext
  <2>6. UNCHANGED <<filled, refunded>>
    BY <2>4, <2>5, <1>a DEF Vault!TypeOK
  <2> HIDE DEF amount
  <2>7. /\ credited' = [credited EXCEPT ![id] = credited'[id]]
        /\ unspent' = [unspent EXCEPT ![id] = credited'[id]]
    BY <2>5, Zenon
  <2>8. credited'[id] > 0
    BY <2>3, <2>5
  <2> QED BY <2>4, <2>6, <2>7, <2>8, Zenon DEF Vault!Open
<1>2. ASSUME NEW id \in OrderIds, Filled(id)
      PROVE  Vault!Spend(id)
  <2> DEFINE old == orders[id]
  <2>1. PICK amount \in Nat \ {0}, price \in Nat, slippage \in Nat :
          /\ amount <= Remaining(old)
          /\ orders' = [orders EXCEPT ![id] = fill(old, amount, price)]
    BY <1>2, Zenon DEF Filled
  <2> DEFINE new == orders'[id]
             rest == Remaining(old) - amount
  <2>2. /\ old.sourceAmount \in Nat /\ old.executedAmount \in Nat
        /\ old.status = "Executing"
        /\ new.sourceAmount = old.sourceAmount
        /\ new.executedAmount = old.executedAmount + amount
        /\ new.status = IF old.executedAmount + amount >= old.sourceAmount
                        THEN "Completed" ELSE old.status
        /\ \A i \in OrderIds : i # id => orders'[i] = orders[i]
    <3>1. old \in Order /\ orders \in [OrderIds -> Order]
      BY OrderTypes
    <3>2. /\ new = fill(old, amount, price)
          /\ \A i \in OrderIds : i # id => orders'[i] = orders[i]
      <4> HIDE DEF old
      <4> QED BY <2>1, <3>1
    <3>3. old.sourceAmount \in Nat /\ old.executedAmount \in Nat
      <4> HIDE DEF old
      <4> QED BY <3>1 DEF Order
    <3>4. old.status = "Executing"
      BY <1>2 DEF Filled
    <3>5. /\ new.sourceAmount = old.sourceAmount
          /\ new.executedAmount = old.executedAmount + amount
          /\ new.status = IF old.executedAmount + amount >= old.sourceAmount
                          THEN "Completed" ELSE old.status
      <4>1. /\ fill(old, amount, price).sourceAmount = old.sourceAmount
            /\ fill(old, amount, price).executedAmount = old.executedAmount + amount
            /\ fill(old, amount, price).status =
                   IF old.executedAmount + amount >= old.sourceAmount
                   THEN "Completed" ELSE old.status
        BY FillFields
      <4> HIDE DEF old, new
      <4> QED BY <4>1, <3>2, Zenon
    <3> QED BY <3>2, <3>3, <3>4, <3>5, Zenon
  <2>3. Remaining(new) = rest /\ rest \in Nat /\ (new.status # "Executing" => rest = 0)
          /\ new.status # "Cancelled"
    <3> HIDE DEF new, old
    <3> QED BY <2>1, <2>2 DEF Remaining
  <2>4. /\ credited[id] = old.sourceAmount
        /\ filled[id] = old.executedAmount
        /\ unspent[id] = Remaining(old)
        /\ refunded[id] = 0
    BY <2>2, MappedOrder
  <2>5. /\ credited' = [credited EXCEPT ![id] = old.sourceAmount]
        /\ filled' = [filled EXCEPT ![id] = old.executedAmount + amount]
        /\ unspent' = [unspent EXCEPT ![id] = rest]
        /\ refunded' = [refunded EXCEPT ![id] = 0]
    <3> HIDE DEF rest, old
    <3> QED BY <1>0, <2>2, <2>3, MappedStep
  <2>6. UNCHANGED <<credited, refunded>>
    BY <2>4, <2>5, <1>a DEF Vault!TypeOK
  <2>7. unspent'[id] = rest /\ unspent[id] - rest = amount
    BY <2>1, <2>2, <2>4, <2>5, <1>a DEF Vault!TypeOK, Remaining
  <2> DEFINE taken == unspent[id] - unspent'[id]
  <2>8. /\ unspent[id] - amount = rest /\ unspent'[id] >= 0
        /\ taken = amount /\ filled[id] + amount = old.executedAmount + amount
    BY <2>1, <2>3, <2>4, <2>7, <1>a DEF Vault!TypeOK
  <2>9. /\ unspent' = [unspent EXCEPT ![id] = unspent[id] - amount]
        /\ filled' = [filled EXCEPT ![id] = filled[id] + amount]
    BY <2>5, <2>8, Zenon
  <2>10. /\ unspent' = [unspent EXCEPT ![id] = @ - taken]
         /\ filled' = [filled EXCEPT ![id] = @ + taken]
    <3> HIDE DEF taken
    <3> QED BY <2>8, <2>9, Zenon
  <2>11. taken > 0
    BY <2>1, <2>8
  <2> QED BY <2>6, <2>8, <2>10, <2>11, Zenon DEF Vault!Spend
<1>3. ASSUME NEW id \in OrderIds, Closed(id)
      PROVE  Vault!Return(id) \/ UNCHANGED Vault!vars
  <2> DEFINE old == orders[id]
  <2>1. PICK status \in {"Cancelled", "Claimed"} :
          /\ old.status = IF status = "Cancelled" THEN "Executing" ELSE "Completed"
          /\ orders' = [orders EXCEPT ![id] = [old EXCEPT !.status = status]]
    BY <1>3, Zenon DEF Closed
  <2> DEFINE new == orders'[id]
  <2>2. /\ new.status = status /\ new.sourceAmount = old.sourceAmount
        /\ new.executedAmount = old.executedAmount
        /\ \A i \in OrderIds : i # id => orders'[i] = orders[i]
    BY <2>1, OrderTypes DEF Order
  <2>3. Remaining(new) = Remaining(old)
    BY <2>2 DEF Remaining
  <2>4. /\ credited[id] = old.sourceAmount
        /\ filled[id] = old.executedAmount
        /\ unspent[id] = IF old.status = "Executing" THEN Remaining(old) ELSE 0
        /\ refunded[id] = 0
    BY <2>1, MappedOrder
  <2>5. /\ credited' = [credited EXCEPT ![id] = old.sourceAmount]
        /\ filled' = [filled EXCEPT ![id] = old.executedAmount]
        /\ unspent' = [unspent EXCEPT ![id] = 0]
        /\ refunded' = [refunded EXCEPT ![id] =
               IF status = "Cancelled" THEN Remaining(old) ELSE 0]
    <3>1. /\ new.status # "Executing"
          /\ new.status = "Cancelled" <=> status = "Cancelled"
      BY <2>1, <2>2
    <3> HIDE DEF old, new
    <3>2. /\ credited' = [credited EXCEPT ![id] = new.sourceAmount]
          /\ filled' = [filled EXCEPT ![id] = new.executedAmount]
          /\ unspent' = [unspent EXCEPT ![id] =
                 IF new.status = "Executing" THEN Remaining(new) ELSE 0]
          /\ refunded' = [refunded EXCEPT ![id] =
                 IF new.status = "Cancelled" THEN Remaining(new) ELSE 0]
      BY <1>0, <2>2, MappedStep DEF new
    <3> QED BY <2>2, <2>3, <3>1, <3>2, Zenon
  <2>6. UNCHANGED <<credited, filled>>
    BY <2>4, <2>5, <1>a DEF Vault!TypeOK
  <2>7. CASE status = "Cancelled"
    <3>1. unspent[id] = Remaining(old) /\ old.status = "Executing"
      BY <2>1, <2>4, <2>7
    <3>2. Remaining(old) \in Nat /\ Remaining(old) > 0
      BY <1>3, <3>1, OrderTypes DEF Closed, IInv, StatusMatchesAmounts, Remaining
    <3> HIDE DEF old
    <3>3. refunded[id] + unspent[id] = Remaining(old) /\ unspent[id] > 0
      BY <2>4, <3>1, <3>2
    <3>4. refunded' = [refunded EXCEPT ![id] = @ + unspent[id]]
      BY <2>5, <2>7, <3>3, Zenon
    <3> QED BY <2>5, <2>6, <3>3, <3>4, Zenon DEF Vault!Return
  <2>8. CASE status = "Claimed"
    <3>1. UNCHANGED <<unspent, refunded>>
      BY <2>1, <2>4, <2>5, <2>8, <1>a DEF Vault!TypeOK
    <3> QED BY <2>6, <3>1 DEF Vault!vars
  <2> QED BY <2>7, <2>8
<1>4. CASE UNCHANGED orderVars
  BY <1>4 DEF orderVars, Vault!vars, credited, filled, unspent, refunded, Remaining
<1> QED BY <1>1, <1>2, <1>3, <1>4, OneOrderPerStep DEF Vault!Next

\* Every behaviour of the bridge is one of the escrow: whatever the executors,
\* the users and the owner do, each unit of a net deposit is at any time held,
\* spent or returned, and returned once.
THEOREM BridgeImplementsEscrow == Spec => EscrowSpec
<1> QED BY EscrowInit, EscrowStep, IInvHolds, PTL DEF Spec, EscrowSpec, Vault!Spec

-----------------------------------------------------------------------------
(* Accounts.  The amounts of the records add up to what the order says is  *)
(* executed: a fill adds one of each.                                      *)

AccountsInv ==
    \A id \in OrderIds :
        LET history == executionHistory[id] IN
        /\ orders[id].executedAmount
               = SumFunctionOnSet([i \in DOMAIN history |-> history[i].amount], DOMAIN history)
        /\ history = <<>> => orders[id].lastExecution = 0

\* A history's amounts after one more record.
LEMMA OneMoreAmount ==
    ASSUME NEW h \in Seq(ExecutionRecord), NEW r \in ExecutionRecord
    PROVE  LET g == Append(h, r) IN
           SumFunctionOnSet([i \in DOMAIN g |-> g[i].amount], DOMAIN g)
             = SumFunctionOnSet([i \in DOMAIN h |-> h[i].amount], DOMAIN h) + r.amount
<1> DEFINE g == Append(h, r)
           n == Len(h)
           before == [i \in DOMAIN h |-> h[i].amount]
           after == [i \in DOMAIN g |-> g[i].amount]
<1>1. /\ n \in Nat /\ DOMAIN h = 1..n /\ DOMAIN g = 1..(n + 1)
      /\ \A i \in 1..n : h[i] \in ExecutionRecord
      /\ \A i \in 1..n : g[i] = h[i]
      /\ g[n + 1] = r
  BY OneMoreRecord
<1> HIDE DEF g, n
<1>2. \A i \in 1..(n + 1) : after[i] \in Int
  <2> SUFFICES ASSUME NEW i \in 1..(n + 1) PROVE g[i].amount \in Int
    BY <1>1
  <2>1. g[i] \in ExecutionRecord
    <3>1. i \in 1..n \/ i = n + 1
      BY <1>1
    <3> QED BY <1>1, <3>1
  <2> QED BY <2>1 DEF ExecutionRecord
<1>3. \A i \in 1..n : after[i] = before[i]
  BY <1>1
<1>4. after[n + 1] = r.amount
  BY <1>1
<1> HIDE DEF before, after
<1>5. SumFunctionOnSet(after, 1..(n + 1)) = SumFunctionOnSet(before, 1..n) + after[n + 1]
  BY <1>1, <1>2, <1>3, SumOfAppended
<1> QED BY <1>1, <1>4, <1>5 DEF before, after, g, n

LEMMA AccountsStep == IInv /\ AccountsInv /\ [Next]_vars => AccountsInv'
<1> SUFFICES ASSUME IInv, AccountsInv, [Next]_vars, NEW id \in OrderIds
             PROVE  AccountsInv!(id)'
  BY DEF AccountsInv
<1> DEFINE h == executionHistory[id]
           old == orders[id]
           new == orders'[id]
<1>1. ASSUME new.executedAmount = old.executedAmount,
             new.lastExecution = old.lastExecution, executionHistory'[id] = h
      PROVE  AccountsInv!(id)'
  BY <1>1 DEF AccountsInv
<1>2. ASSUME NEW i \in OrderIds, i # id, Opened(i) \/ Filled(i) \/ Closed(i)
      PROVE  AccountsInv!(id)'
  <2>1. new = old /\ executionHistory'[id] = h
    BY <1>2, OrderTypes DEF Opened, Filled, Closed
  <2> QED BY <1>1, <2>1
<1>3. ASSUME Opened(id) PROVE AccountsInv!(id)'
  <2>1. old = NoOrder
    BY <1>3 DEF Opened, IInv, StatusMatchesAmounts
  <2>2. /\ new.executedAmount = 0 /\ new.lastExecution = 0 /\ executionHistory'[id] = h
        /\ old.executedAmount = 0 /\ old.lastExecution = 0
    BY <1>3, <2>1, OrderTypes DEF Opened, NoOrder
  <2> QED BY <1>1, <2>2
<1>4. ASSUME Closed(id) PROVE AccountsInv!(id)'
  <2>1. /\ new.executedAmount = old.executedAmount
        /\ new.lastExecution = old.lastExecution /\ executionHistory'[id] = h
    BY <1>4, OrderTypes DEF Closed, Order
  <2> QED BY <1>1, <2>1
<1>5. ASSUME Filled(id) PROVE AccountsInv!(id)'
  <2>1. PICK amount \in Nat \ {0}, price \in Nat, slippage \in Nat :
          /\ orders' = [orders EXCEPT ![id] = fill(old, amount, price)]
          /\ executionHistory' = [executionHistory EXCEPT ![id] =
               Append(@, [timestamp |-> now, amount |-> amount,
                          price |-> price, slippage |-> slippage])]
    BY <1>5, Zenon DEF Filled
  <2> DEFINE r == [timestamp |-> now, amount |-> amount,
                   price |-> price, slippage |-> slippage]
             g == executionHistory'[id]
  <2>2. h \in Seq(ExecutionRecord) /\ r \in ExecutionRecord /\ g = Append(h, r)
          /\ r.amount = amount
    BY <2>1, OrderTypes DEF ExecutionRecord, IInv, TypeOK
  <2>3. new.executedAmount = old.executedAmount + amount
    BY <2>1, FillFields, OrderTypes
  <2> HIDE DEF g, h, r
  <2>4. SumFunctionOnSet([i \in DOMAIN g |-> g[i].amount], DOMAIN g)
           = SumFunctionOnSet([i \in DOMAIN h |-> h[i].amount], DOMAIN h) + amount
    BY <2>2, OneMoreAmount
  <2>5. old.executedAmount = SumFunctionOnSet([i \in DOMAIN h |-> h[i].amount], DOMAIN h)
    BY DEF AccountsInv, h
  <2>6. g # <<>>
    BY <2>2, OneMoreRecord
  <2> QED BY <2>3, <2>4, <2>5, <2>6 DEF g
<1>6. CASE UNCHANGED orderVars
  BY <1>1, <1>6 DEF orderVars
<1> QED BY <1>2, <1>3, <1>4, <1>5, <1>6, OneOrderPerStep

LEMMA NothingToAccount == Init => AccountsInv
<1> SUFFICES ASSUME Init, NEW id \in OrderIds PROVE AccountsInv!(id)
  BY DEF AccountsInv
<1>1. executionHistory[id] = <<>> /\ orders[id] = NoOrder
  BY DEF Init
<1>2. DOMAIN executionHistory[id] = {}
  BY <1>1
<1>3. SumFunctionOnSet([i \in DOMAIN executionHistory[id] |-> executionHistory[id][i].amount],
                       DOMAIN executionHistory[id]) = 0
  BY <1>2, SumOfNothing
<1> QED BY <1>1, <1>3 DEF NoOrder

\* The records of an order add up to its executedAmount and the last of them
\* was made at its lastExecution (FlowFusionBridge.sol executeTWAPInterval).
THEOREM HistoryAccountsAlways == Spec => []HistoryAccounts
<1>1. AccountsInv /\ LastIsLatest => HistoryAccounts
  <2> SUFFICES ASSUME AccountsInv, LastIsLatest, NEW id \in OrderIds
               PROVE  HistoryAccounts!(id)
    BY DEF HistoryAccounts
  <2> DEFINE h == executionHistory[id]
             amounts == [i \in DOMAIN h |-> h[i].amount]
  <2>1. SumFunction(amounts) = SumFunctionOnSet(amounts, DOMAIN h)
    BY DEF SumFunction
  <2> QED BY <2>1 DEF AccountsInv, LastIsLatest
<1>2. Init => SpacingInv
  BY DEF Init, SpacingInv, LastIsLatest, ExecutionsAreSpaced, orderExists, NoOrder
<1>3. SpacingInv => LastIsLatest
  BY DEF SpacingInv
<1> QED BY <1>1, <1>2, <1>3, NothingToAccount, AccountsStep, SpacingStep, IInvHolds, PTL DEF Spec

-----------------------------------------------------------------------------
(* Slippage.  The average that an execution is compared with is a mean of  *)
(* the prices in its window, so it has a price of the window below and one *)
(* above it; no record weighs nothing, because they are an interval apart. *)

PricesArePositive ==
    \A id \in OrderIds : \A i \in DOMAIN executionHistory[id] :
        executionHistory[id][i].price # 0

SlippageInv == SlippageIsContained /\ PricesArePositive

\* the positions that calculateTWAP looks at
InWindow(id) ==
    {i \in DOMAIN executionHistory[id] :
        executionHistory[id][i].timestamp >= now - orders[id].twapConfig.windowMinutes * 60}

LEMMA IntervalIsPositive ==
    ASSUME NEW config \in Config, validTWAPConfig(config)
    PROVE  getIntervalDuration(config) \in Nat \ {0}
<1>1. config.windowMinutes \in 5..1440 /\ config.executionIntervals \in 2..20
  BY DEF validTWAPConfig, MAX_EXECUTION_INTERVALS, MIN_WINDOW_MINUTES, MAX_WINDOW_MINUTES
<1> DEFINE w == config.windowMinutes
           k == config.executionIntervals
           d == (w * 60) \div k
<1>2. d \in Nat \ {0}
  <2> HIDE DEF w, k
  <2>1. w \in 5..1440 /\ k \in 2..20
    BY <1>1 DEF w, k
  <2>2. d \in Nat /\ w * 60 < k * d + k
    BY <2>1
  <2> HIDE DEF d
  <2>3. d = 0 => w * 60 < k
    BY <2>1, <2>2
  <2> QED BY <2>1, <2>2, <2>3
<1> QED BY <1>2 DEF getIntervalDuration

LEMMA RecordTypes ==
    ASSUME NEW h \in Seq(ExecutionRecord), NEW i \in DOMAIN h
    PROVE  h[i].timestamp \in Nat /\ h[i].price \in Nat
<1>1. h[i] \in ExecutionRecord
  OBVIOUS
<1> QED BY <1>1 DEF ExecutionRecord

LEMMA WeightIsPositive ==
    ASSUME IInv, SpacingInv, NEW id \in OrderIds, NEW i \in DOMAIN executionHistory[id]
    PROVE  recordWeight(executionHistory[id], i) \in Nat \ {0}
<1> DEFINE h == executionHistory[id]
           d == getIntervalDuration(orders[id].twapConfig)
<1>1. /\ h \in Seq(ExecutionRecord) /\ orders[id].twapConfig \in Config
      /\ i \in 1..Len(h) /\ DOMAIN h = 1..Len(h)
  BY OrderTypes
<1>2. CASE i = 1
  BY <1>2 DEF recordWeight
<1>3. CASE i # 1
  <2>1. i - 1 \in DOMAIN h /\ i \in DOMAIN h /\ i - 1 < i /\ i \in Int
    BY <1>1, <1>3
  <2>2. h[i].timestamp \in Nat /\ h[i - 1].timestamp \in Nat
    BY <1>1, <2>1, RecordTypes
  <2>3. h[i].timestamp - h[i - 1].timestamp >= (i - (i - 1)) * d
    BY <2>1 DEF SpacingInv, ExecutionsAreSpaced
  <2>4. orderExists(id) /\ validTWAPConfig(orders[id].twapConfig)
    <3>1. h # <<>>
      BY <1>1
    <3> QED BY <3>1 DEF SpacingInv, LastIsLatest
  <2>5. d \in Nat \ {0}
    BY <1>1, <2>4, IntervalIsPositive
  <2>6. (i - (i - 1)) * d = d
    <3> HIDE DEF d
    <3>1. i - (i - 1) = 1
      BY <2>1
    <3> QED BY <2>5, <3>1
  <2> DEFINE s == h[i].timestamp
             t == h[i - 1].timestamp
  <2>7. s - t \in Nat \ {0}
    <3> HIDE DEF s, t, d
    <3>1. s \in Nat /\ t \in Nat /\ s - t >= d
      BY <2>2, <2>3, <2>6 DEF s, t
    <3> QED BY <2>5, <3>1
  <2>8. recordWeight(h, i) = s - t
    BY <1>3 DEF recordWeight
  <2> QED BY <2>7, <2>8
<1> QED BY <1>2, <1>3

LEMMA TWAPIsWithin ==
    ASSUME IInv, SpacingInv, PricesArePositive, NEW id \in OrderIds, InWindow(id) # {}
    PROVE  LET twap == calculateTWAP(id) IN
           /\ twap \in Nat \ {0}
           /\ \E i \in InWindow(id) : executionHistory[id][i].price <= twap
           /\ \E i \in InWindow(id) : twap <= executionHistory[id][i].price
<1> DEFINE h == executionHistory[id]
           W == InWindow(id)
           weight == [i \in DOMAIN h |-> recordWeight(h, i)]
           value == [i \in DOMAIN h |-> h[i].price * recordWeight(h, i)]
           price == [i \in DOMAIN h |-> h[i].price]
           twap == SumFunctionOnSet(value, W) \div SumFunctionOnSet(weight, W)
<1>1. h \in Seq(ExecutionRecord) /\ DOMAIN h = 1..Len(h) /\ Len(h) \in Nat
  BY OrderTypes
<1>2. IsFiniteSet(W) /\ W \subseteq DOMAIN h
  <2>1. IsFiniteSet(DOMAIN h)
    BY <1>1, FS_Interval
  <2>2. W \subseteq DOMAIN h
    BY DEF InWindow
  <2> HIDE DEF W
  <2> QED BY <2>1, <2>2, FS_Subset
<1>3. \A i \in W : /\ weight[i] \in Nat \ {0}
                   /\ price[i] \in Nat \ {0}
                   /\ value[i] = price[i] * weight[i]
  <2> SUFFICES ASSUME NEW i \in W
               PROVE  recordWeight(h, i) \in Nat \ {0} /\ h[i].price \in Nat \ {0}
    BY <1>2
  <2>1. i \in DOMAIN h
    BY <1>2
  <2>2. h[i].price # 0
    BY <2>1 DEF PricesArePositive
  <2>3. h[i].price \in Nat
    BY <1>1, <2>1, RecordTypes
  <2> QED BY <2>1, <2>2, <2>3, WeightIsPositive
<1>4. \A i \in W : price[i] = h[i].price
  BY <1>2
<1> HIDE DEF weight, value, price, W
<1>5. /\ SumFunctionOnSet(weight, W) \in Nat \ {0}
      /\ twap \in Nat
      /\ \E i \in W : price[i] <= twap
      /\ \E i \in W : twap <= price[i]
  BY <1>2, <1>3, MeanIsWithin DEF W
<1>6. calculateTWAP(id) = twap
  <2>1. SumFunctionOnSet(weight, W) > 0
    BY <1>5
  <2> QED BY <2>1 DEF calculateTWAP, weight, value, W, InWindow
<1>7. twap # 0
  <2> HIDE DEF twap
  <2> QED BY <1>3, <1>5
<1> HIDE DEF twap
<1> QED BY <1>4, <1>5, <1>6, <1>7 DEF W

\* A price whose slippage against an average is accepted, and prices below and
\* above that average.
LEMMA SlippageBand ==
    ASSUME NEW twap \in Nat \ {0}, NEW price \in Nat, NEW m \in 0..MAX_SLIPPAGE,
           calculateSlippage(twap, price) <= m,
           NEW low \in Nat, low <= twap, NEW high \in Nat, twap <= high
    PROVE  /\ price <= high + ((high * (m + 1)) \div BASIS_POINTS + 1)
           /\ price >= low - ((low * (m + 1)) \div BASIS_POINTS + 1)
<1> DEFINE diff == IF twap > price THEN twap - price ELSE price - twap
           s == (diff * 10000) \div twap
           up == (high * (m + 1)) \div 10000
           down == (low * (m + 1)) \div 10000
<1>1. diff \in Nat /\ price <= twap + diff /\ price >= twap - diff
  OBVIOUS
<1>2. s <= m
  BY DEF calculateSlippage, BASIS_POINTS
<1> HIDE DEF diff
<1>3. s \in Nat /\ diff * 10000 < twap * s + twap
  <2> DEFINE n == diff * 10000
  <2>1. n \in Nat
    BY <1>1
  <2> HIDE DEF n
  <2>2. n \div twap \in Nat /\ n < twap * (n \div twap) + twap
    BY <2>1
  <2> QED BY <2>2 DEF n
<1> HIDE DEF s
<1>4. m \in Nat /\ m + 1 <= 1001
  BY DEF MAX_SLIPPAGE
<1>5. diff * 10000 < twap * (m + 1)
  <2>1. twap * s <= twap * m
    BY <1>2, <1>3, <1>4
  <2>2. twap * (m + 1) = twap * m + twap /\ twap * m \in Nat /\ twap * s \in Nat
    BY <1>3, <1>4
  <2> QED BY <1>1, <1>3, <2>1, <2>2
<1>6. \A n \in Nat : n \div 10000 \in Nat /\ 10000 * (n \div 10000) <= n
                        /\ n < 10000 * (n \div 10000) + 10000
  OBVIOUS
<1>7. high * (m + 1) \in Nat /\ low * (m + 1) \in Nat /\ twap * (m + 1) \in Nat
  BY <1>4
<1>8. /\ up \in Nat /\ high * (m + 1) < 10000 * up + 10000
      /\ down \in Nat /\ low * (m + 1) < 10000 * down + 10000
  BY <1>6, <1>7
<1> HIDE DEF up, down
<1>9. price <= high + (up + 1)
  <2>1. twap * (m + 1) <= high * (m + 1)
    BY <1>4
  <2>2. diff * 10000 < 10000 * up + 10000
    BY <1>1, <1>5, <1>7, <1>8, <2>1
  <2> QED BY <1>1, <1>8, <2>2
<1>10. price >= low - (down + 1)
  <2> DEFINE c == 10000 - (m + 1)
  <2>1. c \in Nat
    BY <1>4
  <2>2. low * c <= twap * c
    BY <2>1
  <2>3. low * c = 10000 * low - low * (m + 1) /\ twap * c = 10000 * twap - twap * (m + 1)
    BY <1>4
  <2> HIDE DEF c
  <2>4. 10000 * low - low * (m + 1) <= 10000 * twap - twap * (m + 1)
    BY <2>2, <2>3
  <2>5. 10000 * twap - twap * (m + 1) < 10000 * twap - 10000 * diff
    BY <1>1, <1>5, <1>7
  <2>6. 10000 * low - (10000 * down + 10000) < 10000 * low - low * (m + 1)
    BY <1>7, <1>8
  <2>7. 10000 * low - (10000 * down + 10000) < 10000 * twap - 10000 * diff
    BY <1>1, <1>7, <1>8, <2>4, <2>5, <2>6
  <2> QED BY <1>1, <1>8, <2>7
<1> QED BY <1>9, <1>10 DEF up, down, BASIS_POINTS

\* The band of SlippageIsContained for one history and configuration.
Earlier(history, config, k) ==
    {i \in 1..(k - 1) : history[i].timestamp >= history[k].timestamp - config.windowMinutes * 60}
WithinBand(history, config, k) ==
    Earlier(history, config, k) # {} =>
        /\ \E i \in Earlier(history, config, k) :
              history[k].price <= history[i].price
                  + ((history[i].price * (config.maxSlippage + 1)) \div BASIS_POINTS + 1)
        /\ \E i \in Earlier(history, config, k) :
              history[k].price >= history[i].price
                  - ((history[i].price * (config.maxSlippage + 1)) \div BASIS_POINTS + 1)

LEMMA BandsOfHistory ==
    SlippageIsContained <=>
        \A id \in OrderIds : \A k \in DOMAIN executionHistory[id] :
            WithinBand(executionHistory[id], orders[id].twapConfig, k)
BY DEF SlippageIsContained, WithinBand, Earlier

LEMMA BandsOfHistoryNext ==
    SlippageIsContained' <=>
        \A id \in OrderIds : \A k \in DOMAIN executionHistory'[id] :
            WithinBand(executionHistory'[id], orders'[id].twapConfig, k)
BY DEF SlippageIsContained, WithinBand, Earlier

\* Whatever is no execution adds no record and changes no configuration of an
\* order that has records.
LEMMA OnlyExecutionsRecord ==
    ASSUME IInv, [Next]_vars, ~ExecuteInterval, NEW id \in OrderIds
    PROVE  /\ executionHistory'[id] = executionHistory[id]
           /\ executionHistory[id] # <<>> => orders'[id].twapConfig = orders[id].twapConfig
<1>1. executionHistory' = executionHistory
  BY DEF Next, vars, CreateOrder, createTWAPOrder, cancelOrder, claimHTLC, Administer,
         emergencyWithdraw, receiveTokens, NewBlock, orderVars
<1>2. ASSUME executionHistory[id] # <<>>
      PROVE  orders'[id].twapConfig = orders[id].twapConfig
  <2>1. orderExists(id)
    BY <1>2 DEF IInv, StatusMatchesAmounts
  <2>2. ASSUME NEW i \in OrderIds, Opened(i) \/ Filled(i) \/ Closed(i)
        PROVE  orders'[id].twapConfig = orders[id].twapConfig
    <3>1. CASE i # id
      BY <2>2, <3>1, OrderTypes DEF Opened, Filled, Closed
    <3>2. CASE i = id /\ Closed(i)
      BY <3>2, OrderTypes DEF Closed, Order
    <3>3. CASE i = id /\ Filled(i)
      <4>1. PICK amount \in Nat \ {0}, price \in Nat :
                orders' = [orders EXCEPT ![id] = fill(orders[id], amount, price)]
        BY <3>3 DEF Filled
      <4> QED BY <4>1, FillFields, OrderTypes
    <3>4. ~ (i = id /\ Opened(i))
      BY <2>1 DEF Opened
    <3> QED BY <2>2, <3>1, <3>2, <3>3, <3>4
  <2> QED BY <2>2, OneOrderPerStep DEF orderVars
<1> QED BY <1>1, <1>2

LEMMA SlippageOfExecution ==
    ASSUME IInv, SpacingInv, SlippageInv, ExecuteInterval
    PROVE  SlippageInv'
<1>1. PICK e \in Executors, id \in OrderIds, amount \in Amounts, price \in Prices :
         executeTWAPInterval(e, id, amount, price)
  BY DEF ExecuteInterval
<1> DEFINE h == executionHistory[id]
           config == orders[id].twapConfig
           twap == calculateTWAP(id)
           n == Len(h)
           g == executionHistory'[id]
<1>2. amount \in Nat \ {0} /\ price \in Nat \ {0} /\ orderExists(id)
  BY <1>1, InputAssumption DEF executeTWAPInterval
<1>3. PICK slippage \in 0..config.maxSlippage :
        /\ slippage = IF twap > 0 THEN calculateSlippage(twap, price) ELSE 0
        /\ executionHistory' = [executionHistory EXCEPT ![id] =
              Append(@, [timestamp |-> now, amount |-> amount,
                         price |-> price, slippage |-> slippage])]
  <2> HIDE DEF config
  <2> QED BY <1>1, Zenon DEF executeTWAPInterval, config
<1> DEFINE r == [timestamp |-> now, amount |-> amount,
                 price |-> price, slippage |-> slippage]
<1>4. orders' = [orders EXCEPT ![id] = fill(orders[id], amount, price)]
  BY <1>1 DEF executeTWAPInterval
<1>5. /\ executionHistory \in [OrderIds -> Seq(ExecutionRecord)]
      /\ h \in Seq(ExecutionRecord) /\ config \in Config /\ now \in Nat
      /\ config.maxSlippage \in Nat
  BY OrderTypes DEF IInv, TypeOK, Config
<1>6. g = Append(h, r) /\ r \in ExecutionRecord
  <2>1. slippage \in Nat
    BY <1>5
  <2> QED BY <1>2, <1>3, <1>5, <2>1 DEF ExecutionRecord
<1>7. orders'[id].twapConfig = config
  BY <1>2, <1>4, FillFields, OrderTypes
<1>8. config.maxSlippage \in 0..MAX_SLIPPAGE
  <2>1. validTWAPConfig(config)
    BY <1>2 DEF SpacingInv, LastIsLatest
  <2> HIDE DEF config
  <2>2. config.maxSlippage <= MAX_SLIPPAGE
    BY <2>1 DEF validTWAPConfig
  <2>3. config.maxSlippage \in Nat
    BY <1>5
  <2> DEFINE m == config.maxSlippage
  <2>4. m \in Nat /\ m <= 1000
    BY <2>2, <2>3 DEF MAX_SLIPPAGE
  <2> HIDE DEF m
  <2>5. m \in 0..1000
    BY <2>4
  <2> QED BY <2>5 DEF m, MAX_SLIPPAGE
<1>9. \A other \in OrderIds : other # id =>
        /\ executionHistory'[other] = executionHistory[other]
        /\ orders'[other].twapConfig = orders[other].twapConfig
  BY <1>3, <1>4, OrderTypes
<1>10. /\ n \in Nat /\ DOMAIN h = 1..n /\ DOMAIN g = 1..(n + 1)
       /\ \A i \in 1..n : g[i] = h[i]
       /\ g[n + 1] = r
  <2> HIDE DEF g, h, r, n
  <2> QED BY <1>5, <1>6, OneMoreRecord DEF n
<1>11. InWindow(id) = {i \in DOMAIN h : h[i].timestamp >= now - config.windowMinutes * 60}
  BY DEF InWindow
<1>12. ASSUME NEW k \in 1..n PROVE WithinBand(g, config, k)
  <2>1. WithinBand(h, config, k)
    BY <1>10, <1>12, BandsOfHistory DEF SlippageInv
  <2>2. g[k] = h[k] /\ \A i \in 1..(k - 1) : g[i] = h[i]
    <3> HIDE DEF g, h, n
    <3>1. \A i \in 1..(k - 1) : i \in 1..n
      BY <1>10
    <3> QED BY <1>10, <3>1
  <2> HIDE DEF g, h, n, config
  <2>3. Earlier(g, config, k) = Earlier(h, config, k)
    BY <2>2 DEF Earlier
  <2>4. \A i \in Earlier(h, config, k) : g[i] = h[i]
    BY <2>2 DEF Earlier
  <2> QED BY <2>1, <2>2, <2>3, <2>4 DEF WithinBand
<1>13. WithinBand(g, config, n + 1)
  <2>1. g[n + 1].timestamp = now /\ g[n + 1].price = price
    <3>1. r.timestamp = now /\ r.price = price
      OBVIOUS
    <3> HIDE DEF g, r
    <3> QED BY <1>10, <3>1
  <2> HIDE DEF g, r, n
  <2>2. (n + 1) - 1 = n
    BY <1>10
  <2>3. Earlier(g, config, n + 1) = InWindow(id)
    BY <1>10, <1>11, <2>1, <2>2 DEF Earlier
  <2> SUFFICES ASSUME InWindow(id) # {}
               PROVE  /\ \E i \in InWindow(id) :
                            price <= g[i].price
                               + ((g[i].price * (config.maxSlippage + 1)) \div BASIS_POINTS + 1)
                      /\ \E i \in InWindow(id) :
                            price >= g[i].price
                               - ((g[i].price * (config.maxSlippage + 1)) \div BASIS_POINTS + 1)
    BY <2>1, <2>3 DEF WithinBand
  <2>4. /\ twap \in Nat \ {0}
        /\ \E i \in InWindow(id) : h[i].price <= twap
        /\ \E i \in InWindow(id) : twap <= h[i].price
    BY TWAPIsWithin DEF SlippageInv
  <2>5. calculateSlippage(twap, price) <= config.maxSlippage
    <3> HIDE DEF twap
    <3>1. slippage = calculateSlippage(twap, price)
      BY <1>3, <2>4
    <3> QED BY <1>3, <1>5, <3>1
  <2>6. \A i \in InWindow(id) : i \in 1..n /\ h[i].price \in Nat /\ g[i] = h[i]
    <3> HIDE DEF h
    <3> QED BY <1>5, <1>10, <1>11, RecordTypes DEF h
  <2>7. PICK i \in InWindow(id) : h[i].price <= twap
    BY <2>4
  <2>8. PICK j \in InWindow(id) : twap <= h[j].price
    BY <2>4
  <2> DEFINE m == config.maxSlippage
             low == h[i].price
             high == h[j].price
  <2>9. /\ price <= high + ((high * (m + 1)) \div BASIS_POINTS + 1)
        /\ price >= low - ((low * (m + 1)) \div BASIS_POINTS + 1)
    <3>1. /\ twap \in Nat \ {0} /\ price \in Nat /\ m \in 0..MAX_SLIPPAGE
          /\ calculateSlippage(twap, price) <= m
          /\ low \in Nat /\ low <= twap /\ high \in Nat /\ twap <= high
      BY <1>2, <1>8, <2>4, <2>5, <2>6, <2>7, <2>8
    <3> HIDE DEF twap, m, low, high
    <3> QED BY <3>1, SlippageBand
  <2> QED BY <2>6, <2>9
<1>14. \A k \in DOMAIN g : WithinBand(g, config, k)
  <2> HIDE DEF g, config, n, h
  <2>1. \A k \in 1..(n + 1) : k \in 1..n \/ k = n + 1
    BY <1>10
  <2> QED BY <1>10, <1>12, <1>13, <2>1
<1>15. SlippageIsContained'
  <2> SUFFICES ASSUME NEW other \in OrderIds, NEW k \in DOMAIN executionHistory'[other]
               PROVE  WithinBand(executionHistory'[other], orders'[other].twapConfig, k)
    BY BandsOfHistoryNext
  <2>1. CASE other = id
    BY <1>7, <1>14, <2>1
  <2>2. CASE other # id
    BY <1>9, <2>2, BandsOfHistory DEF SlippageInv
  <2> QED BY <2>1, <2>2
<1>16. PricesArePositive'
  <2> SUFFICES ASSUME NEW other \in OrderIds, NEW k \in DOMAIN executionHistory'[other]
               PROVE  executionHistory'[other][k].price # 0
    BY DEF PricesArePositive
  <2>1. CASE other = id
    <3>1. r.price = price
      OBVIOUS
    <3> HIDE DEF r, n
    <3>2. k \in 1..n \/ k = n + 1
      BY <1>10, <2>1
    <3>3. k \in 1..n => g[k].price = h[k].price /\ h[k].price # 0
      BY <1>10 DEF SlippageInv, PricesArePositive
    <3> QED BY <1>2, <1>10, <2>1, <3>1, <3>2, <3>3
  <2>2. CASE other # id
    BY <1>9, <2>2 DEF SlippageInv, PricesArePositive
  <2> QED BY <2>1, <2>2
<1> QED BY <1>15, <1>16 DEF SlippageInv

LEMMA SlippageStep == IInv /\ SpacingInv /\ SlippageInv /\ [Next]_vars => SlippageInv'
<1> SUFFICES ASSUME IInv, SpacingInv, SlippageInv, [Next]_vars, ~ExecuteInterval
             PROVE  SlippageInv'
  BY SlippageOfExecution
<1>1. \A id \in OrderIds : executionHistory'[id] = executionHistory[id]
  BY OnlyExecutionsRecord
<1>2. PricesArePositive'
  BY <1>1 DEF SlippageInv, PricesArePositive
<1>3. ASSUME NEW id \in OrderIds, NEW k \in DOMAIN executionHistory'[id]
      PROVE  WithinBand(executionHistory'[id], orders'[id].twapConfig, k)
  <2>1. executionHistory[id] # <<>> /\ k \in DOMAIN executionHistory[id]
    BY <1>1, <1>3
  <2> QED BY <1>1, <2>1, OnlyExecutionsRecord, BandsOfHistory DEF SlippageInv
<1> QED BY <1>2, <1>3, BandsOfHistoryNext DEF SlippageInv

\* An execution's price leaves the prices of its window by no more than
\* maxSlippage (FlowFusionBridge.sol executeTWAPInterval, _calculateTWAP).
THEOREM SlippageIsContainedAlways == Spec => []SlippageIsContained
<1>1. Init => SlippageInv
  BY DEF Init, SlippageInv, SlippageIsContained, PricesArePositive
<1>2. Init => SpacingInv
  BY DEF Init, SpacingInv, LastIsLatest, ExecutionsAreSpaced, orderExists, NoOrder
<1>3. SlippageInv => SlippageIsContained
  BY DEF SlippageInv
<1> QED BY <1>1, <1>2, <1>3, SlippageStep, SpacingStep, IInvHolds, PTL DEF Spec
=============================================================================
