----------------------- MODULE FlowFusionBridgeProofs -----------------------
(***************************************************************************)
(* Theorems about the bridge contract, for any number of users, orders,    *)
(* tokens, amounts, prices and settings.                                   *)
(*                                                                         *)
(* Types alone are not inductive: cancelOrder and claimHTLC decrement      *)
(* userOrderCount, which stays a natural number only because it counts     *)
(* the open orders; and an order's remainder is a natural number only      *)
(* because its status and its amounts agree.  The inductive invariant is   *)
(* therefore the conjunction of the three.                                 *)
(***************************************************************************)
EXTENDS BridgeProperties, SumProofs

IInv == TypeOK /\ StatusMatchesAmounts /\ SlotsMatchOrders

-----------------------------------------------------------------------------
(* Arithmetic.                                                             *)

\* A fee of at most 1% leaves a positive part of every amount that
\* createTWAPOrder accepts.
LEMMA FeeIsSmall ==
    ASSUME NEW amount \in Nat, amount >= MIN_EXECUTION_AMOUNT,
           NEW rate \in 0..MAX_FEE_RATE
    PROVE  /\ (amount * rate) \div BASIS_POINTS \in Nat
           /\ (amount * rate) \div BASIS_POINTS < amount
<1> DEFINE fee == (amount * rate) \div BASIS_POINTS
<1>1. amount * rate \in Nat /\ amount * rate <= amount * 100
  BY DEF MAX_FEE_RATE
<1>2. fee \in Int /\ 10000 * fee <= amount * rate /\ amount * rate < 10000 * fee + 10000
  <2> DEFINE product == amount * rate
  <2>1. product \in Nat
    BY <1>1
  <2>2. (product \div 10000) \in Int /\ 10000 * (product \div 10000) <= product
          /\ product < 10000 * (product \div 10000) + 10000
    <3> HIDE DEF product
    <3> QED BY <2>1
  <2> QED BY <2>2 DEF BASIS_POINTS
<1> HIDE DEF fee
<1>3. fee \in Nat
  BY <1>1, <1>2
<1>4. fee < amount
  BY <1>1, <1>2, <1>3 DEF MIN_EXECUTION_AMOUNT
<1> QED BY <1>3, <1>4 DEF fee

\* The running average lies between the previous average and the new price,
\* whatever amount the previous average is weighted with.
LEMMA AverageIsBetween ==
    ASSUME NEW average \in Nat, NEW executed \in Nat, NEW price \in Nat,
           NEW amount \in Nat \ {0}
    PROVE  LET new == calculateWeightedAveragePrice(average, executed, price, amount)
           IN  /\ new \in Nat
               /\ new >= average \/ new >= price
               /\ new <= average \/ new <= price
<1> DEFINE value == (average * executed) + (price * amount)
           total == executed + amount
           new   == value \div total
<1>1. value \in Nat /\ total \in Nat \ {0}
  OBVIOUS
<1>2. new \in Int /\ total * new <= value /\ value < total * new + total
  <2> HIDE DEF value, total
  <2> QED BY <1>1
<1> DEFINE low  == IF average <= price THEN average ELSE price
           high == IF average <= price THEN price ELSE average
<1>3. low \in Nat /\ high \in Nat
  OBVIOUS
<1>4. total * low <= value /\ value <= total * high
  <2>1. low * executed <= average * executed /\ low * amount <= price * amount
    OBVIOUS
  <2>2. average * executed <= high * executed /\ price * amount <= high * amount
    OBVIOUS
  <2>3. total * low = low * executed + low * amount
    BY <1>3
  <2>4. total * high = high * executed + high * amount
    BY <1>3
  <2> HIDE DEF low, high, total
  <2> QED BY <1>1, <1>3, <2>1, <2>2, <2>3, <2>4
<1>5. low <= new /\ new <= high
  <2> HIDE DEF low, high, total, value, new
  <2>1. low < new + 1
    <3>1. total * low < total * (new + 1)
      BY <1>1, <1>2, <1>3, <1>4
    <3> QED BY <3>1, <1>1, <1>2, <1>3
  <2>2. new <= high
    <3>1. total * new <= total * high
      BY <1>1, <1>2, <1>3, <1>4
    <3> QED BY <3>1, <1>1, <1>2, <1>3
  <2> QED BY <2>1, <2>2, <1>2, <1>3
<1>6. new \in Nat /\ (new >= average \/ new >= price)
                  /\ (new <= average \/ new <= price)
  <2> HIDE DEF new
  <2> QED BY <1>2, <1>3, <1>5
<1> QED BY <1>6 DEF calculateWeightedAveragePrice

-----------------------------------------------------------------------------
(* The open orders of a user and their number.                             *)

LEMMA OpenOrdersFinite ==
    ASSUME NEW u \in Users
    PROVE  /\ IsFiniteSet(OpenOrders(u))
           /\ Cardinality(OpenOrders(u)) \in Nat
BY FiniteAssumption, FS_Subset, FS_CardinalityType DEF OpenOrders

\* The user of an open order has a slot to give back.
LEMMA OpenOrderCounts ==
    ASSUME IInv, NEW id \in OrderIds, orderExists(id),
           orders[id].status \in {"Executing", "Completed"}
    PROVE  /\ orders[id].user \in Users
           /\ userOrderCount[orders[id].user] \in Nat \ {0}
<1> DEFINE u == orders[id].user
<1>1. u \in Users
  BY DEF IInv, TypeOK, Order, orderExists
<1>2. id \in OpenOrders(u)
  BY DEF OpenOrders
<1>3. Cardinality(OpenOrders(u)) # 0
  BY <1>1, <1>2, OpenOrdersFinite, FS_EmptySet
<1> QED
  BY <1>1, <1>3, OpenOrdersFinite DEF IInv, SlotsMatchOrders

-----------------------------------------------------------------------------
(* One lemma per action that changes an order.                             *)

LEMMA CreateStep ==
    ASSUME IInv,
           NEW u \in Users, NEW id \in OrderIds, NEW token \in Tokens,
           NEW amount \in Amounts, NEW value \in Values, NEW chain \in Chains,
           NEW config \in Configs, NEW hash \in Hashes, NEW timeout \in Timeouts,
           createTWAPOrder(u, id, token, amount, value, chain, config, hash, timeout)
    PROVE  IInv'
<1> DEFINE fee == protocolFee(amount)
           net == netAmount(amount)
           unasked == IF token = ETH THEN 0 ELSE value
           new == [user |-> u, sourceToken |-> token, sourceAmount |-> net,
                   twapConfig |-> config, htlcHash |-> hash,
                   timeoutHeight |-> timeout, executedAmount |-> 0,
                   lastExecution |-> 0, status |-> "Executing", averagePrice |-> 0]
<1> USE DEF IInv
<1>1. amount \in Nat /\ value \in Nat /\ config \in Config /\ timeout \in Nat
        /\ ETH \in Tokens /\ u # NoUser
  BY InputAssumption, AddressAssumption
<1>2. fee \in Nat /\ net \in Nat /\ net > 0
  <2>1. settings.protocolFeeRate \in 0..MAX_FEE_RATE /\ amount >= MIN_EXECUTION_AMOUNT
    BY DEF TypeOK, Settings, createTWAPOrder
  <2> QED BY <1>1, <2>1, FeeIsSmall DEF protocolFee, netAmount
<1>3. /\ ~orderExists(id)
      /\ orders' = [orders EXCEPT ![id] = new]
      /\ userOrders' = [userOrders EXCEPT ![u] = Append(@, id)]
      /\ userOrderCount' = [userOrderCount EXCEPT ![u] = @ + 1]
      /\ totalOrders' = totalOrders + 1
      /\ totalVolume' = totalVolume + amount
      /\ balance' = [t \in Tokens |-> balance[t]
                       + (IF t = token THEN net ELSE 0)
                       + (IF t = ETH THEN unasked ELSE 0)]
      /\ collected' = [collected EXCEPT ![token] = @ + fee]
      /\ stray' = [stray EXCEPT ![ETH] = @ + unasked]
      /\ UNCHANGED <<executionHistory, settings, clockVars, withdrawn>>
  BY DEF createTWAPOrder
<1> HIDE DEF fee, net
<1>4. TypeOK'
  <2>1. new \in Order
    BY <1>1, <1>2 DEF Order, Status
  <2>2. (orders \in [OrderIds -> Order])'
    BY <1>3, <2>1 DEF TypeOK
  <2>3. (userOrders \in [Users -> Seq(OrderIds)])'
    BY <1>3 DEF TypeOK
  <2>4. (userOrderCount \in [Users -> Nat])'
    BY <1>3 DEF TypeOK
  <2>5. (balance \in [Tokens -> Nat])'
    <3>1. balance \in [Tokens -> Nat] /\ unasked \in Nat
      BY <1>1 DEF TypeOK
    <3> HIDE DEF unasked, new
    <3> QED BY <1>2, <1>3, <3>1
  <2>6. (collected \in [Tokens -> Nat])' /\ (stray \in [Tokens -> Nat])'
    <3>1. collected \in [Tokens -> Nat] /\ stray \in [Tokens -> Nat]
      BY DEF TypeOK
    <3>2. unasked \in Nat
      BY <1>1
    <3> HIDE DEF unasked, new, IInv
    <3>3. collected' = [collected EXCEPT ![token] = collected[token] + fee]
      BY <1>3
    <3>4. stray' = [stray EXCEPT ![ETH] = stray[ETH] + unasked]
      BY <1>3
    <3>5. collected[token] + fee \in Nat
      BY <1>2, <3>1
    <3>6. stray[ETH] + unasked \in Nat
      BY <1>1, <3>1, <3>2
    <3> QED BY <3>1, <3>3, <3>4, <3>5, <3>6
  <2>7. (totalOrders \in Nat /\ totalVolume \in Nat)'
    BY <1>1, <1>3 DEF TypeOK
  <2> QED BY <1>3, <2>2, <2>3, <2>4, <2>5, <2>6, <2>7 DEF TypeOK, clockVars
<1>5. StatusMatchesAmounts'
  BY <1>1, <1>2, <1>3 DEF StatusMatchesAmounts, orderExists, TypeOK
<1>6. SlotsMatchOrders'
  <2> SUFFICES ASSUME NEW v \in Users
               PROVE  userOrderCount'[v] = Cardinality(OpenOrders(v)')
    BY DEF SlotsMatchOrders
  <2>1. CASE v = u
    <3>1. OpenOrders(v)' = OpenOrders(v) \cup {id} /\ id \notin OpenOrders(v)
      BY <1>1, <1>3, <2>1 DEF OpenOrders, TypeOK, orderExists
    <3>2. Cardinality(OpenOrders(v)') = Cardinality(OpenOrders(v)) + 1
      BY <3>1, OpenOrdersFinite, FS_AddElement
    <3> QED BY <1>3, <2>1, <3>2 DEF SlotsMatchOrders, TypeOK
  <2>2. CASE v # u
    <3>1. OpenOrders(v)' = OpenOrders(v)
      BY <1>3, <2>2, AddressAssumption DEF OpenOrders, TypeOK, orderExists
    <3> QED BY <1>3, <2>2, <3>1 DEF SlotsMatchOrders, TypeOK
  <2> QED BY <2>1, <2>2
<1> QED BY <1>4, <1>5, <1>6

LEMMA ExecuteStep ==
    ASSUME IInv, NEW e \in Executors, NEW id \in OrderIds,
           NEW amount \in Amounts, NEW price \in Prices,
           executeTWAPInterval(e, id, amount, price)
    PROVE  IInv'
<1> DEFINE order == orders[id]
           new   == fill(order, amount, price)
<1> USE DEF IInv
<1>1. amount \in Nat \ {0} /\ price \in Nat
  BY InputAssumption DEF executeTWAPInterval
<1>2. order \in Order /\ orderExists(id) /\ order.status = "Executing"
        /\ amount <= order.sourceAmount - order.executedAmount
  BY DEF executeTWAPInterval, TypeOK, orderActive, Remaining
<1>3. PICK slippage \in 0..order.twapConfig.maxSlippage :
        executionHistory' = [executionHistory EXCEPT ![id] =
            Append(@, [timestamp |-> now, amount |-> amount,
                       price |-> price, slippage |-> slippage])]
  BY Zenon DEF executeTWAPInterval
<1>4. orders' = [orders EXCEPT ![id] = new]
        /\ UNCHANGED <<userVars, totalVars, settings, clockVars, moneyVars>>
  BY DEF executeTWAPInterval
<1>5. /\ new \in Order
      /\ new.user = order.user
      /\ new.sourceAmount = order.sourceAmount
      /\ new.executedAmount = order.executedAmount + amount
      /\ new.status = IF new.executedAmount >= order.sourceAmount
                      THEN "Completed" ELSE "Executing"
  <2> DEFINE executed == order.executedAmount + amount
             average == IF order.averagePrice = 0 THEN price
                        ELSE calculateWeightedAveragePrice(order.averagePrice,
                                                           executed, price, amount)
             status == IF executed >= order.sourceAmount THEN "Completed"
                       ELSE order.status
  <2>1. executed \in Nat /\ average \in Nat /\ status \in {"Completed", "Executing"}
    <3>1. executed \in Nat /\ status \in {"Completed", "Executing"}
      BY <1>1, <1>2 DEF Order
    <3>2. order.averagePrice \in Nat
      BY <1>2 DEF Order
    <3> HIDE DEF executed, order
    <3>3. calculateWeightedAveragePrice(order.averagePrice, executed, price, amount)
            \in Nat
      BY <1>1, <3>1, <3>2, AverageIsBetween
    <3> QED BY <1>1, <3>1, <3>3
  <2>2. new = [order EXCEPT !.executedAmount = executed, !.lastExecution = now,
                            !.averagePrice = average, !.status = status]
    BY DEF fill
  <2>3. status = IF executed >= order.sourceAmount THEN "Completed" ELSE "Executing"
    BY <1>2
  <2> HIDE DEF executed, average, status, new
  <2>4. now \in Nat
    BY DEF TypeOK
  <2>5. new \in Order
    BY <1>2, <2>1, <2>2, <2>4 DEF Order, Status
  <2>6. /\ new.user = order.user
        /\ new.sourceAmount = order.sourceAmount
        /\ new.executedAmount = executed
        /\ new.status = status
    BY <1>2, <2>2 DEF Order
  <2> QED BY <2>3, <2>5, <2>6 DEF executed
<1> HIDE DEF new
<1>6. TypeOK'
  <2>1. slippage \in Nat
    BY <1>2, <1>3 DEF Order, Config
  <2>2. (executionHistory \in [OrderIds -> Seq(ExecutionRecord)])'
    BY <1>1, <1>3, <2>1 DEF TypeOK, ExecutionRecord
  <2> QED BY <1>4, <1>5, <2>2 DEF TypeOK, userVars, totalVars, clockVars, moneyVars
<1>7. StatusMatchesAmounts'
  <2> SUFFICES ASSUME NEW i \in OrderIds
               PROVE  StatusMatchesAmounts!(i)'
    BY DEF StatusMatchesAmounts
  <2>1. CASE i = id
    <3>1. orders'[i] = new /\ orderExists(i)'
      BY <1>2, <1>4, <1>5, <2>1 DEF orderExists, TypeOK
    <3>2. order.sourceAmount \in Nat /\ order.executedAmount \in Nat
      BY <1>2 DEF Order
    <3> HIDE DEF order
    <3> QED BY <1>1, <1>2, <1>5, <3>1, <3>2
  <2>2. CASE i # id
    <3>1. orders'[i] = orders[i] /\ executionHistory'[i] = executionHistory[i]
      BY <1>3, <1>4, <2>2 DEF TypeOK
    <3> QED BY <3>1 DEF StatusMatchesAmounts, orderExists
  <2> QED BY <2>1, <2>2
<1>8. SlotsMatchOrders'
  <2>1. ASSUME NEW v \in Users PROVE OpenOrders(v)' = OpenOrders(v)
    BY <1>2, <1>4, <1>5 DEF OpenOrders, TypeOK
  <2> QED BY <1>4, <2>1 DEF SlotsMatchOrders, userVars
<1> QED BY <1>6, <1>7, <1>8

\* Cancelling and claiming close an order: the same argument for both.
LEMMA SlotIsReleased ==
    ASSUME IInv, NEW id \in OrderIds, orderExists(id),
           orders[id].status \in {"Executing", "Completed"},
           NEW status \in {"Cancelled", "Claimed"},
           orders' = [orders EXCEPT ![id] = [orders[id] EXCEPT !.status = status]],
           userOrderCount' = releaseSlot(orders[id].user)
    PROVE  /\ (orders \in [OrderIds -> Order])'
           /\ (userOrderCount \in [Users -> Nat])'
           /\ SlotsMatchOrders'
<1> DEFINE order == orders[id]
           u == order.user
<1> USE DEF IInv
<1>1. order \in Order /\ u \in Users /\ userOrderCount[u] \in Nat \ {0}
  BY OpenOrderCounts DEF TypeOK
<1>2. userOrderCount' = [userOrderCount EXCEPT ![u] = @ - 1]
  BY DEF releaseSlot
<1>3. (orders \in [OrderIds -> Order])'
  <2>1. [order EXCEPT !.status = status] \in Order
    BY <1>1 DEF Order, Status
  <2> QED BY <2>1 DEF TypeOK
<1>4. (userOrderCount \in [Users -> Nat])'
  BY <1>1, <1>2 DEF TypeOK
<1>5. orders'[id].user = u /\ orders'[id].status = status
  BY <1>1 DEF TypeOK, Order
<1>6. \A i \in OrderIds : i # id => orders'[i] = orders[i]
  BY DEF TypeOK
<1>7. ASSUME NEW v \in Users
      PROVE  userOrderCount'[v] = Cardinality(OpenOrders(v)')
  <2>1. CASE v = u
    <3>1. OpenOrders(v)' = OpenOrders(v) \ {id} /\ id \in OpenOrders(v)
      BY <1>5, <1>6, <2>1 DEF OpenOrders
    <3>2. Cardinality(OpenOrders(v)') = Cardinality(OpenOrders(v)) - 1
      BY <3>1, OpenOrdersFinite, FS_RemoveElement
    <3> QED BY <1>1, <1>2, <2>1, <3>2 DEF SlotsMatchOrders, TypeOK
  <2>2. CASE v # u
    <3>1. OpenOrders(v)' = OpenOrders(v)
      BY <1>5, <1>6, <2>2 DEF OpenOrders
    <3> QED BY <1>2, <2>2, <3>1 DEF SlotsMatchOrders, TypeOK
  <2> QED BY <2>1, <2>2
<1> QED BY <1>3, <1>4, <1>7 DEF SlotsMatchOrders

\* Closing an order changes nothing but its status.
LEMMA StatusIsUpdated ==
    ASSUME IInv, NEW id \in OrderIds, orderExists(id),
           NEW status \in {"Cancelled", "Claimed"},
           status = "Cancelled" => orders[id].executedAmount < orders[id].sourceAmount,
           status = "Claimed" => orders[id].executedAmount = orders[id].sourceAmount,
           orders' = [orders EXCEPT ![id] = [orders[id] EXCEPT !.status = status]],
           UNCHANGED executionHistory
    PROVE  StatusMatchesAmounts'
<1> USE DEF IInv
<1> SUFFICES ASSUME NEW i \in OrderIds
             PROVE  StatusMatchesAmounts!(i)'
  BY DEF StatusMatchesAmounts
<1>1. CASE i = id
  <2>1. orders[id] \in Order
    BY DEF TypeOK
  <2>2. /\ orders'[id].user = orders[id].user
        /\ orders'[id].status = status
        /\ orders'[id].executedAmount = orders[id].executedAmount
        /\ orders'[id].sourceAmount = orders[id].sourceAmount
    BY <2>1 DEF TypeOK, Order
  <2> QED BY <1>1, <2>2 DEF orderExists
<1>2. CASE i # id
  <2>1. orders'[i] = orders[i] /\ executionHistory'[i] = executionHistory[i]
    BY <1>2 DEF TypeOK
  <2> QED BY <2>1 DEF StatusMatchesAmounts, orderExists
<1> QED BY <1>1, <1>2

LEMMA CancelStep ==
    ASSUME IInv, NEW id \in OrderIds, cancelOrder(id)
    PROVE  IInv'
<1> DEFINE order == orders[id]
           refundAmount == Remaining(order)
<1>1. /\ orderExists(id)
      /\ order.status = "Executing"
      /\ orders' = [orders EXCEPT ![id] = [order EXCEPT !.status = "Cancelled"]]
      /\ userOrderCount' = releaseSlot(order.user)
      /\ UNCHANGED executionHistory
  BY DEF cancelOrder, orderActive
<1>2. order \in Order /\ refundAmount \in Nat /\ refundAmount > 0
  <2>1. order \in Order
    BY DEF IInv, TypeOK
  <2> QED BY <2>1 DEF cancelOrder, Remaining, Order
<1>3. order.executedAmount < order.sourceAmount
  BY <1>2 DEF Remaining, Order
<1>4. (balance \in [Tokens -> Nat])'
  <2>1. /\ refundAmount <= balance[order.sourceToken]
        /\ balance' = [balance EXCEPT ![order.sourceToken] =
                           balance[order.sourceToken] - refundAmount]
    BY DEF cancelOrder
  <2>2. balance \in [Tokens -> Nat] /\ order.sourceToken \in Tokens
    BY <1>2 DEF IInv, TypeOK, Order
  <2> HIDE DEF refundAmount, order
  <2> QED BY <1>2, <2>1, <2>2
<1> HIDE DEF refundAmount
<1>5. UNCHANGED <<executionHistory, userOrders, totalVars, settings,
                  clockVars, collected, withdrawn, stray>>
  BY DEF cancelOrder
<1>6. TypeOK' /\ SlotsMatchOrders'
  <2>1. /\ (orders \in [OrderIds -> Order])'
        /\ (userOrderCount \in [Users -> Nat])'
        /\ SlotsMatchOrders'
    BY <1>1, SlotIsReleased
  <2> QED BY <1>4, <1>5, <2>1 DEF IInv, TypeOK, totalVars, clockVars
<1>7. StatusMatchesAmounts'
  BY <1>1, <1>3, StatusIsUpdated
<1> QED BY <1>6, <1>7 DEF IInv

LEMMA ClaimStep ==
    ASSUME IInv, NEW id \in OrderIds, NEW secret \in Secrets, claimHTLC(id, secret)
    PROVE  IInv'
<1>1. /\ orderExists(id)
      /\ orders[id].status = "Completed"
      /\ orders' = [orders EXCEPT ![id] = [orders[id] EXCEPT !.status = "Claimed"]]
      /\ userOrderCount' = releaseSlot(orders[id].user)
      /\ UNCHANGED <<executionHistory, userOrders, totalVars, settings,
                     clockVars, moneyVars>>
  BY DEF claimHTLC
<1>2. orders[id].executedAmount = orders[id].sourceAmount
  BY <1>1 DEF IInv, StatusMatchesAmounts
<1>3. TypeOK' /\ SlotsMatchOrders'
  <2>1. /\ (orders \in [OrderIds -> Order])'
        /\ (userOrderCount \in [Users -> Nat])'
        /\ SlotsMatchOrders'
    BY <1>1, SlotIsReleased
  <2> QED BY <1>1, <2>1 DEF IInv, TypeOK, totalVars, clockVars, moneyVars
<1>4. StatusMatchesAmounts'
  BY <1>1, <1>2, StatusIsUpdated
<1> QED BY <1>3, <1>4 DEF IInv

\* The other actions leave orders and counters alone.
LEMMA OrdersUntouched ==
    ASSUME IInv, TypeOK', UNCHANGED <<orderVars, userVars>>
    PROVE  IInv'
BY DEF IInv, orderVars, userVars, StatusMatchesAmounts, SlotsMatchOrders,
       OpenOrders, orderExists

LEMMA AdministerStep ==
    ASSUME IInv, Administer
    PROVE  IInv'
<1> USE DEF IInv
<1>1. UNCHANGED <<orderVars, userVars, totalVars, clockVars, moneyVars>>
  BY DEF Administer
<1>2. settings' \in Settings
  <2> SUFFICES ASSUME settings \in Settings PROVE settings' \in Settings
    BY DEF TypeOK
  <2>1. ASSUME NEW chains \in SUBSET Chains,
               settings' = [settings EXCEPT !.supportedChains = chains]
        PROVE  settings' \in Settings
    BY <2>1 DEF Settings
  <2>2. ASSUME NEW executors \in SUBSET Executors,
               settings' = [settings EXCEPT !.authorizedExecutors = executors]
        PROVE  settings' \in Settings
    BY <2>2 DEF Settings
  <2>3. ASSUME NEW collector \in Collectors, updateFeeCollector(collector)
        PROVE  settings' \in Settings
    BY <2>3 DEF updateFeeCollector, Settings
  <2>4. ASSUME NEW rate \in FeeRates, updateProtocolFeeRate(rate)
        PROVE  settings' \in Settings
    <3>1. rate \in 0..MAX_FEE_RATE
      BY <2>4, InputAssumption DEF updateProtocolFeeRate, MAX_FEE_RATE
    <3> QED BY <2>4, <3>1 DEF updateProtocolFeeRate, Settings
  <2>5. ASSUME NEW limit \in Limits, updateMaxOrdersPerUser(limit)
        PROVE  settings' \in Settings
    <3>1. limit \in Nat \ {0}
      BY <2>5, InputAssumption DEF updateMaxOrdersPerUser
    <3> QED BY <2>5, <3>1 DEF updateMaxOrdersPerUser, Settings
  <2>6. ASSUME pause \/ unpause
        PROVE  settings' \in Settings
    BY <2>6 DEF pause, unpause, Settings
  <2>7. settings.supportedChains \in SUBSET Chains
          /\ settings.authorizedExecutors \in SUBSET Executors
    BY DEF Settings
  <2>8. ASSUME NEW chain \in Chains,
               addSupportedChain(chain) \/ removeSupportedChain(chain)
        PROVE  settings' \in Settings
    <3>1. settings.supportedChains \cup {chain} \in SUBSET Chains
            /\ settings.supportedChains \ {chain} \in SUBSET Chains
      BY <2>7
    <3> QED BY <2>1, <2>8, <3>1 DEF addSupportedChain, removeSupportedChain
  <2>9. ASSUME NEW e \in Executors,
               addAuthorizedExecutor(e) \/ removeAuthorizedExecutor(e)
        PROVE  settings' \in Settings
    <3>1. settings.authorizedExecutors \cup {e} \in SUBSET Executors
            /\ settings.authorizedExecutors \ {e} \in SUBSET Executors
      BY <2>7
    <3> QED BY <2>2, <2>9, <3>1 DEF addAuthorizedExecutor, removeAuthorizedExecutor
  <2> QED BY <2>3, <2>4, <2>5, <2>6, <2>8, <2>9 DEF Administer
<1>3. TypeOK'
  BY <1>1, <1>2 DEF TypeOK, orderVars, userVars, totalVars, clockVars, moneyVars
<1> QED BY <1>1, <1>3, OrdersUntouched

LEMMA WithdrawStep ==
    ASSUME IInv, NEW token \in Tokens, NEW amount \in Transfers,
           emergencyWithdraw(token, amount)
    PROVE  IInv'
<1>1. amount \in Nat
  BY InputAssumption
<1>2. TypeOK'
  BY <1>1 DEF emergencyWithdraw, IInv, TypeOK, orderVars, userVars, totalVars, clockVars
<1> QED BY <1>2, OrdersUntouched DEF emergencyWithdraw

LEMMA ReceiveStep ==
    ASSUME IInv, NEW token \in Tokens, NEW amount \in Transfers,
           receiveTokens(token, amount)
    PROVE  IInv'
<1>1. amount \in Nat
  BY InputAssumption
<1>2. TypeOK'
  BY <1>1 DEF receiveTokens, IInv, TypeOK, orderVars, userVars, totalVars, clockVars
<1> QED BY <1>2, OrdersUntouched DEF receiveTokens

LEMMA NewBlockStep ==
    ASSUME IInv, NEW tick \in Ticks, NewBlock(tick)
    PROVE  IInv'
<1>1. (block \in Nat)' /\ (now \in Nat /\ now >= GenesisTime)'
  <2>1. tick[1] \in Nat /\ tick[2] \in Nat /\ GenesisTime \in Nat
    BY ClockAssumption
  <2>2. /\ block \in Nat /\ now \in Nat /\ now >= GenesisTime
        /\ block' = block + tick[1] /\ now' = now + tick[2]
    BY DEF NewBlock, IInv, TypeOK
  <2> QED BY <2>1, <2>2
<1>2. TypeOK'
  BY <1>1 DEF NewBlock, IInv, TypeOK, orderVars, userVars, totalVars, moneyVars
<1> QED BY <1>2, OrdersUntouched DEF NewBlock

-----------------------------------------------------------------------------

LEMMA InitEstablishesIInv == Init => IInv
<1> SUFFICES ASSUME Init PROVE IInv
  OBVIOUS
<1>1. NoOrder \in Order
  BY AddressAssumption DEF NoOrder, NoConfig, Order, Config, Status
<1>2. TypeOK
  <2>1. settings \in Settings
    <3>1. PICK collector \in Collectors,
               rate \in {r \in FeeRates : r <= MAX_FEE_RATE} :
            settings = [supportedChains |-> Chains, authorizedExecutors |-> {},
                        feeCollector |-> collector, protocolFeeRate |-> rate,
                        maxOrdersPerUser |-> 100, paused |-> FALSE]
      BY DEF Init
    <3>2. rate \in 0..MAX_FEE_RATE
      BY InputAssumption DEF MAX_FEE_RATE
    <3> QED BY <3>1, <3>2 DEF Settings
  <2> QED BY <1>1, <2>1, ClockAssumption DEF Init, TypeOK
<1>3. StatusMatchesAmounts
  BY DEF Init, StatusMatchesAmounts, orderExists, NoOrder
<1>4. SlotsMatchOrders
  <2>1. ASSUME NEW u \in Users PROVE OpenOrders(u) = {}
    BY AddressAssumption DEF Init, OpenOrders, NoOrder
  <2> QED BY <2>1, FS_EmptySet DEF Init, SlotsMatchOrders
<1> QED BY <1>2, <1>3, <1>4 DEF IInv

LEMMA StepPreservesIInv == IInv /\ [Next]_vars => IInv'
<1> SUFFICES ASSUME IInv, [Next]_vars PROVE IInv'
  OBVIOUS
<1>1. CASE CreateOrder
  BY <1>1, CreateStep DEF CreateOrder
<1>2. CASE ExecuteInterval
  BY <1>2, ExecuteStep DEF ExecuteInterval
<1>3. ASSUME NEW id \in OrderIds, cancelOrder(id)
      PROVE  IInv'
  BY <1>3, CancelStep
<1>4. ASSUME NEW id \in OrderIds, NEW secret \in Secrets, claimHTLC(id, secret)
      PROVE  IInv'
  BY <1>4, ClaimStep
<1>5. CASE Administer
  BY <1>5, AdministerStep
<1>6. ASSUME NEW token \in Tokens, NEW amount \in Transfers,
             emergencyWithdraw(token, amount) \/ receiveTokens(token, amount)
      PROVE  IInv'
  BY <1>6, WithdrawStep, ReceiveStep
<1>7. ASSUME NEW tick \in Ticks, NewBlock(tick)
      PROVE  IInv'
  BY <1>7, NewBlockStep
<1>8. CASE UNCHANGED vars
  BY <1>8 DEF vars, orderVars, userVars, totalVars, clockVars, moneyVars, IInv,
     TypeOK, StatusMatchesAmounts, SlotsMatchOrders, OpenOrders, orderExists
<1> QED
  BY <1>1, <1>2, <1>3, <1>4, <1>5, <1>6, <1>7, <1>8 DEF Next

THEOREM IInvHolds == Spec => []IInv
BY InitEstablishesIInv, StepPreservesIInv, PTL DEF Spec

\* No counter or balance of the contract underflows.
THEOREM TypeCorrect == Spec => []TypeOK
<1>1. IInv => TypeOK
  BY DEF IInv
<1> QED BY <1>1, IInvHolds, PTL

\* userOrderCount counts the open orders of its user: a refund or a claim is
\* never refused for want of a slot to give back.
THEOREM SlotsAreExact == Spec => []SlotsMatchOrders
<1>1. IInv => SlotsMatchOrders
  BY DEF IInv
<1> QED BY <1>1, IInvHolds, PTL

\* Status and amounts of every order agree.
THEOREM StatusIsExact == Spec => []StatusMatchesAmounts
<1>1. IInv => StatusMatchesAmounts
  BY DEF IInv
<1> QED BY <1>1, IInvHolds, PTL

-----------------------------------------------------------------------------
(* The lists of orders.                                                    *)

\* Every order belongs to one user for good, and lists and count follow.
IndexStands ==
    /\ \A id \in OrderIds : orders'[id].user = orders[id].user
    /\ UNCHANGED <<userOrders, totalOrders>>

LEMMA OnlyCreateIndexes ==
    ASSUME IInv, [Next]_vars, ~CreateOrder
    PROVE  IndexStands
<1> USE DEF IndexStands, userVars, totalVars, orderVars
<1>1. orders \in [OrderIds -> Order]
  BY DEF IInv, TypeOK
<1>2. CASE ExecuteInterval
  <2>1. PICK e \in Executors, id \in OrderIds, amount \in Amounts, price \in Prices :
           executeTWAPInterval(e, id, amount, price)
    BY <1>2 DEF ExecuteInterval
  <2>2. fill(orders[id], amount, price).user = orders[id].user
    BY <1>1 DEF fill, Order
  <2> HIDE DEF fill
  <2>3. /\ orders' = [orders EXCEPT ![id] = fill(orders[id], amount, price)]
        /\ UNCHANGED <<userVars, totalVars>>
    BY <2>1 DEF executeTWAPInterval
  <2> QED BY <1>1, <2>2, <2>3
<1>3. ASSUME NEW id \in OrderIds, NEW status,
             orders' = [orders EXCEPT ![id] = [orders[id] EXCEPT !.status = status]],
             UNCHANGED <<userOrders, totalVars>>
      PROVE  IndexStands
  <2>1. [orders[id] EXCEPT !.status = status].user = orders[id].user
    BY <1>1 DEF Order
  <2> QED BY <1>1, <1>3, <2>1
<1>4. ASSUME NEW id \in OrderIds, cancelOrder(id) PROVE IndexStands
  BY <1>3, <1>4 DEF cancelOrder
<1>5. ASSUME NEW id \in OrderIds, NEW secret \in Secrets, claimHTLC(id, secret)
      PROVE  IndexStands
  BY <1>3, <1>5 DEF claimHTLC
<1>6. CASE UNCHANGED <<orders, userOrders, totalOrders>>
  BY <1>6
<1>7. ASSUME \/ Administer \/ UNCHANGED vars
             \/ \E token \in Tokens, amount \in Transfers :
                   emergencyWithdraw(token, amount) \/ receiveTokens(token, amount)
             \/ \E tick \in Ticks : NewBlock(tick)
      PROVE  UNCHANGED <<orders, userOrders, totalOrders>>
  BY <1>7 DEF Administer, vars, emergencyWithdraw, receiveTokens, NewBlock
<1> QED BY <1>2, <1>4, <1>5, <1>6, <1>7 DEF Next

\* The orders a list and the count are compared with.
LEMMA ExistingFinite ==
    /\ IsFiniteSet(Existing) /\ Cardinality(Existing) \in Nat
BY FiniteAssumption, FS_Subset, FS_CardinalityType DEF Existing

\* A list with one more order, which it did not contain.
LEMMA OneMoreOrder ==
    ASSUME NEW list \in Seq(OrderIds), NEW id \in OrderIds, id \notin Range(list),
           Len(list) = Cardinality(Range(list))
    PROVE  /\ Range(Append(list, id)) = Range(list) \cup {id}
           /\ Len(Append(list, id)) = Cardinality(Range(Append(list, id)))
<1>1. Range(Append(list, id)) = Range(list) \cup {id}
  <2>1. /\ DOMAIN list = 1..Len(list)
        /\ DOMAIN Append(list, id) = 1..(Len(list) + 1)
        /\ Len(list) \in Nat
        /\ \A i \in 1..Len(list) : Append(list, id)[i] = list[i]
        /\ Append(list, id)[Len(list) + 1] = id
    OBVIOUS
  <2>2. 1..(Len(list) + 1) = 1..Len(list) \cup {Len(list) + 1}
    BY <2>1
  <2> QED BY <2>1, <2>2 DEF Range
<1>2. IsFiniteSet(Range(list))
  BY FiniteAssumption, FS_Subset DEF Range
<1>3. Cardinality(Range(list) \cup {id}) = Cardinality(Range(list)) + 1
  BY <1>2, FS_AddElement
<1> QED BY <1>1, <1>3

LEMMA CreateIndexes ==
    ASSUME IInv, OrdersAreIndexed, CreateOrder
    PROVE  OrdersAreIndexed'
<1>1. PICK u \in Users, id \in OrderIds, token \in Tokens, amount \in Amounts,
           value \in Values, chain \in Chains, config \in Configs, hash \in Hashes,
           timeout \in Timeouts :
              createTWAPOrder(u, id, token, amount, value, chain, config, hash, timeout)
  BY DEF CreateOrder
<1>2. /\ orders[id].user = NoUser
      /\ \E new : new.user = u /\ orders' = [orders EXCEPT ![id] = new]
      /\ userOrders' = [userOrders EXCEPT ![u] = Append(@, id)]
      /\ totalOrders' = totalOrders + 1
  BY <1>1 DEF createTWAPOrder, orderExists
<1>3. /\ orders \in [OrderIds -> Order] /\ userOrders \in [Users -> Seq(OrderIds)]
      /\ u # NoUser
  BY AddressAssumption DEF IInv, TypeOK
<1>4. \A other \in OrderIds : orders'[other].user = IF other = id THEN u ELSE orders[other].user
  BY <1>2, <1>3
<1>5. totalOrders' = Cardinality(Existing')
  <2>1. Existing' = Existing \cup {id} /\ id \notin Existing
    BY <1>2, <1>3, <1>4 DEF Existing
  <2> QED BY <1>2, <2>1, ExistingFinite, FS_AddElement DEF OrdersAreIndexed
<1>6. ASSUME NEW v \in Users
      PROVE  /\ Range(userOrders'[v]) = {other \in OrderIds : orders'[other].user = v}
             /\ Len(userOrders'[v]) = Cardinality(Range(userOrders'[v]))
  <2>1. /\ Range(userOrders[v]) = {other \in OrderIds : orders[other].user = v}
        /\ Len(userOrders[v]) = Cardinality(Range(userOrders[v]))
    BY DEF OrdersAreIndexed
  <2>2. CASE v = u
    <3>1. userOrders'[v] = Append(userOrders[v], id) /\ id \notin Range(userOrders[v])
      BY <1>2, <1>3, <2>1, <2>2
    <3>2. {other \in OrderIds : orders'[other].user = v}
             = {other \in OrderIds : orders[other].user = v} \cup {id}
      BY <1>4, <2>2
    <3>3. userOrders[v] \in Seq(OrderIds)
      BY <1>3
    <3>4. /\ Range(userOrders'[v]) = Range(userOrders[v]) \cup {id}
          /\ Len(userOrders'[v]) = Cardinality(Range(userOrders'[v]))
      BY <2>1, <3>1, <3>3, OneMoreOrder
    <3> QED BY <2>1, <3>2, <3>4
  <2>3. CASE v # u
    <3>1. userOrders'[v] = userOrders[v]
      BY <1>2, <1>3, <2>3
    <3>2. {other \in OrderIds : orders'[other].user = v}
             = {other \in OrderIds : orders[other].user = v}
      BY <1>2, <1>4, <2>3, AddressAssumption
    <3> QED BY <2>1, <3>1, <3>2
  <2> QED BY <2>2, <2>3
<1> QED BY <1>5, <1>6 DEF OrdersAreIndexed

\* The list of a user holds each of its orders once and nobody else's, and
\* totalOrders counts them all (FlowFusionBridge.sol createTWAPOrder).
THEOREM OrdersAreIndexedAlways == Spec => []OrdersAreIndexed
<1>1. Init => OrdersAreIndexed
  <2> SUFFICES ASSUME Init PROVE OrdersAreIndexed
    OBVIOUS
  <2>1. Existing = {} /\ \A u \in Users : {id \in OrderIds : orders[id].user = u} = {}
    BY AddressAssumption DEF Init, NoOrder, Existing
  <2>2. \A u \in Users : /\ userOrders[u] = <<>>
                         /\ Range(userOrders[u]) = {}
    BY DEF Init, Range
  <2> QED BY <2>1, <2>2, FS_EmptySet DEF OrdersAreIndexed, Init
<1>2. IInv /\ OrdersAreIndexed /\ [Next]_vars => OrdersAreIndexed'
  <2> SUFFICES ASSUME IInv, OrdersAreIndexed, [Next]_vars, ~CreateOrder
               PROVE  OrdersAreIndexed'
    BY CreateIndexes
  <2>1. IndexStands
    BY OnlyCreateIndexes
  <2>2. /\ Existing' = Existing
        /\ \A u \in Users : {id \in OrderIds : orders'[id].user = u}
                              = {id \in OrderIds : orders[id].user = u}
    BY <2>1 DEF IndexStands, Existing
  <2> QED BY <2>1, <2>2 DEF IndexStands, OrdersAreIndexed
<1> QED BY <1>1, <1>2, IInvHolds, PTL DEF Spec
-----------------------------------------------------------------------------
(* Money.                                                                  *)

\* the parts of the sums in Escrowed and VolumeIsPaidIn
Held == [id \in OrderIds |-> InEscrow(orders[id])]
Deposited == [id \in OrderIds |-> orders[id].sourceAmount]
OrdersIn(t) == {id \in Existing : orders[id].sourceToken = t}
HeldIn(t) == SumFunctionOnSet(Held, OrdersIn(t))
PaidIn == SumFunctionOnSet(Deposited, Existing)

LEMMA MoneyTypes ==
    ASSUME IInv
    PROVE  /\ \A id \in OrderIds : Held[id] \in Nat /\ Deposited[id] \in Nat
           /\ IsFiniteSet(Existing) /\ PaidIn \in Nat
           /\ \A t : IsFiniteSet(OrdersIn(t)) /\ HeldIn(t) \in Nat
<1>1. \A id \in OrderIds : Held[id] \in Nat /\ Deposited[id] \in Nat
  BY DEF IInv, TypeOK, Order, Held, Deposited, InEscrow
<1>2. IsFiniteSet(Existing) /\ Existing \subseteq OrderIds
  BY ExistingFinite DEF Existing
<1>3. \A t : IsFiniteSet(OrdersIn(t)) /\ OrdersIn(t) \subseteq OrderIds
  BY <1>2, FS_Subset DEF OrdersIn
<1>4. PaidIn \in Nat
  BY <1>1, <1>2, SumOfNaturals DEF PaidIn
<1>5. ASSUME NEW t PROVE HeldIn(t) \in Nat
  BY <1>1, <1>3, SumOfNaturals DEF HeldIn
<1> QED BY <1>1, <1>2, <1>3, <1>4, <1>5

\* An order that keeps its deposit and its token changes what is held in that
\* token by what it holds more or less.
LEMMA OrderMovesMoney ==
    ASSUME IInv, IInv', NEW id \in OrderIds, orderExists(id),
           \A other \in OrderIds : other # id => orders'[other] = orders[other],
           orders'[id].user = orders[id].user,
           orders'[id].sourceToken = orders[id].sourceToken,
           orders'[id].sourceAmount = orders[id].sourceAmount
    PROVE  /\ PaidIn' = PaidIn
           /\ \A t : HeldIn(t)' = IF t = orders[id].sourceToken
                                  THEN HeldIn(t) + (Held'[id] - Held[id])
                                  ELSE HeldIn(t)
<1>1. /\ Existing' = Existing /\ id \in Existing
      /\ \A t : OrdersIn(t)' = OrdersIn(t)
      /\ Existing \subseteq OrderIds /\ \A t : OrdersIn(t) \subseteq OrderIds
  BY DEF Existing, OrdersIn, orderExists
<1>2. /\ \A other \in OrderIds : Deposited'[other] = Deposited[other]
      /\ \A other \in OrderIds : other # id => Held'[other] = Held[other]
  BY DEF Deposited, Held
<1>3. /\ \A other \in OrderIds : Held[other] \in Nat /\ Held'[other] \in Nat
      /\ IsFiniteSet(Existing) /\ \A t : IsFiniteSet(OrdersIn(t))
  <2>1. \A other \in OrderIds : Held'[other] \in Nat
    BY DEF IInv, TypeOK, Order, Held, InEscrow
  <2> QED BY <2>1, MoneyTypes
<1>4. PaidIn' = PaidIn
  <2>1. SumFunctionOnSet(Deposited', Existing) = SumFunctionOnSet(Deposited, Existing)
    BY <1>1, <1>2, <1>3, SumOfSame
  <2> QED BY <1>1, <2>1 DEF PaidIn
<1>5. ASSUME NEW t
      PROVE  HeldIn(t)' = IF t = orders[id].sourceToken
                          THEN HeldIn(t) + (Held'[id] - Held[id]) ELSE HeldIn(t)
  <2>1. HeldIn(t)' = SumFunctionOnSet(Held', OrdersIn(t))
    BY <1>1 DEF HeldIn
  <2>2. CASE t = orders[id].sourceToken
    <3>1. id \in OrdersIn(t)
      BY <1>1, <2>2 DEF OrdersIn
    <3>2. SumFunctionOnSet(Held', OrdersIn(t))
             = SumFunctionOnSet(Held, OrdersIn(t)) + (Held'[id] - Held[id])
      BY <1>1, <1>2, <1>3, <3>1, SumOfChanged
    <3> QED BY <2>1, <2>2, <3>2 DEF HeldIn
  <2>3. CASE t # orders[id].sourceToken
    <3>1. id \notin OrdersIn(t)
      BY <2>3 DEF OrdersIn
    <3>2. SumFunctionOnSet(Held', OrdersIn(t)) = SumFunctionOnSet(Held, OrdersIn(t))
      BY <1>1, <1>2, <1>3, <3>1, SumOfSame
    <3> QED BY <2>1, <2>3, <3>2 DEF HeldIn
  <2> QED BY <2>2, <2>3
<1> QED BY <1>4, <1>5

\* A new order adds its deposit.
LEMMA OrderBringsMoney ==
    ASSUME IInv, IInv', NEW id \in OrderIds, ~orderExists(id),
           \A other \in OrderIds : other # id => orders'[other] = orders[other],
           orders'[id].user # NoUser, orders'[id].status = "Executing"
    PROVE  /\ PaidIn' = PaidIn + orders'[id].sourceAmount
           /\ \A t : HeldIn(t)' = IF t = orders'[id].sourceToken
                                  THEN HeldIn(t) + orders'[id].sourceAmount
                                  ELSE HeldIn(t)
<1>1. /\ Existing' = Existing \cup {id} /\ id \notin Existing
      /\ \A t : OrdersIn(t)' = IF t = orders'[id].sourceToken
                               THEN OrdersIn(t) \cup {id} ELSE OrdersIn(t)
      /\ \A t : id \notin OrdersIn(t)
      /\ Existing \subseteq OrderIds /\ \A t : OrdersIn(t) \subseteq OrderIds
  BY DEF Existing, OrdersIn, orderExists
<1>2. /\ \A other \in Existing : Deposited'[other] = Deposited[other]
      /\ \A t : \A other \in OrdersIn(t) : Held'[other] = Held[other]
  BY <1>1 DEF Deposited, Held
<1>3. /\ \A other \in OrderIds : Held[other] \in Nat /\ Held'[other] \in Nat
      /\ \A other \in OrderIds : Deposited[other] \in Nat /\ Deposited'[other] \in Nat
      /\ IsFiniteSet(Existing) /\ \A t : IsFiniteSet(OrdersIn(t))
  <2>1. \A other \in OrderIds : Held'[other] \in Nat /\ Deposited'[other] \in Nat
    BY DEF IInv, TypeOK, Order, Held, Deposited, InEscrow
  <2> QED BY <2>1, MoneyTypes
<1>4. Deposited'[id] = orders'[id].sourceAmount /\ Held'[id] = orders'[id].sourceAmount
  BY DEF Deposited, Held, InEscrow
<1>5. PaidIn' = PaidIn + orders'[id].sourceAmount
  <2>1. SumFunctionOnSet(Deposited', Existing \cup {id})
           = SumFunctionOnSet(Deposited', Existing) + Deposited'[id]
    BY <1>1, <1>3, SumWith
  <2>2. SumFunctionOnSet(Deposited', Existing) = SumFunctionOnSet(Deposited, Existing)
    BY <1>2, <1>3, SumOfSame
  <2> QED BY <1>1, <1>4, <2>1, <2>2 DEF PaidIn
<1>6. ASSUME NEW t
      PROVE  HeldIn(t)' = IF t = orders'[id].sourceToken
                          THEN HeldIn(t) + orders'[id].sourceAmount ELSE HeldIn(t)
  <2>1. SumFunctionOnSet(Held', OrdersIn(t)) = SumFunctionOnSet(Held, OrdersIn(t))
    BY <1>2, <1>3, SumOfSame
  <2>2. CASE t = orders'[id].sourceToken
    <3>1. SumFunctionOnSet(Held', OrdersIn(t) \cup {id})
             = SumFunctionOnSet(Held', OrdersIn(t)) + Held'[id]
      BY <1>1, <1>3, SumWith
    <3> QED BY <1>1, <1>4, <2>1, <2>2, <3>1 DEF HeldIn
  <2>3. CASE t # orders'[id].sourceToken
    BY <1>1, <2>1, <2>3 DEF HeldIn
  <2> QED BY <2>2, <2>3
<1> QED BY <1>5, <1>6

\* Where no order changes, neither does any sum over them.
LEMMA MoneyRests ==
    ASSUME orders' = orders
    PROVE  PaidIn' = PaidIn /\ \A t : HeldIn(t)' = HeldIn(t)
BY DEF PaidIn, HeldIn, Deposited, Held, OrdersIn, Existing

LEMMA CreateMoney ==
    ASSUME IInv, IInv', CreateOrder
    PROVE  (Escrowed => Escrowed') /\ (VolumeIsPaidIn => VolumeIsPaidIn')
<1>1. PICK u \in Users, id \in OrderIds, token \in Tokens, amount \in Amounts,
           value \in Values, chain \in Chains, config \in Configs, hash \in Hashes,
           timeout \in Timeouts :
              createTWAPOrder(u, id, token, amount, value, chain, config, hash, timeout)
  BY DEF CreateOrder
<1> DEFINE fee == protocolFee(amount)
           net == netAmount(amount)
           unasked == IF token = ETH THEN 0 ELSE value
<1>2. /\ amount \in Nat /\ unasked \in Nat /\ fee \in Nat /\ net \in Nat /\ net = amount - fee
  <2>1. amount \in Nat /\ value \in Nat
    BY InputAssumption
  <2>2. settings.protocolFeeRate \in 0..MAX_FEE_RATE /\ amount >= MIN_EXECUTION_AMOUNT
    BY <1>1 DEF IInv, TypeOK, Settings, createTWAPOrder
  <2> QED BY <2>1, <2>2, FeeIsSmall DEF protocolFee, netAmount
<1>3. /\ ~orderExists(id)
      /\ orders'[id].user = u /\ u # NoUser
      /\ orders'[id].status = "Executing"
      /\ orders'[id].sourceToken = token
      /\ orders'[id].sourceAmount = net
      /\ \A other \in OrderIds : other # id => orders'[other] = orders[other]
  BY <1>1, AddressAssumption DEF createTWAPOrder, IInv, TypeOK
<1>4. /\ balance' = [t \in Tokens |-> balance[t] + (IF t = token THEN net ELSE 0)
                                                 + (IF t = ETH THEN unasked ELSE 0)]
      /\ collected' = [collected EXCEPT ![token] = @ + fee]
      /\ stray' = [stray EXCEPT ![ETH] = @ + unasked]
      /\ totalVolume' = totalVolume + amount
      /\ withdrawn' = withdrawn
  BY <1>1 DEF createTWAPOrder
<1>5. /\ PaidIn' = PaidIn + net
      /\ \A t : HeldIn(t)' = IF t = token THEN HeldIn(t) + net ELSE HeldIn(t)
  BY <1>3, OrderBringsMoney
<1>6. /\ PaidIn \in Nat /\ \A t : HeldIn(t) \in Nat
      /\ balance \in [Tokens -> Nat] /\ stray \in [Tokens -> Nat]
      /\ collected \in [Tokens -> Nat] /\ withdrawn \in [Tokens -> Nat]
      /\ totalVolume \in Nat
  BY MoneyTypes DEF IInv, TypeOK
<1> HIDE DEF net, fee, unasked
<1>7. ASSUME Escrowed, NEW t \in Tokens
      PROVE  balance'[t] + withdrawn'[t] = stray'[t] + HeldIn(t)'
  <2>1. balance[t] + withdrawn[t] = stray[t] + HeldIn(t)
    BY <1>7 DEF Escrowed, HeldIn, Held, OrdersIn
  <2>2. balance'[t] = balance[t] + (IF t = token THEN net ELSE 0)
                                 + (IF t = ETH THEN unasked ELSE 0)
    BY <1>4
  <2>3. stray'[t] = stray[t] + (IF t = ETH THEN unasked ELSE 0)
    BY <1>2, <1>4, <1>6
  <2>4. HeldIn(t)' = HeldIn(t) + (IF t = token THEN net ELSE 0)
    BY <1>5, <1>6
  <2> QED BY <1>2, <1>4, <1>6, <2>1, <2>2, <2>3, <2>4
<1>8. ASSUME VolumeIsPaidIn PROVE VolumeIsPaidIn'
  <2>1. SumFunctionOnSet(collected', Tokens) = SumFunctionOnSet(collected, Tokens) + fee
    <3>1. /\ \A t \in Tokens : collected[t] \in Int /\ collected'[t] \in Int
          /\ \A t \in Tokens \ {token} : collected'[t] = collected[t]
          /\ collected'[token] - collected[token] = fee
      BY <1>2, <1>4, <1>6
    <3>2. SumFunctionOnSet(collected', Tokens) =
             SumFunctionOnSet(collected, Tokens) + (collected'[token] - collected[token])
      BY <3>1, FiniteAssumption, SumOfChanged
    <3> QED BY <3>1, <3>2
  <2>2. SumFunctionOnSet(collected, Tokens) \in Nat
    BY <1>6, FiniteAssumption, SumOfNaturals
  <2>3. totalVolume = PaidIn + SumFunctionOnSet(collected, Tokens)
    BY <1>8 DEF VolumeIsPaidIn, PaidIn, Deposited
  <2>4. totalVolume' = PaidIn' + SumFunctionOnSet(collected', Tokens)
    BY <1>2, <1>4, <1>5, <1>6, <2>1, <2>2, <2>3
  <2> QED BY <2>4 DEF VolumeIsPaidIn, PaidIn, Deposited
<1> QED BY <1>7, <1>8 DEF Escrowed, HeldIn, Held, OrdersIn

\* A step that neither opens an order nor collects a fee leaves the volume.
LEMMA VolumeStands ==
    ASSUME PaidIn' = PaidIn, UNCHANGED <<totalVolume, collected>>, VolumeIsPaidIn
    PROVE  VolumeIsPaidIn'
BY DEF VolumeIsPaidIn, PaidIn, Deposited

\* What every token's books say, as Escrowed does.
LEMMA EscrowedBooks ==
    Escrowed <=> \A t \in Tokens : balance[t] + withdrawn[t] = stray[t] + HeldIn(t)
BY DEF Escrowed, HeldIn, Held, OrdersIn

LEMMA ExecuteMoney ==
    ASSUME IInv, IInv', ExecuteInterval
    PROVE  (Escrowed => Escrowed') /\ (VolumeIsPaidIn => VolumeIsPaidIn')
<1>1. PICK e \in Executors, id \in OrderIds, amount \in Amounts, price \in Prices :
         executeTWAPInterval(e, id, amount, price)
  BY DEF ExecuteInterval
<1> DEFINE new == fill(orders[id], amount, price)
<1>2. /\ orderExists(id) /\ orders[id].status = "Executing"
      /\ orders' = [orders EXCEPT ![id] = new]
      /\ UNCHANGED <<totalVars, moneyVars>>
  BY <1>1 DEF executeTWAPInterval, orderActive
<1>3. orders \in [OrderIds -> Order] /\ orders[id] \in Order
  BY DEF IInv, TypeOK
<1>4. /\ new.user = orders[id].user
      /\ new.sourceToken = orders[id].sourceToken
      /\ new.sourceAmount = orders[id].sourceAmount
      /\ new.status \in {"Completed", orders[id].status}
  BY <1>3 DEF fill, Order
<1> HIDE DEF new
<1>5. orders'[id] = new /\ \A other \in OrderIds : other # id => orders'[other] = orders[other]
  BY <1>2, <1>3
<1>6. Held'[id] = Held[id]
  BY <1>2, <1>4, <1>5 DEF Held, InEscrow
<1>7. PaidIn' = PaidIn /\ \A t : HeldIn(t)' = HeldIn(t)
  <2>1. Held[id] \in Nat /\ \A t : HeldIn(t) \in Nat
    BY MoneyTypes
  <2> QED BY <1>2, <1>4, <1>5, <1>6, <2>1, OrderMovesMoney
<1>8. UNCHANGED <<totalVolume, collected, balance, withdrawn, stray>>
  BY <1>2 DEF totalVars, moneyVars
<1>9. Escrowed => \A t \in Tokens : balance'[t] + withdrawn'[t] = stray'[t] + HeldIn(t)'
  BY <1>7, <1>8, EscrowedBooks
<1> QED BY <1>7, <1>8, <1>9, VolumeStands DEF Escrowed, HeldIn, Held, OrdersIn

LEMMA CloseMoney ==
    ASSUME IInv, IInv', NEW id \in OrderIds, orderExists(id),
           NEW status \in {"Cancelled", "Claimed"},
           orders[id].status = IF status = "Cancelled" THEN "Executing" ELSE "Completed",
           orders' = [orders EXCEPT ![id] = [orders[id] EXCEPT !.status = status]]
    PROVE  /\ PaidIn' = PaidIn
           /\ \A t : HeldIn(t)' =
                  IF t = orders[id].sourceToken /\ status = "Cancelled"
                  THEN HeldIn(t) - Remaining(orders[id]) ELSE HeldIn(t)
<1>1. orders \in [OrderIds -> Order] /\ orders[id] \in Order
  BY DEF IInv, TypeOK
<1> DEFINE new == [orders[id] EXCEPT !.status = status]
<1>2. /\ new.user = orders[id].user
      /\ new.sourceToken = orders[id].sourceToken
      /\ new.sourceAmount = orders[id].sourceAmount
      /\ new.executedAmount = orders[id].executedAmount
      /\ new.status = status
      /\ orders[id].sourceAmount \in Nat /\ orders[id].executedAmount \in Nat
  BY <1>1 DEF Order
<1>3. orders'[id] = new /\ \A other \in OrderIds : other # id => orders'[other] = orders[other]
  BY <1>1
<1> HIDE DEF new
<1>4. Held'[id] - Held[id] = IF status = "Cancelled" THEN -Remaining(orders[id]) ELSE 0
  BY <1>2, <1>3 DEF Held, InEscrow, Remaining
<1>5. /\ PaidIn' = PaidIn
      /\ \A t : HeldIn(t)' = IF t = orders[id].sourceToken
                             THEN HeldIn(t) + (Held'[id] - Held[id]) ELSE HeldIn(t)
  BY <1>2, <1>3, OrderMovesMoney
<1>6. Remaining(orders[id]) \in Int /\ \A t : HeldIn(t) \in Nat
  BY <1>2, MoneyTypes DEF Remaining
<1> DEFINE rest == Remaining(orders[id])
           moved == Held'[id] - Held[id]
<1> HIDE DEF rest, moved
<1>7. ASSUME NEW t
      PROVE  HeldIn(t)' = IF t = orders[id].sourceToken /\ status = "Cancelled"
                          THEN HeldIn(t) - rest ELSE HeldIn(t)
  <2>1. /\ moved = (IF status = "Cancelled" THEN -rest ELSE 0)
        /\ HeldIn(t)' = IF t = orders[id].sourceToken THEN HeldIn(t) + moved ELSE HeldIn(t)
        /\ rest \in Int /\ HeldIn(t) \in Nat
    BY <1>4, <1>5, <1>6 DEF rest, moved
  <2> QED BY <2>1
<1> QED BY <1>5, <1>7 DEF rest

LEMMA CancelMoney ==
    ASSUME IInv, IInv', NEW id \in OrderIds, cancelOrder(id)
    PROVE  (Escrowed => Escrowed') /\ (VolumeIsPaidIn => VolumeIsPaidIn')
<1> DEFINE token == orders[id].sourceToken
           refund == Remaining(orders[id])
<1>1. /\ orderExists(id) /\ orders[id].status = "Executing"
      /\ refund > 0 /\ refund <= balance[token]
      /\ orders' = [orders EXCEPT ![id] = [orders[id] EXCEPT !.status = "Cancelled"]]
      /\ balance' = [balance EXCEPT ![token] = @ - refund]
      /\ UNCHANGED <<totalVolume, collected, withdrawn, stray>>
  BY DEF cancelOrder, orderActive, totalVars
<1>2. /\ PaidIn' = PaidIn
      /\ \A t : HeldIn(t)' = IF t = token THEN HeldIn(t) - refund ELSE HeldIn(t)
  BY <1>1, CloseMoney
<1>3. /\ refund \in Int /\ \A t : HeldIn(t) \in Nat
      /\ balance \in [Tokens -> Nat] /\ stray \in [Tokens -> Nat]
      /\ withdrawn \in [Tokens -> Nat]
  <2>1. orders[id].sourceAmount \in Nat /\ orders[id].executedAmount \in Nat
    BY DEF IInv, TypeOK, Order
  <2>2. refund \in Int
    BY <2>1 DEF Remaining
  <2> HIDE DEF refund
  <2>3. \A t : HeldIn(t) \in Nat
    BY MoneyTypes
  <2> QED BY <2>2, <2>3 DEF IInv, TypeOK
<1> HIDE DEF refund, token
<1>4. ASSUME Escrowed, NEW t \in Tokens
      PROVE  balance'[t] + withdrawn'[t] = stray'[t] + HeldIn(t)'
  <2>1. balance[t] + withdrawn[t] = stray[t] + HeldIn(t)
    BY <1>4, EscrowedBooks
  <2>2. balance'[t] = IF t = token THEN balance[t] - refund ELSE balance[t]
    BY <1>1, <1>3
  <2> QED BY <1>1, <1>2, <1>3, <2>1, <2>2
<1> QED BY <1>1, <1>2, <1>4, VolumeStands DEF Escrowed, HeldIn, Held, OrdersIn

LEMMA ClaimMoney ==
    ASSUME IInv, IInv', NEW id \in OrderIds, NEW secret \in Secrets, claimHTLC(id, secret)
    PROVE  (Escrowed => Escrowed') /\ (VolumeIsPaidIn => VolumeIsPaidIn')
<1>1. /\ orderExists(id) /\ orders[id].status = "Completed"
      /\ orders' = [orders EXCEPT ![id] = [orders[id] EXCEPT !.status = "Claimed"]]
      /\ UNCHANGED <<totalVolume, collected, balance, withdrawn, stray>>
  BY DEF claimHTLC, totalVars, moneyVars
<1>2. PaidIn' = PaidIn /\ \A t : HeldIn(t)' = HeldIn(t)
  BY <1>1, CloseMoney
<1>3. Escrowed => \A t \in Tokens : balance'[t] + withdrawn'[t] = stray'[t] + HeldIn(t)'
  BY <1>1, <1>2, EscrowedBooks
<1> QED BY <1>1, <1>2, <1>3, VolumeStands DEF Escrowed, HeldIn, Held, OrdersIn

\* Tokens that come or go outside of any order.
LEMMA OutsideMoney ==
    ASSUME IInv, NEW token \in Tokens, NEW amount \in Transfers,
           emergencyWithdraw(token, amount) \/ receiveTokens(token, amount)
    PROVE  (Escrowed => Escrowed') /\ (VolumeIsPaidIn => VolumeIsPaidIn')
<1>1. orders' = orders /\ UNCHANGED <<totalVolume, collected>>
  BY DEF emergencyWithdraw, receiveTokens, orderVars, totalVars
<1>2. PaidIn' = PaidIn /\ \A t : HeldIn(t)' = HeldIn(t)
  BY <1>1, MoneyRests
<1>3. /\ amount \in Nat /\ \A t : HeldIn(t) \in Nat
      /\ balance \in [Tokens -> Nat] /\ stray \in [Tokens -> Nat]
      /\ withdrawn \in [Tokens -> Nat]
  BY MoneyTypes, InputAssumption DEF IInv, TypeOK
<1>4. ASSUME Escrowed, NEW t \in Tokens
      PROVE  balance'[t] + withdrawn'[t] = stray'[t] + HeldIn(t)'
  <2>1. balance[t] + withdrawn[t] = stray[t] + HeldIn(t)
    BY <1>4, EscrowedBooks
  <2>2. CASE emergencyWithdraw(token, amount)
    <3>1. /\ balance'[t] = IF t = token THEN balance[t] - amount ELSE balance[t]
          /\ withdrawn'[t] = IF t = token THEN withdrawn[t] + amount ELSE withdrawn[t]
          /\ stray' = stray
      BY <1>3, <2>2 DEF emergencyWithdraw
    <3> QED BY <1>2, <1>3, <2>1, <3>1
  <2>3. CASE receiveTokens(token, amount)
    <3>1. /\ balance'[t] = IF t = token THEN balance[t] + amount ELSE balance[t]
          /\ stray'[t] = IF t = token THEN stray[t] + amount ELSE stray[t]
          /\ withdrawn' = withdrawn
      BY <1>3, <2>3 DEF receiveTokens
    <3> QED BY <1>2, <1>3, <2>1, <3>1
  <2> QED BY <2>2, <2>3
<1> QED BY <1>1, <1>2, <1>4, VolumeStands DEF Escrowed, HeldIn, Held, OrdersIn

LEMMA MoneyStep ==
    ASSUME IInv, IInv', [Next]_vars
    PROVE  (Escrowed => Escrowed') /\ (VolumeIsPaidIn => VolumeIsPaidIn')
<1>1. ASSUME Administer \/ UNCHANGED vars \/ \E tick \in Ticks : NewBlock(tick)
      PROVE  (Escrowed => Escrowed') /\ (VolumeIsPaidIn => VolumeIsPaidIn')
  <2>1. orders' = orders /\ UNCHANGED <<totalVolume, collected, balance, withdrawn, stray>>
    BY <1>1 DEF Administer, NewBlock, vars, orderVars, totalVars, moneyVars
  <2>2. PaidIn' = PaidIn /\ \A t : HeldIn(t)' = HeldIn(t)
    BY <2>1, MoneyRests
  <2>3. Escrowed => \A t \in Tokens : balance'[t] + withdrawn'[t] = stray'[t] + HeldIn(t)'
    BY <2>1, <2>2, EscrowedBooks
  <2> QED BY <2>1, <2>2, <2>3, VolumeStands DEF Escrowed, HeldIn, Held, OrdersIn
<1> QED BY <1>1, CreateMoney, ExecuteMoney, CancelMoney, ClaimMoney, OutsideMoney DEF Next

LEMMA NoMoneyYet == Init => Escrowed /\ VolumeIsPaidIn
<1> SUFFICES ASSUME Init PROVE Escrowed /\ VolumeIsPaidIn
  OBVIOUS
<1>1. Existing = {}
  BY DEF Init, Existing, NoOrder
<1>2. PaidIn = 0 /\ \A t : HeldIn(t) = 0
  <2>1. \A t : OrdersIn(t) = {}
    BY <1>1 DEF OrdersIn
  <2> QED BY <1>1, <2>1, SumOfNothing DEF PaidIn, HeldIn
<1>3. SumFunctionOnSet(collected, Tokens) = 0
  <2>1. \A t \in Tokens : collected[t] = 0 /\ collected[t] \in Int /\ collected[t] = 0 * collected[t]
    BY DEF Init
  <2>2. SumFunctionOnSet(collected, Tokens) = 0 * SumFunctionOnSet(collected, Tokens)
    BY <2>1, FiniteAssumption, SumOfMultiples
  <2>3. SumFunctionOnSet(collected, Tokens) \in Int
    BY <2>1, FiniteAssumption, SumOfIntegers
  <2> QED BY <2>2, <2>3
<1>4. VolumeIsPaidIn
  BY <1>2, <1>3 DEF Init, VolumeIsPaidIn, PaidIn, Deposited
<1>5. \A t \in Tokens : balance[t] + withdrawn[t] = stray[t] + HeldIn(t)
  BY <1>2 DEF Init
<1> QED BY <1>4, <1>5, EscrowedBooks

\* Fees, refunds, withdrawals and tokens that come unasked never eat into what
\* the contract holds for its orders (FlowFusionBridge.sol cancelOrder,
\* emergencyWithdraw).
THEOREM EscrowedAlways == Spec => []Escrowed
<1>1. IInv /\ IInv' /\ Escrowed /\ [Next]_vars => Escrowed'
  BY MoneyStep
<1> QED BY <1>1, NoMoneyYet, IInvHolds, PTL DEF Spec

\* totalVolume is what the orders deposited and the fees that were collected
\* (FlowFusionBridge.sol createTWAPOrder).
THEOREM VolumeIsPaidInAlways == Spec => []VolumeIsPaidIn
<1>1. IInv /\ IInv' /\ VolumeIsPaidIn /\ [Next]_vars => VolumeIsPaidIn'
  BY MoneyStep
<1> QED BY <1>1, NoMoneyYet, IInvHolds, PTL DEF Spec
=============================================================================
