-------------------------- MODULE FlowFusionBridge --------------------------
(***************************************************************************)
(* The bridge contract FlowFusionBridge.sol: users deposit tokens into     *)
(* TWAP orders, authorized executors fill them interval by interval, the   *)
(* owner of an order cancels it for a refund or anyone who knows the HTLC  *)
(* secret claims it once it is completed, and the contract's owner         *)
(* administers chains, executors, fees, limits and emergencies.            *)
(*                                                                         *)
(* A transaction of the chain is atomic and the chain serialises them, so  *)
(* each external function is one action; a reverted call changes nothing   *)
(* and is no step.  Between transactions the chain grows (NewBlock).       *)
(*                                                                         *)
(* Left out: order ids are fresh values of OrderIds instead of keccak256   *)
(* hashes over orderNonce (which counts exactly like totalOrders), the     *)
(* recipient and target token strings, createdAt, gas, events, and 2^256   *)
(* overflow (checked arithmetic reverts long after every bound used here). *)
(***************************************************************************)
EXTENDS Integers, Sequences, FiniteSets, FiniteSetsExt

CONSTANTS
    Users,            \* addresses that create orders
    NoUser,           \* address(0)
    Executors,        \* addresses the owner may authorize
    Collectors,       \* addresses the owner may name fee collector
    Chains,           \* target chain names
    OrderIds,         \* bound: the order ids that can still be drawn
    Tokens, ETH,      \* source tokens, among them address(0) for ether
    Secrets, Hashes, NoHash, HashOf  \* HTLC secrets, and keccak256 on them

\* What callers may pass, and how the chain may grow.
CONSTANTS
    Amounts, Values, Prices, Configs, Timeouts, FeeRates, Limits,
    Transfers,        \* amounts sent to the contract outside of any order
    MaxStray,         \* bound: how much may be sent that way, per token
    Ticks,            \* <<blocks, seconds>> that pass between transactions
    GenesisTime,      \* block.timestamp at deployment
    MaxTime           \* bound: the latest block.timestamp

BASIS_POINTS            == 10000
MAX_SLIPPAGE            == 1000
MIN_WINDOW_MINUTES      == 5
MAX_WINDOW_MINUTES      == 1440
MAX_EXECUTION_INTERVALS == 20
MIN_EXECUTION_AMOUNT    == 1000
MAX_FEE_RATE            == 100
TIMEOUT_MARGIN          == 100

Status == {"Executing", "Completed", "Cancelled", "Expired", "Claimed"}

Config == [windowMinutes : Nat, executionIntervals : Nat,
           maxSlippage : Nat, minFillSize : Nat]

Order == [user : Users \cup {NoUser}, sourceToken : Tokens,
          sourceAmount : Nat, twapConfig : Config,
          htlcHash : Hashes \cup {NoHash}, timeoutHeight : Nat,
          executedAmount : Nat, lastExecution : Nat,
          status : Status, averagePrice : Nat]

Settings == [supportedChains : SUBSET Chains,
             authorizedExecutors : SUBSET Executors,
             feeCollector : Collectors, protocolFeeRate : 0..MAX_FEE_RATE,
             maxOrdersPerUser : Nat \ {0}, paused : BOOLEAN]

ExecutionRecord == [timestamp : Nat, amount : Nat, price : Nat, slippage : Nat]

ASSUME AddressAssumption == /\ NoUser \notin Users
                            /\ ETH \in Tokens
                            /\ NoHash \notin Hashes
                            /\ HashOf \in [Secrets -> Hashes]

ASSUME InputAssumption == /\ Amounts \subseteq Nat
                          /\ Values \subseteq Nat
                          /\ Prices \subseteq Nat
                          /\ Configs \subseteq Config
                          /\ Timeouts \subseteq Nat
                          /\ FeeRates \subseteq Nat
                          /\ Limits \subseteq Nat
                          /\ Transfers \subseteq Nat

\* block.timestamp is Unix time: it is larger than any window, so that
\* _calculateTWAP's checked subtraction never reverts, and never 0, the value
\* lastExecution uses for "not executed yet".
ASSUME ClockAssumption == /\ GenesisTime \in Nat
                          /\ GenesisTime >= MAX_WINDOW_MINUTES * 60
                          /\ Ticks \subseteq (Nat \X Nat)
                          /\ MaxTime \in Nat
                          /\ MaxStray \in Nat

ASSUME FiniteAssumption == IsFiniteSet(OrderIds) /\ IsFiniteSet(Tokens)

VARIABLES
    orders, executionHistory,        \* per order id
    userOrders, userOrderCount,      \* per user
    totalOrders, totalVolume,
    settings,                        \* what the owner administers
    block, now,                      \* block.number and block.timestamp
    balance,                         \* tokens the contract owns
    collected, withdrawn, stray      \* what fee collectors received, what the
                                     \* owner withdrew, what arrived unasked

orderVars == <<orders, executionHistory>>
userVars  == <<userOrders, userOrderCount>>
totalVars == <<totalOrders, totalVolume>>
clockVars == <<block, now>>
moneyVars == <<balance, collected, withdrawn, stray>>
vars == <<orderVars, userVars, totalVars, settings, clockVars, moneyVars>>

-----------------------------------------------------------------------------
(* Mappings start with the zero value, whose status is the first of the    *)
(* enumeration, Executing: only the owner's address tells that an order    *)
(* exists.                                                                 *)
(*                                                                         *)
(* Definitions whose name has an underscore, f_Variant before f, are f     *)
(* with a slip in it: they are used nowhere, and putting one in the place  *)
(* of f makes a property below fail.                                       *)

NoConfig == [windowMinutes |-> 0, executionIntervals |-> 0,
             maxSlippage |-> 0, minFillSize |-> 0]

NoOrder == [user |-> NoUser, sourceToken |-> ETH, sourceAmount |-> 0,
            twapConfig |-> NoConfig, htlcHash |-> NoHash, timeoutHeight |-> 0,
            executedAmount |-> 0, lastExecution |-> 0,
            status |-> "Executing", averagePrice |-> 0]

orderExists_ByAmount(id) == orders[id].sourceAmount > orders[id].executedAmount
orderExists(id) == orders[id].user # NoUser

\* the modifier orderActive, and cancelOrder's own check of the same
orderActive_UntilClaimed(order) == order.status # "Claimed"
orderActive(order) == order.status = "Executing"

Remaining_ForgetsExecuted(order) == order.sourceAmount
Remaining(order) == order.sourceAmount - order.executedAmount

\* an interval may fall below the minimum fill only to finish the order
meetsMinimumFill_NearTheEnd(order, amount) ==
    \/ amount >= order.twapConfig.minFillSize
    \/ Remaining(order) - amount < order.twapConfig.minFillSize
meetsMinimumFill(order, amount) ==
    \/ amount >= order.twapConfig.minFillSize
    \/ amount = Remaining(order)

Init ==
    /\ orders = [id \in OrderIds |-> NoOrder]
    /\ executionHistory = [id \in OrderIds |-> <<>>]
    /\ userOrders = [u \in Users |-> <<>>]
    /\ userOrderCount = [u \in Users |-> 0]
    /\ totalOrders = 0
    /\ totalVolume = 0
    /\ settings \in [supportedChains : {Chains}, authorizedExecutors : {{}},
                    feeCollector : Collectors,
                    protocolFeeRate : {r \in FeeRates : r <= MAX_FEE_RATE},
                    maxOrdersPerUser : {100}, paused : {FALSE}]
    /\ block = 1
    /\ now = GenesisTime
    /\ balance   = [t \in Tokens |-> 0]
    /\ collected = [t \in Tokens |-> 0]
    /\ withdrawn = [t \in Tokens |-> 0]
    /\ stray     = [t \in Tokens |-> 0]

-----------------------------------------------------------------------------
(* Pricing, in integer arithmetic with truncating division.                *)

validTWAPConfig(config) ==
    /\ config.windowMinutes \in MIN_WINDOW_MINUTES..MAX_WINDOW_MINUTES
    /\ config.executionIntervals \in 2..MAX_EXECUTION_INTERVALS
    /\ config.maxSlippage <= MAX_SLIPPAGE
    /\ config.minFillSize > 0

getIntervalDuration(config) ==
    (config.windowMinutes * 60) \div config.executionIntervals

protocolFee(amount) == (amount * settings.protocolFeeRate) \div BASIS_POINTS

netAmount_Gross(amount) == amount
netAmount(amount) == amount - protocolFee(amount)

\* The weight of a record is the time since the record before it, also when
\* that one is outside the window; the very first record weighs 1.
recordWeight(history, i) ==
    IF i = 1 THEN 1 ELSE history[i].timestamp - history[i-1].timestamp

calculateTWAP(id) ==
    LET history == executionHistory[id]
        windowStart == now - orders[id].twapConfig.windowMinutes * 60
        inWindow == {i \in DOMAIN history : history[i].timestamp >= windowStart}
        weight == [i \in DOMAIN history |-> recordWeight(history, i)]
        value == [i \in DOMAIN history |-> history[i].price * recordWeight(history, i)]
        totalWeight == SumFunctionOnSet(weight, inWindow)
        totalValue == SumFunctionOnSet(value, inWindow)
    IN  IF totalWeight > 0 THEN totalValue \div totalWeight ELSE 0

calculateSlippage_Downwards(expected, actual) ==
    IF expected > actual THEN ((expected - actual) * BASIS_POINTS) \div expected
                         ELSE 0
calculateSlippage(expected, actual) ==
    IF expected = 0 THEN 0
    ELSE LET diff == IF expected > actual THEN expected - actual
                                          ELSE actual - expected
         IN  (diff * BASIS_POINTS) \div expected

\* The executed amount passed in already contains the new amount: the caller
\* has added it before.
calculateWeightedAveragePrice_ShortDivisor(average, executed, price, amount) ==
    ((average * executed) + (price * amount)) \div executed
calculateWeightedAveragePrice(average, executed, price, amount) ==
    ((average * executed) + (price * amount)) \div (executed + amount)

-----------------------------------------------------------------------------
(* Orders.                                                                 *)

\* A cancelled or claimed order no longer counts against its user's limit.
releaseSlot_Never(u) == userOrderCount
releaseSlot(u) == [userOrderCount EXCEPT ![u] = @ - 1]

createTWAPOrder(u, id, token, amount, value, chain, config, hash, timeout) ==
    LET fee == protocolFee(amount)
        net == netAmount(amount)
        \* ether sent along with a token order is accepted and kept
        unasked == IF token = ETH THEN 0 ELSE value
    IN
    /\ ~settings.paused
    /\ amount >= MIN_EXECUTION_AMOUNT
    /\ chain \in settings.supportedChains
    /\ hash # NoHash
    /\ timeout > block + TIMEOUT_MARGIN
    /\ userOrderCount[u] < settings.maxOrdersPerUser
    /\ validTWAPConfig(config)
    /\ ~orderExists(id)
    /\ token = ETH => value = amount
    /\ orders' = [orders EXCEPT ![id] =
           [user |-> u, sourceToken |-> token, sourceAmount |-> net,
            twapConfig |-> config, htlcHash |-> hash, timeoutHeight |-> timeout,
            executedAmount |-> 0, lastExecution |-> 0,
            status |-> "Executing", averagePrice |-> 0]]
    /\ userOrders' = [userOrders EXCEPT ![u] = Append(@, id)]
    /\ userOrderCount' = [userOrderCount EXCEPT ![u] = @ + 1]
    /\ totalOrders' = totalOrders + 1
    /\ totalVolume' = totalVolume + amount
    /\ balance' = [t \in Tokens |-> balance[t]
                                    + (IF t = token THEN net ELSE 0)
                                    + (IF t = ETH THEN unasked ELSE 0)]
    /\ collected' = [collected EXCEPT ![token] = @ + fee]
    /\ stray' = [stray EXCEPT ![ETH] = @ + unasked]
    /\ UNCHANGED <<executionHistory, settings, clockVars, withdrawn>>

\* The order after an execution.
fill_KeepsFirstTime(order, amount, price) ==
    LET executed == order.executedAmount + amount IN
    [order EXCEPT
        !.executedAmount = executed,
        !.lastExecution = IF @ = 0 THEN now ELSE @,
        !.averagePrice =
            IF @ = 0 THEN price
            ELSE calculateWeightedAveragePrice(@, executed, price, amount),
        !.status = IF executed >= order.sourceAmount THEN "Completed" ELSE @]
fill(order, amount, price) ==
    LET executed == order.executedAmount + amount IN
    [order EXCEPT
        !.executedAmount = executed,
        !.lastExecution = now,
        !.averagePrice =
            IF @ = 0 THEN price
            ELSE calculateWeightedAveragePrice(@, executed, price, amount),
        !.status = IF executed >= order.sourceAmount THEN "Completed" ELSE @]

executeTWAPInterval(e, id, amount, price) ==
    LET order == orders[id]
        twapPrice == calculateTWAP(id)
        slippage == IF twapPrice > 0 THEN calculateSlippage(twapPrice, price)
                                     ELSE 0
    IN
    /\ e \in settings.authorizedExecutors
    /\ orderExists(id)
    /\ orderActive(order)
    /\ amount > 0
    /\ amount <= Remaining(order)
    /\ block < order.timeoutHeight
    /\ \/ order.lastExecution = 0
       \/ now >= order.lastExecution + getIntervalDuration(order.twapConfig)
    /\ price > 0
    /\ slippage \in 0..order.twapConfig.maxSlippage
    /\ meetsMinimumFill(order, amount)
    /\ executionHistory' = [executionHistory EXCEPT ![id] =
           Append(@, [timestamp |-> now, amount |-> amount,
                      price |-> price, slippage |-> slippage])]
    /\ orders' = [orders EXCEPT ![id] = fill(order, amount, price)]
    /\ UNCHANGED <<userVars, totalVars, settings, clockVars, moneyVars>>

\* The caller is the owner of the order; neither a pause nor the timeout
\* stands in the way, a contract that no longer owns the refund does.
cancelOrder(id) ==
    LET order == orders[id]
        refundAmount == Remaining(order)
    IN
    /\ orderExists(id)
    /\ orderActive(order)
    /\ refundAmount > 0
    /\ refundAmount <= balance[order.sourceToken]
    /\ orders' = [orders EXCEPT ![id] = [order EXCEPT !.status = "Cancelled"]]
    /\ balance' = [balance EXCEPT ![order.sourceToken] = @ - refundAmount]
    /\ userOrderCount' = releaseSlot(order.user)
    /\ UNCHANGED <<executionHistory, userOrders, totalVars, settings,
                   clockVars, collected, withdrawn, stray>>

\* Anyone may claim; no token moves.
claimHTLC(id, secret) ==
    LET order == orders[id] IN
    /\ orderExists(id)
    /\ order.status = "Completed"
    /\ HashOf[secret] = order.htlcHash
    /\ orders' = [orders EXCEPT ![id] = [order EXCEPT !.status = "Claimed"]]
    /\ userOrderCount' = releaseSlot(order.user)
    /\ UNCHANGED <<executionHistory, userOrders, totalVars, settings,
                   clockVars, moneyVars>>

-----------------------------------------------------------------------------
(* Administration: every action here is onlyOwner.  Administer below says  *)
(* what these functions leave alone.                                       *)

addSupportedChain(chain) ==
    settings' = [settings EXCEPT !.supportedChains = @ \cup {chain}]

removeSupportedChain(chain) ==
    settings' = [settings EXCEPT !.supportedChains = @ \ {chain}]

addAuthorizedExecutor(e) ==
    settings' = [settings EXCEPT !.authorizedExecutors = @ \cup {e}]

removeAuthorizedExecutor(e) ==
    settings' = [settings EXCEPT !.authorizedExecutors = @ \ {e}]

updateFeeCollector(collector) ==
    settings' = [settings EXCEPT !.feeCollector = collector]

updateProtocolFeeRate(rate) ==
    /\ rate <= MAX_FEE_RATE
    /\ settings' = [settings EXCEPT !.protocolFeeRate = rate]

updateMaxOrdersPerUser(limit) ==
    /\ limit > 0
    /\ settings' = [settings EXCEPT !.maxOrdersPerUser = limit]

pause ==
    /\ ~settings.paused
    /\ settings' = [settings EXCEPT !.paused = TRUE]

unpause ==
    /\ settings.paused
    /\ settings' = [settings EXCEPT !.paused = FALSE]

emergencyWithdraw(token, amount) ==
    /\ amount <= balance[token]
    /\ balance' = [balance EXCEPT ![token] = @ - amount]
    /\ withdrawn' = [withdrawn EXCEPT ![token] = @ + amount]
    /\ UNCHANGED <<orderVars, userVars, totalVars, settings, clockVars,
                   collected, stray>>

-----------------------------------------------------------------------------
(* The environment.                                                        *)

\* receive() for ether, a plain ERC20 transfer for the other tokens.
receiveTokens(token, amount) ==
    /\ amount > 0
    /\ stray[token] + amount <= MaxStray
    /\ balance' = [balance EXCEPT ![token] = @ + amount]
    /\ stray' = [stray EXCEPT ![token] = @ + amount]
    /\ UNCHANGED <<orderVars, userVars, totalVars, settings, clockVars,
                   collected, withdrawn>>

NewBlock(tick) ==
    /\ tick[1] > 0
    /\ tick[2] > 0
    /\ now + tick[2] <= MaxTime
    /\ block' = block + tick[1]
    /\ now' = now + tick[2]
    /\ UNCHANGED <<orderVars, userVars, totalVars, settings, moneyVars>>

CreateOrder ==
    \E u \in Users, id \in OrderIds, token \in Tokens, amount \in Amounts,
       value \in Values, chain \in Chains, config \in Configs, hash \in Hashes,
       timeout \in Timeouts :
        createTWAPOrder(u, id, token, amount, value, chain, config, hash, timeout)

ExecuteInterval ==
    \E e \in Executors, id \in OrderIds, amount \in Amounts, price \in Prices :
        executeTWAPInterval(e, id, amount, price)

Administer ==
    /\ \/ \E chain \in Chains : addSupportedChain(chain)
       \/ \E chain \in Chains : removeSupportedChain(chain)
       \/ \E e \in Executors : addAuthorizedExecutor(e)
       \/ \E e \in Executors : removeAuthorizedExecutor(e)
       \/ \E collector \in Collectors : updateFeeCollector(collector)
       \/ \E rate \in FeeRates : updateProtocolFeeRate(rate)
       \/ \E limit \in Limits : updateMaxOrdersPerUser(limit)
       \/ pause
       \/ unpause
    /\ UNCHANGED <<orderVars, userVars, totalVars, clockVars, moneyVars>>

Next ==
    \/ CreateOrder
    \/ ExecuteInterval
    \/ \E id \in OrderIds : cancelOrder(id)
    \/ \E id \in OrderIds, secret \in Secrets : claimHTLC(id, secret)
    \/ Administer
    \/ \E token \in Tokens, amount \in Transfers : emergencyWithdraw(token, amount)
    \/ \E token \in Tokens, amount \in Transfers : receiveTokens(token, amount)
    \/ \E tick \in Ticks : NewBlock(tick)

Spec == Init /\ [][Next]_vars
=============================================================================
