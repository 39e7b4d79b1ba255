-------------------------- MODULE BridgeProperties --------------------------
(* What makes the bridge contract correct, for FlowFusionBridge. *)
EXTENDS FlowFusionBridge

Existing == {id \in OrderIds : orders[id].user # NoUser}

\* Orders that occupy one of their user's slots.
OpenOrders(u) == {id \in OrderIds : /\ orders[id].user = u
                                    /\ orders[id].status \in {"Executing", "Completed"}}

\* Every variable has its type; in particular no counter and no balance
\* that the contract keeps in an unsigned integer goes below zero.
TypeOK ==
    /\ orders \in [OrderIds -> Order]
    /\ executionHistory \in [OrderIds -> Seq(ExecutionRecord)]
    /\ userOrders \in [Users -> Seq(OrderIds)]
    /\ userOrderCount \in [Users -> Nat]
    /\ totalOrders \in Nat
    /\ totalVolume \in Nat
    /\ settings \in Settings
    /\ block \in Nat
    /\ now \in Nat /\ now >= GenesisTime
    /\ balance \in [Tokens -> Nat]
    /\ collected \in [Tokens -> Nat]
    /\ withdrawn \in [Tokens -> Nat]
    /\ stray \in [Tokens -> Nat]

\* The status of an order and its amounts tell the same story: an order that
\* can still be executed or cancelled has something left, a completed or
\* claimed one has executed exactly its amount, and nothing was executed of an
\* order that does not exist.
StatusMatchesAmounts ==
    \A id \in OrderIds : LET order == orders[id] IN
        IF orderExists(id)
        THEN /\ order.status \in {"Executing", "Cancelled"}
                  => order.executedAmount < order.sourceAmount
             /\ order.status \in {"Completed", "Claimed"}
                  => order.executedAmount = order.sourceAmount
             /\ order.status # "Expired"
        ELSE order = NoOrder /\ executionHistory[id] = <<>>

\* userOrderCount, which create increments and cancel and claim (called by
\* anybody) decrement, is exactly the number of the user's open orders, so
\* that its checked decrement never makes a refund or a claim revert, and no
\* finished order keeps a slot.
SlotsMatchOrders ==
    \A u \in Users : userOrderCount[u] = Cardinality(OpenOrders(u))

\* getUserOrders lists each order of the user once, and totalOrders counts them
\* all: no order is lost or listed for somebody else.
OrdersAreIndexed ==
    /\ totalOrders = Cardinality(Existing)
    /\ \A u \in Users :
        /\ Range(userOrders[u]) = {id \in OrderIds : orders[id].user = u}
        /\ Len(userOrders[u]) = Cardinality(Range(userOrders[u]))

\* What the contract still has to hold for an order: all of its net amount,
\* minus a refund.
InEscrow(order) == IF order.status = "Cancelled" THEN order.executedAmount
                                                 ELSE order.sourceAmount

\* The tokens the contract owns, plus those the owner took out, are those that
\* came unasked plus the net deposits minus the refunds: fees, refunds and
\* orders in other tokens never eat into an order's money, and without an
\* emergency withdrawal every refund can be paid.
Escrowed ==
    \A t \in Tokens :
        balance[t] + withdrawn[t] =
            stray[t] + SumFunctionOnSet([id \in OrderIds |-> InEscrow(orders[id])],
                           {id \in Existing : orders[id].sourceToken = t})

\* totalVolume is what users paid in: net amounts and collected fees.
VolumeIsPaidIn ==
    totalVolume = SumFunctionOnSet([id \in OrderIds |-> orders[id].sourceAmount], Existing)
                  + SumFunctionOnSet(collected, Tokens)

\* The history of an order accounts for its fields: its amounts add up to
\* executedAmount, its last timestamp is lastExecution.
HistoryAccounts ==
    \A id \in OrderIds :
        LET history == executionHistory[id] IN
        /\ orders[id].executedAmount
               = SumFunction([i \in DOMAIN history |-> history[i].amount])
        /\ orders[id].lastExecution
               = IF history = <<>> THEN 0 ELSE history[Len(history)].timestamp

\* Two executions of an order are at least one interval apart, whoever the
\* executors are.
ExecutionsAreSpaced ==
    \A id \in OrderIds :
        LET history == executionHistory[id] IN
        \A i, j \in DOMAIN history : i < j =>
            history[j].timestamp - history[i].timestamp
                >= (j - i) * getIntervalDuration(orders[id].twapConfig)

\* Only the execution that completes the order is below the minimum fill, so
\* that an order is never executed in more than 1 + amount / minFillSize parts.
OnlyLastFillIsSmall ==
    \A id \in OrderIds :
        LET history == executionHistory[id] IN
        \A i \in DOMAIN history :
            history[i].amount < orders[id].twapConfig.minFillSize =>
                /\ i = Len(history)
                /\ orders[id].status \in {"Completed", "Claimed"}

\* The average price, however it is weighted, lies within the prices of the
\* executions, and it is 0 only before the first of them.
AverageWithinPrices ==
    \A id \in OrderIds :
        LET history == executionHistory[id]
            average == orders[id].averagePrice
        IN  IF history = <<>> THEN average = 0
            ELSE \E i, j \in DOMAIN history :
                    history[i].price <= average /\ average <= history[j].price

\* An execution's price leaves the band of the prices executed in the window
\* before it by at most maxSlippage basis points (and one unit of rounding).
SlippageIsContained ==
    \A id \in OrderIds :
        LET history == executionHistory[id]
            config == orders[id].twapConfig
            before(k) == {i \in 1..(k-1) :
                history[i].timestamp >= history[k].timestamp - config.windowMinutes * 60}
            allowed(p) == (p * (config.maxSlippage + 1)) \div BASIS_POINTS + 1
        IN  \A k \in DOMAIN history : before(k) # {} =>
                /\ \E i \in before(k) :
                      history[k].price <= history[i].price + allowed(history[i].price)
                /\ \E i \in before(k) :
                      history[k].price >= history[i].price - allowed(history[i].price)

\* The life of an order: it is executed until it is completed or cancelled,
\* only a completed order is claimed, and nothing about a cancelled or claimed
\* order ever changes.
OrderStep(old, new) ==
    /\ new.user = old.user
    /\ <<old.status, new.status>> \in
          {<<"Executing", "Executing">>, <<"Executing", "Completed">>,
           <<"Executing", "Cancelled">>, <<"Completed", "Completed">>,
           <<"Completed", "Claimed">>, <<"Cancelled", "Cancelled">>,
           <<"Claimed", "Claimed">>}
    /\ old.status # "Executing" => new = [old EXCEPT !.status = new.status]

OrdersEndOnce ==
    [][\A id \in OrderIds : orderExists(id) => OrderStep(orders[id], orders'[id])]_vars

-----------------------------------------------------------------------------
(* What the interface says of the contract, and its code does not do.       *)

\* The interface calls averagePrice the weighted average execution price: up
\* to a unit of rounding per execution, the mean of the executed prices
\* weighted by their amounts.
AveragePriceIsWeighted ==
    \A id \in OrderIds :
        LET history == executionHistory[id]
            order == orders[id]
            value == SumFunction([i \in DOMAIN history |->
                                     history[i].price * history[i].amount])
            difference == order.averagePrice * order.executedAmount - value
        IN  difference \in -(Len(history) * order.executedAmount)
                       .. (Len(history) * order.executedAmount)

-----------------------------------------------------------------------------
(* The bridge implements the escrow of every order's net amount.           *)

credited == [id \in OrderIds |-> orders[id].sourceAmount]
filled   == [id \in OrderIds |-> orders[id].executedAmount]
unspent  == [id \in OrderIds |-> IF orders[id].status = "Executing"
                                 THEN Remaining(orders[id]) ELSE 0]
refunded == [id \in OrderIds |-> IF orders[id].status = "Cancelled"
                                 THEN Remaining(orders[id]) ELSE 0]

Vault == INSTANCE Escrow WITH
    Deposits <- OrderIds,
    opened   <- credited,
    held     <- unspent,
    spent    <- filled,
    returned <- refunded

EscrowSpec == Vault!Spec
=============================================================================
