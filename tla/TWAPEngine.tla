----------------------------- MODULE TWAPEngine -----------------------------
(***************************************************************************)
(* The orchestrator service's TWAP engine (pkg/twap/engine.go) over the    *)
(* order store: the order processor looks for orders that are due and      *)
(* queues a request for each, the execution worker takes requests from the *)
(* queue and swaps, and API handlers queue requests of their own and wait  *)
(* for the worker's response.                                              *)
(*                                                                         *)
(* The processor, the worker and the handlers are goroutines.  A step is   *)
(* what one of them does up to and including its next database call or     *)
(* channel operation.                                                      *)
(*                                                                         *)
(* Left out: metrics, the price cache (a token pair has a price or none),  *)
(* gas and hashes, and the swap on the target chain, which is a mock in    *)
(* the code too and never fails.                                           *)
(***************************************************************************)
EXTENDS OrderStore

CONSTANTS
    QueueCap,         \* capacity of executionQueue
    Callers, NoCaller,\* goroutines that serve POST /twap/execute/:id
    Prices, NoPrice,  \* prices of a token pair; NoPrice is decimal.Zero
    Moments,          \* time.Now().Unix() % 100 when a swap is made
    Overlap           \* may a scan start before the last one's work is done?

ASSUME EngineAssumption == /\ QueueCap \in Nat \ {0}
                           /\ IsFiniteSet(Callers) /\ NoCaller \notin Callers
                           /\ Prices \subseteq Nat \ {0}
                           /\ NoPrice = 0
                           /\ Moments \subseteq 0..99
                           /\ Overlap \in BOOLEAN

VARIABLES
    processor,        \* the orderProcessor goroutine
    queue,            \* executionQueue
    worker,           \* the executionWorker goroutine
    calls,            \* the handlers in ExecuteOrderManually
    swapped           \* what was swapped on the target chain for an order

engineVars == <<processor, queue, worker, calls, swapped>>

Request == [order : Orders, intervalNumber : Nat, target : [num : Int, den : Nat \ {0}],
            priceHint : Prices \cup {NoPrice}, caller : Callers \cup {NoCaller}]

idleProcessor == [pc |-> "idle", batch |-> <<>>]
idleWorker == [pc |-> "idle"]
idleCall == [pc |-> "idle"]

InitEngine ==
    /\ processor = idleProcessor
    /\ queue = <<>>
    /\ worker = idleWorker
    /\ calls = [c \in Callers |-> idleCall]
    /\ swapped = [o \in Orders |-> 0]

hasRoom_Always == TRUE
hasRoom == Len(queue) < QueueCap

\* An equal share of what remains for each interval that remains.
request(o, row, executed, hint, c) ==
    [order |-> o, intervalNumber |-> executed,
     target |-> fraction(GetRemainingAmount(o, row),
                         GetRemainingIntervals(o, executed)),
     priceHint |-> hint, caller |-> c]

-----------------------------------------------------------------------------
(* orderProcessor                                                          *)

\* On a tick of UpdateInterval.  Without Overlap the interval is so long that
\* the worker has emptied the queue before.
processExecutableOrders ==
    /\ processor.pc = "idle"
    /\ Overlap \/ (queue = <<>> /\ worker.pc = "idle")
    /\ \E due \in GetExecutableOrders :
          /\ due # <<>>
          /\ processor' = [pc |-> "order", batch |-> due]
    /\ Succeeds
    /\ UNCHANGED <<orders, history, timeLeft, queue, worker, calls, swapped>>

\* Go on with the next order of the batch.
nextOrder ==
    LET rest == Tail(processor.batch) IN
    processor' = IF rest = <<>> THEN idleProcessor
                 ELSE [pc |-> "order", batch |-> rest]

allExecuted_OneEarly(o, executed) == executed + 1 >= terms[o].executionIntervals
allExecuted(o, executed) == executed >= terms[o].executionIntervals

\* An interval too small to fill is put off, the last one is not.
belowMinimum(o, target) == /\ target.num < terms[o].minFillSize * target.den
                           /\ target.den > 1

\* processOrder up to its next effect.  The row is the one listed, however long
\* ago, and the history is read now.  (The row was due when it was listed, so
\* CanExecuteInterval holds again; and no intervals remain just when all are
\* executed, so that later check never ends it.)
processOrder ==
    LET o == Head(processor.batch).order
        row == Head(processor.batch).row
        executed == Len(history[o])
    IN
    /\ processor.pc = "order"
    /\ \/ Fails /\ nextOrder
       \/ /\ Succeeds
          /\ IF allExecuted(o, executed)
             THEN processor' = [processor EXCEPT !.pc = "complete"]
             ELSE \E hint \in Prices \cup {NoPrice} :
                  LET r == request(o, row, executed, hint, NoCaller) IN
                  IF belowMinimum(o, r.target) THEN nextOrder
                  ELSE processor' = [pc |-> "enqueue", request |-> r,
                                     batch |-> processor.batch]
    /\ UNCHANGED <<orders, history, timeLeft, queue, worker, calls, swapped>>

completeOrder_Unsaved ==
    /\ processor.pc = "complete"
    /\ nextOrder
    /\ Succeeds
    /\ UNCHANGED <<orders, history, timeLeft, queue, worker, calls, swapped>>

\* The end of an order whose intervals are all executed.
completeOrder ==
    LET item == Head(processor.batch) IN
    /\ processor.pc = "complete"
    /\ \/ Fails /\ UNCHANGED orders
       \/ Succeeds /\ UpdateOrder(item.order, [item.row EXCEPT !.status = "completed"])
    /\ nextOrder
    /\ UNCHANGED <<history, timeLeft, queue, worker, calls, swapped>>

\* A full queue drops the request; the next scan makes it again.
enqueue ==
    /\ processor.pc = "enqueue"
    /\ queue' = IF hasRoom THEN Append(queue, processor.request) ELSE queue
    /\ nextOrder
    /\ UNCHANGED <<storeVars, worker, calls, swapped>>

-----------------------------------------------------------------------------
(* ExecuteOrderManually, for POST /twap/execute/:id.  The handler read   *)
(* the row once before, to find that it exists and belongs to the caller.  *)

\* Neither status nor timing are looked at: the executed amount is all that
\* goes on to be used.
ExecuteOrderManually(c, o) ==
    /\ calls[c].pc = "idle"
    /\ orders[o] # NoRow
    /\ calls' = [calls EXCEPT ![c] =
           [pc |-> "history", order |-> o,
            row |-> [executedAmount |-> orders[o].executedAmount]]]
    /\ UNCHANGED <<storeVars, processor, queue, worker, swapped>>

\* A failed read and "order already fully executed" end the call.
readHistory(c) ==
    LET o == calls[c].order
        executed == Len(history[o])
    IN
    /\ calls[c].pc = "history"
    /\ \/ Fails /\ calls' = [calls EXCEPT ![c] = idleCall]
       \/ /\ Succeeds
          /\ calls' = [calls EXCEPT ![c] =
                 IF executed >= terms[o].executionIntervals THEN idleCall
                 ELSE [pc |-> "enqueue", order |-> o,
                       request |-> request(o, @.row, executed, NoPrice, c)]]
    /\ UNCHANGED <<orders, history, timeLeft, processor, queue, worker, swapped>>

\* "execution queue full" ends the call as well.
enqueueCall(c) ==
    /\ calls[c].pc = "enqueue"
    /\ IF hasRoom
       THEN /\ queue' = Append(queue, calls[c].request)
            /\ calls' = [calls EXCEPT ![c] = [pc |-> "waiting", order |-> @.order]]
       ELSE /\ calls' = [calls EXCEPT ![c] = idleCall]
            /\ UNCHANGED queue
    /\ UNCHANGED <<storeVars, processor, worker, swapped>>

-----------------------------------------------------------------------------
(* executionWorker                                                         *)

\* A waiting caller receives the worker's response, whatever it says.
respond_OnSuccess(c) ==
    calls' = IF c = NoCaller \/ worker.pc # "update" THEN calls
             ELSE [calls EXCEPT ![c] = idleCall]
respond(c) ==
    calls' = IF c = NoCaller THEN calls ELSE [calls EXCEPT ![c] = idleCall]

takeRequest_Redelivered ==
    /\ worker.pc = "idle"
    /\ queue # <<>>
    /\ worker' = [pc |-> "get", request |-> Head(queue)]
    /\ queue' \in {queue, Tail(queue)}
    /\ UNCHANGED <<storeVars, processor, calls, swapped>>
takeRequest ==
    /\ worker.pc = "idle"
    /\ queue # <<>>
    /\ worker' = [pc |-> "get", request |-> Head(queue)]
    /\ queue' = Tail(queue)
    /\ UNCHANGED <<storeVars, processor, calls, swapped>>

\* in basis points
calculateSlippage(expected, actual) ==
    LET diff == IF expected > actual THEN expected - actual ELSE actual - expected
    IN  IF expected = NoPrice THEN 0 ELSE (diff * 10000) \div expected

\* The mock swap executes 0.99 to 1.0098 of the target, depending on the clock.
swappedAmount(target, moment) == [num |-> target.num * (4950 + moment),
                                  den |-> target.den * 5000]

\* Its price depends on another reading of the clock.
executionPrice(price, moment) == (price * (9950 + moment)) \div 10000

\* The row that was read, after the swap.
afterExecution_OfTarget(r, row, amount, price) ==
    LET total == row.executedAmount * r.target.den + r.target.num IN
    [row EXCEPT
        !.executedAmount = rounded(total, r.target.den),
        !.lastExecution = 0,
        !.averagePrice = UpdateAveragePrice(@, total, r.target.num, price),
        !.status = IF total >= terms[r.order].sourceAmount * r.target.den
                   THEN "completed" ELSE "executing"]
afterExecution(r, row, amount, price) ==
    LET total == row.executedAmount * amount.den + amount.num IN
    [row EXCEPT
        !.executedAmount = rounded(total, amount.den),
        !.lastExecution = 0,
        !.averagePrice = UpdateAveragePrice(@, total, amount.num, price),
        !.status = IF total >= terms[r.order].sourceAmount * amount.den
                   THEN "completed" ELSE "executing"]

failExecution ==
    /\ respond(worker.request.caller)
    /\ worker' = idleWorker
    /\ UNCHANGED swapped

\* executeInterval up to the swap.  The row is read for its amounts; its status
\* and its last execution are not checked again.  With no price the hint is
\* used, and with no hint either the swap goes through at price 0.  A target
\* chain without an adapter ends every execution: createOrder has only looked at
\* the form of its name.
executeInterval ==
    LET r == worker.request IN
    /\ worker.pc = "get"
    /\ \/ Fails /\ failExecution
       \/ /\ Succeeds
          /\ \E market \in Prices \cup {r.priceHint} :
             IF \/ ~terms[r.order].targetAdapter
                \/ calculateSlippage(r.priceHint, market) > terms[r.order].maxSlippage
             THEN failExecution
             ELSE \E m \in Moments, later \in {0, 1} :
                  LET amount == swappedAmount(r.target, m)
                      whole == rounded(amount.num, amount.den)
                      price == executionPrice(market, (m + later) % 100)
                  IN
                  /\ worker' = [pc |-> "record", request |-> r,
                                amount |-> whole, price |-> price,
                                row |-> afterExecution(r, orders[r.order], amount, price)]
                  /\ swapped' = [swapped EXCEPT ![r.order] =
                                     @ + (IF whole > 0 THEN whole ELSE 0)]
                  /\ UNCHANGED calls
    /\ UNCHANGED <<orders, history, timeLeft, processor, queue>>

\* A record that cannot be written is only logged.
recordExecution ==
    LET r == worker.request IN
    /\ worker.pc = "record"
    /\ \/ Fails /\ UNCHANGED history
       \/ /\ Succeeds
          /\ CreateExecutionRecord(r.order, [intervalNumber |-> r.intervalNumber,
                                             amount |-> worker.amount,
                                             price |-> worker.price])
    /\ worker' = [worker EXCEPT !.pc = "update"]
    /\ UNCHANGED <<orders, timeLeft, processor, queue, calls, swapped>>

\* An update that fails is only logged as well: the response is a success.
updateOrder ==
    LET r == worker.request IN
    /\ worker.pc = "update"
    /\ \/ Fails /\ UNCHANGED orders
       \/ Succeeds /\ UpdateOrder(r.order, worker.row)
    /\ respond(r.caller)
    /\ worker' = idleWorker
    /\ UNCHANGED <<history, timeLeft, processor, queue, swapped>>

-----------------------------------------------------------------------------

Processor == processExecutableOrders \/ processOrder \/ completeOrder \/ enqueue

Caller(c) == \/ \E o \in Orders : ExecuteOrderManually(c, o)
             \/ readHistory(c)
             \/ enqueueCall(c)

Worker == takeRequest \/ executeInterval \/ recordExecution \/ updateOrder
=============================================================================
