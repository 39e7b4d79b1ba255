-------------------------- MODULE OrderProperties --------------------------
(* Properties of OrderService. *)
EXTENDS OrderService

\* orders listed in a batch of the processor or the monitor
listed(items) == {items[i].order : i \in DOMAIN items}

\* Some goroutine is at work on the order, or a request for it is queued.
Working(o) ==
    \/ o \in listed(processor.batch) \cup listed(monitor)
    \/ \E i \in DOMAIN queue : queue[i].order = o
    \/ worker.pc # "idle" /\ worker.request.order = o
    \/ \E c \in Callers : calls[c].pc # "idle" /\ calls[c].order = o
    \/ \E c \in Cancellers : cancels[c].pc # "idle" /\ cancels[c].order = o

recorded(o) == SumFunction([i \in DOMAIN history[o] |-> history[o][i].amount])

Finished(o) == orders[o].status \in {"completed", "cancelled", "expired"}

-----------------------------------------------------------------------------
(* The type of every variable.                                             *)

Item == [order : Orders, row : Row]
Record == [intervalNumber : Nat, amount : Int, price : Nat]

StoreTypeOK ==
    /\ orders \in [Orders -> Row \cup {NoRow}]
    /\ history \in [Orders -> Seq(Record)]
    /\ timeLeft \in [Orders -> {NULL} \cup Nat]
    /\ failures \in 0..MaxFailures

ProcessorTypeOK ==
    /\ \/ processor \in [pc : {"idle", "order", "complete"}, batch : Seq(Item)]
       \/ processor \in [pc : {"enqueue"}, request : Request, batch : Seq(Item)]
    /\ processor.pc = "idle" <=> processor.batch = <<>>

QueueTypeOK == queue \in Seq(Request) /\ Len(queue) <= QueueCap

WorkerTypeOK ==
    /\ \/ worker = idleWorker
       \/ worker \in [pc : {"get"}, request : Request]
       \/ worker \in [pc : {"record", "update"}, request : Request,
                      amount : Int, price : Nat, row : Row]
    /\ swapped \in [Orders -> Nat]

CallType == {idleCall}
    \cup [pc : {"history"}, order : Orders, row : [executedAmount : Int]]
    \cup [pc : {"enqueue"}, order : Orders, request : Request]
    \cup [pc : {"waiting"}, order : Orders]
CancelType == {idleCancel} \cup [pc : {"update"}, order : Orders, row : Row]

HandlersTypeOK ==
    /\ calls \in [Callers -> CallType]
    /\ cancels \in [Cancellers -> CancelType]
    /\ monitor \in Seq(Item)

TypeOK == /\ StoreTypeOK /\ ProcessorTypeOK /\ QueueTypeOK /\ WorkerTypeOK
          /\ HandlersTypeOK

-----------------------------------------------------------------------------
(* Whatever overlaps, fails or restarts.                                   *)

\* Neither the row nor the records of an order ever claim more than was swapped
\* for it, however stale the rows that processes write back
\* (engine.go executeInterval, routes.go cancelOrder).
BooksAreCovered ==
    \A o \in Orders : /\ orders[o].executedAmount <= swapped[o]
                      /\ recorded(o) <= swapped[o]

\* Requests that overtake each other execute an order's intervals too often,
\* but no more often than the queue, the worker, the processor and the callers
\* can hold requests (engine.go processOrder, ExecuteOrderManually).
ExecutionsAreBounded ==
    \A o \in Orders :
        Len(history[o]) <= terms[o].executionIntervals + QueueCap + 1 + Cardinality(Callers)

\* An order is completed only after its number of intervals or its amount was
\* executed, also when its row was read long before (engine.go processOrder and
\* executeInterval).
CompletedIsEarned ==
    \A o \in Orders : orders[o].status = "completed" =>
        \/ Len(history[o]) >= terms[o].executionIntervals
        \/ swapped[o] >= terms[o].sourceAmount

\* Once an order is finished and nobody is at work on it any more, its row
\* stays as it is and nobody but a caller of ExecuteOrderManually takes it up
\* (database.go GetExecutableOrders, types.go canCancelOrder).
FinishedIsLeftAlone ==
    [][\A o \in Orders : Finished(o) /\ ~Working(o) =>
          /\ orders'[o] \in {orders[o], older(orders[o])}
          /\ Working(o)' => \E c \in Callers : calls'[c] # calls[c]]_vars

\* A handler that waits for the worker's response gets it, whether the
\* execution succeeds or fails (engine.go executionWorker).
EveryCallIsAnswered ==
    \A c \in Callers : calls[c].pc = "waiting" ~> calls[c].pc # "waiting"

\* An order whose intervals are all executed does not stay in progress
\* (engine.go processOrder).
FullyExecutedIsCompleted ==
    \A o \in Orders : terms[o].timeoutHeight > currentHeight =>
        (Len(history[o]) >= terms[o].executionIntervals
            ~> orders[o].status \notin {"pending", "executing"})

\* The share of the next interval is below the order's minimum fill.
SkippedAsSmall(o) ==
    /\ ~allExecuted(o, Len(history[o]))
    /\ belowMinimum(o, request(o, orders[o], Len(history[o]), NoPrice, NoCaller).target)


-----------------------------------------------------------------------------
(* While scans are so far apart that the work of one is done before the    *)
(* next, and nothing fails, cancels or is executed by hand.                *)

\* Row, records and swaps of an order agree whenever nobody is at work on it:
\* executedAmount is the "Amount already executed".
BooksAgree ==
    \A o \in Orders : ~Working(o) => /\ orders[o].executedAmount = swapped[o]
                                     /\ recorded(o) = swapped[o]

\* An order is executed at most in its number of intervals.
IntervalsRespected ==
    \A o \in Orders : Len(history[o]) <= terms[o].executionIntervals

\* A swap is made only when the next execution is due (types.go
\* GetNextExecutionTime: "when the next execution should occur").
SwapsArePaced ==
    [][\A o \in Orders : swapped'[o] # swapped[o] =>
          orders[o].lastExecution \in {NULL, Interval}]_vars

\* No more is swapped than the order's amount and the deviation of the swaps
\* (0.98% each, and a rounding): the shares are taken of what remains.
NotOverspent ==
    \A o \in Orders :
        swapped[o] * 5000 <= terms[o].sourceAmount * 5049
                             + 5000 * terms[o].executionIntervals

-----------------------------------------------------------------------------
(* What the sources say and the service does not do.                       *)

\* types.go UpdateAveragePrice: "weighted average:
\* (prevAvg * prevAmount + newPrice * newAmount) / totalAmount",
\* up to a price unit of rounding per execution.
AveragePriceIsWeighted ==
    \A o \in Orders : ~Working(o) =>
        LET value == SumFunction([i \in DOMAIN history[o] |->
                                     history[o][i].amount * history[o][i].price])
            difference == orders[o].averagePrice * orders[o].executedAmount - value
        IN  /\ difference <= Len(history[o]) * orders[o].executedAmount
            /\ -difference <= Len(history[o]) * orders[o].executedAmount

\* orchestrator.go: "checkOrderTimeouts checks for expired orders and handles
\* them".
TimedOutIsHandled ==
    \A o \in Orders : o \in Inserted /\ IsTimedOut(o) ~> Finished(o)
=============================================================================
