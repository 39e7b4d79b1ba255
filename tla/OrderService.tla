---------------------------- MODULE OrderService ----------------------------
(***************************************************************************)
(* The orchestrator service's life of an order: the TWAP engine, the API   *)
(* handlers that create and cancel orders (internal/api/routes.go) and the *)
(* monitor that expires them (pkg/orchestrator/orchestrator.go), as        *)
(* processes that share the order store and nothing else.                  *)
(*                                                                         *)
(* Left out: chain events and the counters, the limiter and the cache in   *)
(* front of the handlers, and the end of the process (Orchestrator,        *)
(* ApiFront, Service).  The handlers are those of requests that were       *)
(* admitted, with a body that could be read.                               *)
(***************************************************************************)
EXTENDS TWAPEngine

CONSTANT Cancellers   \* goroutines that serve PUT /orders/:id/cancel

VARIABLES
    cancels,          \* the handlers in cancelOrder
    monitor           \* the orderMonitor goroutine: rows it found timed out

serviceVars == <<cancels, monitor>>
vars == <<storeVars, engineVars, serviceVars>>

idleCancel == [pc |-> "idle"]

Init ==
    /\ InitStore
    /\ InitEngine
    /\ cancels = [c \in Cancellers |-> idleCancel]
    /\ monitor = <<>>

-----------------------------------------------------------------------------
(* API handlers                                                            *)

\* The handler on a body it can bind.  Behind validateCreateOrder, which has
\* read the body already, it cannot (ApiFront refuseCreate), and rows come from
\* elsewhere.
createOrder(o) == CreateOrder(o) /\ UNCHANGED <<engineVars, serviceVars>>

canCancelOrder(status) == status \in {"pending", "executing", "partially_filled"}

\* The handler reads the order, and refuses one that is finished.
cancelOrder(c, o) ==
    /\ cancels[c].pc = "idle"
    /\ canCancelOrder(orders[o].status)
    /\ cancels' = [cancels EXCEPT ![c] = [pc |-> "update", order |-> o, row |-> orders[o]]]
    /\ UNCHANGED <<storeVars, engineVars, monitor>>

\* Then it writes back the row it read, as cancelled.
writeCancelled(c) ==
    LET call == cancels[c] IN
    /\ call.pc = "update"
    /\ \/ Fails /\ UNCHANGED orders
       \/ /\ Succeeds
          /\ UpdateOrder(call.order, [call.row EXCEPT !.status = "cancelled"])
    /\ cancels' = [cancels EXCEPT ![c] = idleCancel]
    /\ UNCHANGED <<history, timeLeft, engineVars, monitor>>

-----------------------------------------------------------------------------
(* orderMonitor                                                            *)

\* Only orders that are due for execution are looked at.  The time is read
\* once, after the query.
checkOrderTimeouts ==
    /\ monitor = <<>>
    /\ \E timedOut \in oldestFirst({o \in Orders : executable(o) /\ IsTimedOut(o)}) :
          /\ timedOut # <<>>
          /\ monitor' = timedOut
    /\ UNCHANGED <<storeVars, engineVars, cancels>>

expireOrder ==
    LET item == Head(monitor) IN
    /\ monitor # <<>>
    /\ \/ Fails /\ UNCHANGED orders
       \/ /\ Succeeds
          /\ UpdateOrder(item.order, [item.row EXCEPT !.status = "expired"])
    /\ monitor' = Tail(monitor)
    /\ UNCHANGED <<history, timeLeft, engineVars, cancels>>

Monitor == checkOrderTimeouts \/ expireOrder

-----------------------------------------------------------------------------
(* Time and crashes                                                        *)

aged(items) == [i \in DOMAIN items |-> [items[i] EXCEPT !.row = older(@)]]

\* An hour of nothing else is no clock step: only steps that bring an interval
\* or a timeout nearer count.  Rows held in memory age like stored ones.
Tick ==
    /\ \E o \in Inserted : \/ timeLeft[o] > 0
                           \/ older(orders[o]) # orders[o]
    /\ orders' = [o \in Orders |-> older(orders[o])]
    /\ timeLeft' = [o \in Orders |-> IF o \in Inserted /\ timeLeft[o] > 0
                                     THEN timeLeft[o] - 1 ELSE timeLeft[o]]
    /\ processor' = [processor EXCEPT !.batch = aged(@)]
    /\ worker' = IF worker.pc \in {"record", "update"}
                 THEN [worker EXCEPT !.row = older(@)] ELSE worker
    /\ cancels' = [c \in Cancellers |-> IF cancels[c].pc = "idle" THEN idleCancel
                                        ELSE [cancels[c] EXCEPT !.row = older(@)]]
    /\ monitor' = aged(monitor)
    /\ UNCHANGED <<history, failures, queue, calls, swapped>>

\* The process ends wherever its goroutines are and is started again.
Restart ==
    /\ Fails
    /\ processor' = idleProcessor
    /\ queue' = <<>>
    /\ worker' = idleWorker
    /\ calls' = [c \in Callers |-> idleCall]
    /\ cancels' = [c \in Cancellers |-> idleCancel]
    /\ monitor' = <<>>
    /\ UNCHANGED <<orders, history, timeLeft, swapped>>

-----------------------------------------------------------------------------

Handlers ==
    \/ \E o \in Orders : createOrder(o)
    \/ \E c \in Callers : Caller(c) /\ UNCHANGED serviceVars
    \/ \E c \in Cancellers : \/ \E o \in Orders : cancelOrder(c, o)
                             \/ writeCancelled(c)

Next ==
    \/ Handlers
    \/ (Processor \/ Worker) /\ UNCHANGED serviceVars
    \/ Monitor
    \/ Tick
    \/ Restart

Spec == Init /\ [][Next]_vars

\* Tickers fire, goroutines run and time passes; nobody has to create, cancel
\* or execute an order, but a handler that runs goes on running.
Fairness ==
    /\ WF_vars(Processor /\ UNCHANGED serviceVars)
    /\ WF_vars(Worker /\ UNCHANGED serviceVars)
    /\ WF_vars(Monitor)
    /\ WF_vars(Tick)
    /\ \A c \in Callers : WF_vars((readHistory(c) \/ enqueueCall(c)) /\ UNCHANGED serviceVars)
    /\ \A c \in Cancellers : WF_vars(writeCancelled(c))

FairSpec == Spec /\ Fairness
=============================================================================
