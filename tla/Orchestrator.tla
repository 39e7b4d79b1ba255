---------------------------- MODULE Orchestrator ----------------------------
(***************************************************************************)
(* The orchestrator (pkg/orchestrator/orchestrator.go): its start and its  *)
(* stop, the handlers of the chains' events, the monitor of OrderService   *)
(* with the counters it keeps, and the htlcs table.                        *)
(*                                                                         *)
(* Every adapter calls back from one goroutine, one event after another.   *)
(* Events may be of any kind, about any order, repeated, missing or late:  *)
(* nothing in the service depends on what a chain did.                     *)
(*                                                                         *)
(* Left out: events without a handler or whose handler only logs, the      *)
(* uptime, and the columns of htlcs that nothing reads.                    *)
(***************************************************************************)
EXTENDS OrderService, ChainAdapters

CONSTANTS
    Addresses,        \* addresses of HTLCs on the chains
    HTLCOrder         \* HTLCOrder[a]: the id made of the HTLC's hashed secret

VARIABLES
    ctx,              \* the context of main: "live" or "cancelled"
    orchestrator,     \* the goroutine in Start
    wg,               \* the goroutines it started that still run
    subscriber,       \* eventSubscriber: "new" until it has subscribed
    callbacks,        \* what the event goroutine of an adapter does
    stats,            \* the counters
    htlcs             \* the table: the order of each stored address

orchestratorVars == <<ctx, orchestrator, wg, subscriber, callbacks, stats, htlcs>>

Goroutines == {"eventSubscriber", "orderMonitor", "statisticsUpdater"}
EventChains == SupportedChains \cup SwapChains
noEvents == [pc |-> "unsubscribed"]
waitingForEvent == [pc |-> "idle"]

InitOrchestrator ==
    /\ ctx = "live"
    /\ orchestrator = "new"
    /\ wg = {}
    /\ subscriber = "new"
    /\ callbacks = [c \in EventChains |-> noEvents]
    /\ stats = [TotalOrders |-> 0, ActiveOrders |-> 0, CompletedOrders |-> 0,
                FailedOrders |-> 0, SuccessfulSwaps |-> 0]
    /\ htlcs = [a \in {} |-> a]

-----------------------------------------------------------------------------
(* Start                                                                   *)

\* Adapters that fail at once count as one failure.
adaptersFail(failed) == IF failed = {} THEN Succeeds ELSE Fails

\* One adapter that does not connect ends the orchestrator, and leaves those
\* that did connected.
startOrchestrator ==
    /\ orchestrator = "new"
    /\ \E failed \in SUBSET DOMAIN adapters :
          /\ adaptersFail(failed)
          /\ ConnectAll(failed)
          /\ orchestrator' = IF failed = {} THEN "running" ELSE "failed"
          /\ wg' = IF failed = {} THEN Goroutines ELSE {}
    /\ UNCHANGED <<orders, history, timeLeft, engineVars, serviceVars, ctx, subscriber,
                   callbacks, stats, htlcs, swap, chainHTLCs, hours>>

\* Adapters registered later are not subscribed to.
subscribe ==
    /\ "eventSubscriber" \in wg /\ subscriber = "new"
    /\ subscriber' = "subscribed"
    /\ \E failed \in SUBSET DOMAIN adapters :
          /\ adaptersFail(failed)
          /\ callbacks' = [c \in EventChains |->
                 IF GetAdapter(c) /\ c \notin failed THEN waitingForEvent ELSE noEvents]
    /\ UNCHANGED <<orders, history, timeLeft, engineVars, serviceVars, adapterVars, ctx,
                   orchestrator, wg, stats, htlcs>>

\* A goroutine looks at the context only between two rounds. Unsubscribing
\* does not wait for a callback, and the mocks go on calling back.
goroutineEnds(g) ==
    /\ g \in wg /\ ctx = "cancelled"
    /\ g = "eventSubscriber" => subscriber = "subscribed"
    /\ g = "orderMonitor" => monitor = <<>>
    /\ wg' = wg \ {g}
    /\ UNCHANGED <<vars, adapterVars, ctx, orchestrator, subscriber, callbacks, stats, htlcs>>

stopOrchestrator ==
    /\ orchestrator = "running" /\ ctx = "cancelled" /\ wg = {}
    /\ orchestrator' = "stopped"
    /\ \E failed \in SUBSET DOMAIN adapters :
          adaptersFail(failed) /\ DisconnectAll(failed)
    /\ UNCHANGED <<orders, history, timeLeft, engineVars, serviceVars, ctx, wg, subscriber,
                   callbacks, stats, htlcs, swap, chainHTLCs, hours>>

GoOnAndStop == subscribe \/ stopOrchestrator \/ \E g \in Goroutines : goroutineEnds(g)

-----------------------------------------------------------------------------
(* Event handlers.  One that only counts is a single step, under the lock  *)
(* of the counters.                                                        *)

counted(c, after) ==
    /\ callbacks[c] = waitingForEvent
    /\ stats' = after
    /\ UNCHANGED <<vars, adapterVars, ctx, orchestrator, wg, subscriber, callbacks, htlcs>>

handleOrderCreated(c) ==
    counted(c, [stats EXCEPT !.TotalOrders = @ + 1, !.ActiveOrders = @ + 1])
handleOrderCompleted_StillActive(c) == counted(c, [stats EXCEPT !.CompletedOrders = @ + 1])
handleOrderCompleted(c) ==
    counted(c, [stats EXCEPT !.CompletedOrders = @ + 1, !.ActiveOrders = @ - 1])
handleHTLCClaimed(c) == counted(c, [stats EXCEPT !.SuccessfulSwaps = @ + 1])

\* GetOrder: an error or an unknown order ends the handler.
handleOrderExecuted(c, o) ==
    /\ callbacks[c] = waitingForEvent
    /\ \/ Fails /\ UNCHANGED callbacks
       \/ /\ Succeeds /\ orders[o] # NoRow
          /\ callbacks' = [callbacks EXCEPT ![c] =
                 [pc |-> "update", order |-> o, row |-> orders[o]]]
    /\ UNCHANGED <<orders, history, timeLeft, engineVars, serviceVars, adapterVars,
                   ctx, orchestrator, wg, subscriber, stats, htlcs>>

\* The row is written back as executing, whatever its status was.
writeExecuting(c) ==
    LET call == callbacks[c] IN
    /\ call.pc = "update"
    /\ \/ Fails /\ UNCHANGED orders
       \/ Succeeds /\ UpdateOrder(call.order, [call.row EXCEPT !.status = "executing"])
    /\ callbacks' = [callbacks EXCEPT ![c] = waitingForEvent]
    /\ UNCHANGED <<history, timeLeft, engineVars, serviceVars, adapterVars,
                   ctx, orchestrator, wg, subscriber, stats, htlcs>>

\* The adapter may be gone by now, or fail to tell the HTLC's status.
handleHTLCCreated(c, a) ==
    /\ callbacks[c] = waitingForEvent
    /\ GetAdapter(c)
    /\ callbacks' = [callbacks EXCEPT ![c] = [pc |-> "record", address |-> a]]
    /\ UNCHANGED <<vars, adapterVars, ctx, orchestrator, wg, subscriber, stats, htlcs>>

\* The address is the table's key, and the order must exist.
storable_AnyOrder(a) == a \notin DOMAIN htlcs
storable(a) == a \notin DOMAIN htlcs /\ HTLCOrder[a] \in Inserted

CreateHTLCRow(a) ==
    \/ Fails /\ UNCHANGED htlcs
    \/ Succeeds /\ ~storable(a) /\ UNCHANGED htlcs
    \/ /\ Succeeds /\ storable(a)
       /\ htlcs' = [b \in DOMAIN htlcs \cup {a} |-> HTLCOrder[b]]

recordHTLC(c) ==
    /\ callbacks[c].pc = "record"
    /\ CreateHTLCRow(callbacks[c].address)
    /\ callbacks' = [callbacks EXCEPT ![c] = waitingForEvent]
    /\ UNCHANGED <<orders, history, timeLeft, engineVars, serviceVars, adapterVars,
                   ctx, orchestrator, wg, subscriber, stats>>

\* what goes on once an event is being handled
handleEvent(c) == writeExecuting(c) \/ recordHTLC(c)

-----------------------------------------------------------------------------
(* orderMonitor: OrderService's, while its goroutine runs.  An order is    *)
(* counted as failed also when the update failed.                          *)

countExpired ==
    /\ expireOrder
    /\ stats' = [stats EXCEPT !.FailedOrders = @ + 1, !.ActiveOrders = @ - 1]
    /\ UNCHANGED <<adapterVars, ctx, orchestrator, wg, subscriber, callbacks, htlcs>>

MonitorOrders ==
    \/ /\ "orderMonitor" \in wg /\ checkOrderTimeouts
       /\ UNCHANGED <<adapterVars, orchestratorVars>>
    \/ countExpired
=============================================================================
