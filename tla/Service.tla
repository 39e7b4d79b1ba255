------------------------------ MODULE Service ------------------------------
(***************************************************************************)
(* The orchestrator process (cmd/main.go): the engine, the orchestrator    *)
(* with its chain adapters and the API on one order store, from the start  *)
(* to the shutdown on a signal.                                            *)
(*                                                                         *)
(* What comes from outside, a request, an event, a swap or a signal, comes *)
(* from a Load, a number of each kind, in any order and at any time.       *)
(***************************************************************************)
EXTENDS ApiFront, Orchestrator

CONSTANT Loads        \* bound: each a number of every kind of stimulus

Events == {"created", "executed", "completed", "htlc", "claimed"}
Stimuli == Ops \cup Events \cup {"row", "tick", "second", "registry", "swap", "hour", "start", "signal"}

ASSUME LoadsAssumption == Loads \subseteq [Stimuli -> Nat]

VARIABLES
    main,             \* the main goroutine: "up", "cancelled", "shutdown", "exited"
                      \* or, when the runtime ends the process, "crashed"
    engineWg,         \* the goroutines of the engine that still run
    left              \* the stimuli to come

lifeVars == <<main, engineWg, left>>
allVars == <<vars, frontVars, changes, adapterVars, orchestratorVars, lifeVars>>

EngineGoroutines == {"orderProcessor", "executionWorker"}

ServiceInit ==
    /\ Init /\ InitFront /\ InitAdapters /\ InitOrchestrator
    /\ main = "up"
    /\ engineWg = EngineGoroutines
    /\ left \in Loads

running == main \notin {"exited", "crashed"}

comes(kind) == /\ left[kind] > 0
               /\ left' = [left EXCEPT ![kind] = @ - 1]
               /\ UNCHANGED <<main, engineWg>>

-----------------------------------------------------------------------------
(* Goroutines                                                              *)

\* The server takes connections until it is shut down.
Receive ==
    /\ main \in {"up", "cancelled"}
    /\ \E h \in Callers, op \in Ops, k \in Keys :
          /\ (op = "price") = (k = Pair)
          /\ comes(op) /\ receive(h, op, k)
    /\ UNCHANGED <<adapterVars, orchestratorVars>>

Serve(h) == serve(h) /\ UNCHANGED <<adapterVars, orchestratorVars, lifeVars>>

Process ==
    /\ "orderProcessor" \in engineWg
    /\ Processor
    /\ UNCHANGED <<serviceVars, frontVars, adapterVars, orchestratorVars, lifeVars>>

\* It chooses among the queue and the context when both are ready.
Work ==
    /\ "executionWorker" \in engineWg
    /\ work
    /\ UNCHANGED <<adapterVars, orchestratorVars, lifeVars>>

\* Requests may be left in the queue.
engineGoroutineEnds(g) ==
    /\ g \in engineWg /\ ctx = "cancelled"
    /\ g = "orderProcessor" => processor = idleProcessor
    /\ g = "executionWorker" => worker = idleWorker
    /\ engineWg' = engineWg \ {g}
    /\ UNCHANGED <<vars, frontVars, adapterVars, orchestratorVars, main, left>>

\* A load without a start ends before the orchestrator's goroutine first runs.
StartOrchestrator == comes("start") /\ startOrchestrator /\ UNCHANGED frontVars

Orchestrate == (GoOnAndStop \/ MonitorOrders) /\ UNCHANGED <<frontVars, lifeVars>>

CallBack(c) == handleEvent(c) /\ UNCHANGED <<frontVars, lifeVars>>

ReceiveEvent ==
    /\ \E c \in EventChains :
          \/ comes("created") /\ handleOrderCreated(c)
          \/ comes("executed") /\ \E o \in Orders : handleOrderExecuted(c, o)
          \/ comes("completed") /\ handleOrderCompleted(c)
          \/ comes("htlc") /\ \E a \in Addresses : handleHTLCCreated(c, a)
          \/ comes("claimed") /\ handleHTLCClaimed(c)
    /\ UNCHANGED frontVars

-----------------------------------------------------------------------------
(* The rest of the world                                                   *)

insertRow ==
    /\ comes("row")
    /\ \E o \in Orders : createOrder(o)
    /\ UNCHANGED <<frontVars, adapterVars, orchestratorVars>>

ChangeAdapters ==
    /\ comes("registry")
    /\ \E c \in SwapChains : AddAdapter(c) \/ RemoveAdapter(c)
    /\ UNCHANGED <<vars, frontVars, orchestratorVars>>

StartSwap == comes("swap") /\ ExecuteCrossChainSwap /\ UNCHANGED <<vars, frontVars, orchestratorVars>>

GoOnSwapping ==
    /\ \/ ExecuteSwap
       \/ \E c \in SwapChains : claimHTLC(c) \/ refundHTLC(c)
    /\ UNCHANGED <<vars, frontVars, orchestratorVars, lifeVars>>

\* Time of the orders, of the limiters and of the chains.
PassTime ==
    \/ /\ comes("tick") /\ Tick
       /\ callbacks' = [c \in EventChains |->
              IF callbacks[c].pc = "update" THEN [callbacks[c] EXCEPT !.row = older(@)]
              ELSE callbacks[c]]
       /\ UNCHANGED <<ctx, orchestrator, wg, subscriber, stats, htlcs, frontVars, adapterVars>>
    \/ /\ comes("second") /\ limiterTick
       /\ UNCHANGED <<adapterVars, orchestratorVars>>
    \/ /\ comes("hour") /\ Hour
       /\ UNCHANGED <<vars, frontVars, orchestratorVars>>

-----------------------------------------------------------------------------
(* The end                                                                 *)

signal ==
    /\ main = "up" /\ left.signal > 0
    /\ main' = "cancelled" /\ ctx' = "cancelled"
    /\ UNCHANGED <<vars, frontVars, adapterVars, orchestrator, wg, subscriber, callbacks,
                   stats, htlcs, engineWg, left>>

Shutdown ==
    /\ main = "cancelled"
    /\ main' = "shutdown"
    /\ UNCHANGED <<vars, frontVars, adapterVars, orchestratorVars, engineWg, left>>

\* server.Shutdown waits for the requests, but for no other goroutine.
serverIsIdle == \A h \in Callers : at(h, "idle")

exit ==
    /\ main = "shutdown" /\ serverIsIdle
    /\ main' = "exited"
    /\ UNCHANGED <<vars, frontVars, adapterVars, orchestratorVars, engineWg, left>>

\* shutdownCtx
exitAfterTimeout ==
    /\ main = "shutdown" /\ ~serverIsIdle
    /\ main' = "exited"
    /\ UNCHANGED <<vars, frontVars, adapterVars, orchestratorVars, engineWg, left>>

crash ==
    /\ concurrentMapAccess
    /\ main' = "crashed"
    /\ UNCHANGED <<vars, frontVars, adapterVars, orchestratorVars, engineWg, left>>

-----------------------------------------------------------------------------

Goroutine ==
    \/ \E h \in Callers : Serve(h)
    \/ Process \/ Work \/ \E g \in EngineGoroutines : engineGoroutineEnds(g)
    \/ StartOrchestrator \/ Orchestrate
    \/ \E c \in EventChains : CallBack(c)

World == Receive \/ ReceiveEvent \/ insertRow \/ ChangeAdapters \/ StartSwap
         \/ GoOnSwapping \/ PassTime

ServiceNext ==
    /\ running
    /\ \/ Goroutine \/ World
       \/ signal \/ Shutdown \/ exit \/ exitAfterTimeout \/ crash
    /\ countChanges

ServiceSpec == ServiceInit /\ [][ServiceNext]_allVars

\* A goroutine that can run runs. Nothing has to come from outside, and the
\* thirty seconds of shutdownCtx are longer than what a request has to do.
ServiceFairness ==
    /\ \A h \in Callers : WF_allVars(running /\ Serve(h) /\ countChanges)
    /\ WF_allVars(running /\ Work /\ countChanges)
    /\ \A g \in EngineGoroutines : WF_allVars(running /\ engineGoroutineEnds(g) /\ countChanges)
    /\ WF_allVars(running /\ StartOrchestrator /\ countChanges)
    /\ WF_allVars(running /\ GoOnAndStop /\ countChanges /\ UNCHANGED <<frontVars, lifeVars>>)
    /\ WF_allVars(running /\ MonitorOrders /\ countChanges /\ UNCHANGED <<frontVars, lifeVars>>)
    /\ WF_allVars(running /\ Shutdown /\ countChanges)
    /\ WF_allVars(running /\ exit /\ countChanges)

FairServiceSpec == ServiceSpec /\ ServiceFairness
=============================================================================
