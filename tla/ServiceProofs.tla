---------------------------- MODULE ServiceProofs ----------------------------
(***************************************************************************)
(* Theorems about the whole service: what was proved of the order service  *)
(* and of the chain adapters holds among all the other goroutines, the     *)
(* counters match, finished orders stay finished, every variable has its   *)
(* type, no cached response is left from before a change that a client     *)
(* was told of, and requests are limited however they overlap.             *)
(***************************************************************************)
EXTENDS ServiceProperties, OrderServiceProofs, ChainAdaptersProofs

-----------------------------------------------------------------------------
(* The adapters within the service.                                        *)

LEMMA ConnectingIsAStep ==
    ASSUME NEW failed \in SUBSET DOMAIN adapters,
           ConnectAll(failed) \/ DisconnectAll(failed),
           UNCHANGED <<swap, chainHTLCs, hours>>
    PROVE  AdapterNext
BY DEF AdapterNext

LEMMA StartingIsAStep ==
    ASSUME startOrchestrator \/ stopOrchestrator
    PROVE  AdapterNext
BY ConnectingIsAStep DEF startOrchestrator, stopOrchestrator

LEMMA AdapterSteps == [ServiceNext]_allVars => [AdapterNext]_adapterVars
<1> SUFFICES ASSUME [ServiceNext]_allVars PROVE [AdapterNext]_adapterVars
  OBVIOUS
<1>1. CASE Goroutine
  <2>1. CASE StartOrchestrator
    BY <2>1, StartingIsAStep DEF StartOrchestrator
  <2>2. CASE Orchestrate
    BY <2>2, StartingIsAStep DEF Orchestrate, GoOnAndStop, MonitorOrders, countExpired,
       subscribe, goroutineEnds
  <2>3. CASE UNCHANGED adapterVars
    BY <2>3
  <2> QED BY <1>1, <2>1, <2>2, <2>3 DEF Goroutine, Serve, Process, Work, engineGoroutineEnds,
         CallBack, handleEvent, writeExecuting, recordHTLC
<1>2. CASE World
  <2>1. CASE UNCHANGED adapterVars
    BY <2>1
  <2>2. CASE ChangeAdapters \/ StartSwap \/ GoOnSwapping
    BY <2>2 DEF ChangeAdapters, StartSwap, GoOnSwapping, AdapterNext
  <2>3. CASE PassTime
    BY <2>3 DEF PassTime, AdapterNext
  <2>4. (Receive \/ ReceiveEvent \/ insertRow) => UNCHANGED adapterVars
    BY DEF Receive, ReceiveEvent, insertRow, handleOrderCreated, handleOrderExecuted,
       handleOrderCompleted, handleHTLCCreated, handleHTLCClaimed, counted
  <2> QED BY <1>2, <2>1, <2>2, <2>3, <2>4 DEF World
<1>3. CASE signal \/ Shutdown \/ exit \/ exitAfterTimeout \/ crash
  BY <1>3 DEF signal, Shutdown, exit, exitAfterTimeout, crash
<1>4. CASE UNCHANGED allVars
  BY <1>4 DEF allVars
<1> QED BY <1>1, <1>2, <1>3, <1>4 DEF ServiceNext

\* Whatever the rest of the service does, while adapters connect, fail, come and
\* go, the two HTLCs of a cross-chain swap implement the atomic swap
\* (manager.go ExecuteCrossChainSwap, orchestrator.go Start).
THEOREM ServiceImplementsAtomicSwap == ServiceSpec => AtomicSwapSpec
<1>1. ServiceInit => InitAdapters
  BY DEF ServiceInit
<1>2. ServiceSpec => AdapterSpec
  BY <1>1, AdapterSteps, PTL DEF ServiceSpec, AdapterSpec
<1> QED BY <1>2, AdaptersImplementAtomicSwap

-----------------------------------------------------------------------------
(* The order service within the service: its own steps, a call of the      *)
(* database that changes nothing, and what an executed event writes.       *)

\* what a handler that is to cancel or execute is about
underWay(r) == r.pc \notin {"idle", "forget", "respond"}
KnowsOrder(r) ==
    underWay(r) /\ r.op \in {"cancel", "execute"} => r.key \in Orders

Callback == {noEvents, waitingForEvent}
    \cup [pc : {"update"}, order : Orders, row : Row]
    \cup [pc : {"record"}, address : Addresses]

RequestsKnowOrders ==
    /\ requests = [h \in Callers |-> requests[h]]
    /\ \A h \in Callers : KnowsOrder(requests[h])

CallbacksTypeOK == callbacks \in [EventChains -> Callback]

ServiceInv == IInv /\ RequestsKnowOrders /\ CallbacksTypeOK /\ left \in [Stimuli -> Nat]

\* steps of the order service but that of an expiry, which is counted here
NextButExpiry ==
    \/ Handlers
    \/ (Processor \/ Worker) /\ UNCHANGED serviceVars
    \/ checkOrderTimeouts
    \/ Tick

OnlyCalls == (Fails \/ Succeeds) /\ UNCHANGED <<orders, history, timeLeft, engineVars, serviceVars>>

LEMMA ServeSteps ==
    ASSUME RequestsKnowOrders, NEW h \in Callers, serve(h)
    PROVE  NextButExpiry \/ UNCHANGED vars \/ OnlyCalls
<1>1. h \in Cancellers
  BY ApiAssumption
<1>2. serving(h, "cancel") \/ serving(h, "execute") => key(h) \in Orders
  BY DEF RequestsKnowOrders, KnowsOrder, underWay, serving, at, key
<1>3. CASE startCancel(h)
  BY <1>1, <1>2, <1>3 DEF startCancel, NextButExpiry, Handlers, OnlyCalls
<1>4. CASE finishCancel(h)
  BY <1>1, <1>4 DEF finishCancel, NextButExpiry, Handlers
<1>5. CASE startExecution(h)
  BY <1>2, <1>5 DEF startExecution, NextButExpiry, Handlers, Caller, OnlyCalls, serviceVars
<1>6. CASE requestExecution(h)
  BY <1>6 DEF requestExecution, NextButExpiry, Handlers, Caller
<1>7. CASE getOrder(h)
  BY <1>7 DEF getOrder, OnlyCalls
<1> QED BY <1>3, <1>4, <1>5, <1>6, <1>7 DEF serve, checkRateLimit, lookupLimiter, insertLimiter,
       admitted, refillLimiter, takeToken, look, refuseCreate, clearCache, getFromCache,
       getTWAPPrice, setCache, clearOrderCache, respondSuccess

LEMMA OrderSteps ==
    ASSUME RequestsKnowOrders, [ServiceNext]_allVars
    PROVE  \/ NextButExpiry \/ UNCHANGED vars \/ OnlyCalls
           \/ countExpired
           \/ \E c \in EventChains : writeExecuting(c)
<1>1. CASE Goroutine
  <2>1. ASSUME NEW h \in Callers, Serve(h) PROVE NextButExpiry \/ UNCHANGED vars \/ OnlyCalls
    BY <2>1, ServeSteps DEF Serve
  <2>2. CASE Process
    BY <2>2 DEF Process, NextButExpiry
  <2>3. CASE Work
    BY <2>3 DEF Work, work, NextButExpiry
  <2>4. CASE StartOrchestrator
    BY <2>4 DEF StartOrchestrator, startOrchestrator, adaptersFail, OnlyCalls
  <2>5. CASE Orchestrate
    BY <2>5 DEF Orchestrate, GoOnAndStop, subscribe, stopOrchestrator, goroutineEnds,
       MonitorOrders, adaptersFail, OnlyCalls, NextButExpiry
  <2>6. ASSUME NEW c \in EventChains, CallBack(c), ~writeExecuting(c) PROVE OnlyCalls
    BY <2>6 DEF CallBack, handleEvent, recordHTLC, CreateHTLCRow, OnlyCalls
  <2> QED BY <1>1, <2>1, <2>2, <2>3, <2>4, <2>5, <2>6 DEF Goroutine, engineGoroutineEnds
<1>2. CASE World
  <2>1. CASE ReceiveEvent
    BY <2>1 DEF ReceiveEvent, handleOrderCreated, handleOrderExecuted, handleOrderCompleted,
       handleHTLCCreated, handleHTLCClaimed, counted, OnlyCalls
  <2>2. CASE insertRow
    BY <2>2 DEF insertRow, NextButExpiry, Handlers
  <2>3. CASE PassTime
    BY <2>3 DEF PassTime, NextButExpiry, limiterTick
  <2> QED BY <1>2, <2>1, <2>2, <2>3 DEF World, Receive, receive, ChangeAdapters, StartSwap,
         GoOnSwapping
<1>3. CASE signal \/ Shutdown \/ exit \/ exitAfterTimeout \/ crash
  BY <1>3 DEF signal, Shutdown, exit, exitAfterTimeout, crash
<1>4. CASE UNCHANGED allVars
  BY <1>4 DEF allVars
<1> QED BY <1>1, <1>2, <1>3, <1>4 DEF ServiceNext

LEMMA OrderServiceSteps ==
    ASSUME RequestsKnowOrders, [ServiceNext]_allVars
    PROVE  \/ Next \/ UNCHANGED vars \/ OnlyCalls
           \/ \E c \in EventChains : writeExecuting(c)
BY OrderSteps DEF NextButExpiry, countExpired, Next, Monitor

LEMMA UnchangedIInv ==
    ASSUME IInv, UNCHANGED <<orders, history, timeLeft, engineVars, serviceVars>>,
           failures' \in 0..MaxFailures
    PROVE  IInv'
BY DEF IInv, TypeOK, engineVars, serviceVars, StoreTypeOK, ProcessorTypeOK, QueueTypeOK,
   WorkerTypeOK, HandlersTypeOK, ProcessorAtHead

LEMMA WriteExecutingType ==
    ASSUME IInv, CallbacksTypeOK, NEW c \in EventChains, writeExecuting(c)
    PROVE  /\ IInv'
           /\ callbacks[c].pc = "update" /\ callbacks[c].order \in Orders
           /\ [callbacks[c].row EXCEPT !.status = "executing"] \in Row
<1>1. callbacks[c] \in [pc : {"update"}, order : Orders, row : Row]
  BY DEF writeExecuting, CallbacksTypeOK, Callback, noEvents, waitingForEvent
<1>2. [callbacks[c].row EXCEPT !.status = "executing"] \in Row
  BY <1>1, RowWithStatus DEF Status
<1>3. orders' \in [Orders -> Row \cup {NoRow}]
  BY <1>2, UpdateOrderType DEF writeExecuting, IInv, TypeOK, StoreTypeOK
<1>4. failures' \in 0..MaxFailures
  BY FailureType DEF writeExecuting, IInv, TypeOK
<1>5. IInv'
  BY <1>3, <1>4 DEF writeExecuting, IInv, TypeOK, engineVars, serviceVars, StoreTypeOK,
     ProcessorTypeOK, QueueTypeOK, WorkerTypeOK, HandlersTypeOK, ProcessorAtHead
<1> QED BY <1>1, <1>2, <1>5

LEMMA OrdersStayTyped ==
    ASSUME ServiceInv, [ServiceNext]_allVars
    PROVE  IInv'
<1> USE DEF ServiceInv
<1>1. CASE Next
  BY <1>1, NextIInv
<1>2. CASE UNCHANGED vars
  BY <1>2, NextIInv
<1>3. CASE OnlyCalls
  BY <1>3, FailureType, UnchangedIInv DEF OnlyCalls, IInv, TypeOK
<1>4. ASSUME NEW c \in EventChains, writeExecuting(c) PROVE IInv'
  BY <1>4, WriteExecutingType
<1> QED BY <1>1, <1>2, <1>3, <1>4, OrderServiceSteps

\* Requests keep what they are about.
LEMMA RequestChanged ==
    ASSUME RequestsKnowOrders, NEW h \in Callers, NEW r, KnowsOrder(r),
           requests' = [requests EXCEPT ![h] = r]
    PROVE  RequestsKnowOrders'
BY DEF RequestsKnowOrders

LEMMA RequestGoesOn ==
    ASSUME RequestsKnowOrders, NEW h \in Callers, underWay(requests[h]),
           NEW r, r.op = requests[h].op, r.key = requests[h].key,
           requests' = [requests EXCEPT ![h] = r]
    PROVE  RequestsKnowOrders'
<1>1. KnowsOrder(r)
  BY DEF RequestsKnowOrders, KnowsOrder
<1> QED BY <1>1, RequestChanged

LEMMA RequestAnswered ==
    ASSUME RequestsKnowOrders, NEW h \in Callers, answered(h)
    PROVE  RequestsKnowOrders'
BY RequestChanged DEF answered, KnowsOrder, underWay, idleRequest

LEMMA RequestGoesTo ==
    ASSUME RequestsKnowOrders, NEW h \in Callers, NEW pc, underWay(requests[h]), goTo(h, pc)
    PROVE  RequestsKnowOrders'
<1> DEFINE r == [pc |-> pc, op |-> requests[h].op, key |-> requests[h].key]
<1>1. r.op = requests[h].op /\ r.key = requests[h].key
  OBVIOUS
<1>2. requests' = [requests EXCEPT ![h] = r]
  BY DEF goTo
<1> HIDE DEF r
<1> QED BY <1>1, <1>2, RequestGoesOn

LEMMA ServeKnowsOrders ==
    ASSUME RequestsKnowOrders, NEW h \in Callers, serve(h)
    PROVE  RequestsKnowOrders'
<1>1. CASE UNCHANGED requests
  BY <1>1 DEF RequestsKnowOrders
<1>2. CASE answered(h)
  BY <1>2, RequestAnswered
<1>3. ASSUME NEW pc, underWay(requests[h]), goTo(h, pc) PROVE RequestsKnowOrders'
  BY <1>3, RequestGoesTo
<1>4. ASSUME NEW r, underWay(requests[h]), r.op = requests[h].op, r.key = requests[h].key,
             requests' = [requests EXCEPT ![h] = r]
      PROVE  RequestsKnowOrders'
  BY <1>4, RequestGoesOn
<1>5. CASE lookupLimiter(h)
  <2>1. underWay(requests[h])
    BY <1>5 DEF lookupLimiter, at, underWay
  <2> DEFINE known == limiter[Client[h]]
             r == [pc |-> "refill", op |-> requests[h].op, key |-> requests[h].key,
                   now |-> requests[h].now, held |-> Len(known), found |-> known[Len(known)]]
             s == [pc |-> "insert", op |-> requests[h].op, key |-> requests[h].key,
                   now |-> requests[h].now]
  <2>2. requests' = [requests EXCEPT ![h] = r] \/ requests' = [requests EXCEPT ![h] = s]
    BY <1>5 DEF lookupLimiter
  <2>3. /\ r.op = requests[h].op /\ r.key = requests[h].key
        /\ s.op = requests[h].op /\ s.key = requests[h].key
    OBVIOUS
  <2> HIDE DEF r, s
  <2> QED BY <1>4, <2>1, <2>2, <2>3
<1>6. CASE refillLimiter(h)
  <2>1. underWay(requests[h])
    BY <1>6 DEF refillLimiter, at, underWay
  <2>2. PICK tokens : \/ answered(h)
                      \/ requests' = [requests EXCEPT ![h] =
                             [pc |-> "take", op |-> @.op, key |-> @.key, held |-> @.held,
                              tokens |-> tokens]]
    BY <1>6 DEF refillLimiter
  <2> DEFINE r == [pc |-> "take", op |-> requests[h].op, key |-> requests[h].key,
                   held |-> requests[h].held, tokens |-> tokens]
  <2>3. answered(h) \/ requests' = [requests EXCEPT ![h] = r]
    BY <2>2
  <2>4. r.op = requests[h].op /\ r.key = requests[h].key
    OBVIOUS
  <2> HIDE DEF r
  <2> QED BY <1>2, <1>4, <2>1, <2>3, <2>4
<1>7. CASE getOrder(h) \/ getTWAPPrice(h)
  <2>1. underWay(requests[h])
    BY <1>7 DEF getOrder, getTWAPPrice, at, underWay
  <2> DEFINE r == [pc |-> "fill", op |-> requests[h].op, key |-> requests[h].key,
                   read |-> changes[key(h)]]
  <2>2. answered(h) \/ requests' = [requests EXCEPT ![h] = r]
    BY <1>7 DEF getOrder, getTWAPPrice, fill
  <2>3. r.op = requests[h].op /\ r.key = requests[h].key
    OBVIOUS
  <2> HIDE DEF r
  <2> QED BY <1>2, <1>4, <2>1, <2>2, <2>3
<1>8. CASE insertLimiter(h) \/ takeToken(h)
  <2>1. underWay(requests[h]) /\ goTo(h, "admitted")
    BY <1>8 DEF insertLimiter, takeToken, admitted, at, underWay
  <2> QED BY <1>3, <2>1
<1>9. CASE getFromCache(h) \/ startCancel(h) \/ startExecution(h)
  <2>1. underWay(requests[h])
    BY <1>9 DEF getFromCache, startCancel, startExecution, serving, at, underWay
  <2> QED BY <1>2, <1>3, <1>9, <2>1 DEF getFromCache, startCancel, startExecution
<1>10. CASE finishCancel(h)
  <2>1. forget(h).pc = "forget"
    BY DEF forget
  <2>2. KnowsOrder(forget(h))
    BY <2>1 DEF KnowsOrder, underWay
  <2> QED BY <1>2, <1>10, <2>2, RequestChanged DEF finishCancel
<1>11. CASE requestExecution(h)
  BY <1>1, <1>2, <1>11 DEF requestExecution
<1>12. CASE clearOrderCache(h)
  <2> DEFINE r == [pc |-> "respond", op |-> requests[h].op, key |-> requests[h].key,
                   made |-> requests[h].made]
  <2>1. requests' = [requests EXCEPT ![h] = r] /\ r.pc = "respond"
    BY <1>12 DEF clearOrderCache, cleared
  <2> HIDE DEF r
  <2>2. KnowsOrder(r)
    BY <2>1 DEF KnowsOrder, underWay
  <2> QED BY <2>1, <2>2, RequestChanged
<1> QED BY <1>2, <1>5, <1>6, <1>7, <1>8, <1>9, <1>10, <1>11, <1>12 DEF serve, checkRateLimit,
       look, refuseCreate, clearCache, setCache, respondSuccess

LEMMA RequestsStayTyped ==
    ASSUME RequestsKnowOrders, [ServiceNext]_allVars
    PROVE  RequestsKnowOrders'
<1>1. CASE UNCHANGED requests
  BY <1>1 DEF RequestsKnowOrders
<1>2. CASE Receive
  <2>1. PICK h \in Callers, op \in Ops, k \in Keys :
            /\ (op = "price") = (k = Pair)
            /\ requests' = [requests EXCEPT ![h] =
                   [pc |-> "lookup", op |-> op, key |-> k, now |-> ticks]]
    BY <1>2 DEF Receive, receive
  <2>2. KnowsOrder([pc |-> "lookup", op |-> op, key |-> k, now |-> ticks])
    BY <2>1 DEF KnowsOrder, Keys
  <2> QED BY <2>1, <2>2, RequestChanged
<1>3. ASSUME NEW h \in Callers, Serve(h) PROVE RequestsKnowOrders'
  BY <1>3, ServeKnowsOrders DEF Serve
<1>4. CASE Work
  <2>1. ASSUME NEW h \in Callers PROVE KnowsOrder(requests'[h])
    <3>1. CASE requests'[h] = requests[h]
      BY <3>1 DEF RequestsKnowOrders
    <3>2. CASE requests'[h].pc \in {"idle", "forget"}
      BY <3>2 DEF KnowsOrder, underWay
    <3>3. forget(h).pc = "forget" /\ idleRequest.pc = "idle"
      BY DEF forget, idleRequest
    <3> QED BY <1>4, <2>1, <3>1, <3>2, <3>3 DEF Work, work
  <2>2. requests' = [h \in Callers |-> requests'[h]]
    BY <1>4 DEF Work, work
  <2> QED BY <2>1, <2>2 DEF RequestsKnowOrders
<1>5. CASE Goroutine /\ ~(\E h \in Callers : Serve(h)) /\ ~Work
  BY <1>1, <1>5 DEF Goroutine, Process, engineGoroutineEnds, StartOrchestrator, Orchestrate,
     CallBack, frontVars
<1>6. CASE World /\ ~Receive
  <2>1. UNCHANGED requests
    BY <1>6 DEF World, ReceiveEvent, insertRow, ChangeAdapters, StartSwap, GoOnSwapping,
       PassTime, limiterTick, frontVars
  <2> QED BY <1>1, <2>1
<1>7. CASE signal \/ Shutdown \/ exit \/ exitAfterTimeout \/ crash \/ UNCHANGED allVars
  BY <1>1, <1>7 DEF signal, Shutdown, exit, exitAfterTimeout, crash, allVars, frontVars
<1> QED BY <1>2, <1>3, <1>4, <1>5, <1>6, <1>7 DEF ServiceNext

\* the steps of callbacks
LEMMA CallbacksMove ==
    ASSUME [ServiceNext]_allVars
    PROVE  UNCHANGED callbacks \/ subscribe \/ (\E c : CallBack(c)) \/ ReceiveEvent \/ PassTime
<1>1. CASE Goroutine
  BY <1>1 DEF Goroutine, Serve, Process, Work, engineGoroutineEnds, StartOrchestrator,
     startOrchestrator, Orchestrate, GoOnAndStop, stopOrchestrator, goroutineEnds,
     MonitorOrders, countExpired, orchestratorVars
<1>2. CASE World
  BY <1>2 DEF World, Receive, insertRow, ChangeAdapters, StartSwap, GoOnSwapping,
     orchestratorVars
<1>3. CASE signal \/ Shutdown \/ exit \/ exitAfterTimeout \/ crash \/ UNCHANGED allVars
  BY <1>3 DEF signal, Shutdown, exit, exitAfterTimeout, crash, allVars, orchestratorVars
<1> QED BY <1>1, <1>2, <1>3 DEF ServiceNext

LEMMA CallbacksStayTyped ==
    ASSUME ServiceInv, [ServiceNext]_allVars
    PROVE  CallbacksTypeOK'
<1> USE DEF ServiceInv
<1>1. CASE UNCHANGED callbacks
  BY <1>1 DEF CallbacksTypeOK
<1>2. ASSUME NEW c, NEW call \in Callback, callbacks' = [callbacks EXCEPT ![c] = call]
      PROVE  CallbacksTypeOK'
  BY <1>2 DEF CallbacksTypeOK
<1>3. waitingForEvent \in Callback /\ noEvents \in Callback
  BY DEF Callback
<1>4. CASE subscribe
  BY <1>3, <1>4 DEF subscribe, CallbacksTypeOK
<1>5. ASSUME NEW c, CallBack(c) PROVE CallbacksTypeOK'
  BY <1>2, <1>3, <1>5 DEF CallBack, handleEvent, writeExecuting, recordHTLC
<1>6. CASE ReceiveEvent
  <2>1. ASSUME NEW c, NEW o \in Orders, handleOrderExecuted(c, o) PROVE CallbacksTypeOK'
    <3> DEFINE call == [pc |-> "update", order |-> o, row |-> orders[o]]
    <3>1. \/ UNCHANGED callbacks
          \/ orders[o] # NoRow /\ callbacks' = [callbacks EXCEPT ![c] = call]
      BY <2>1 DEF handleOrderExecuted
    <3>2. orders[o] # NoRow => call \in Callback
      BY DEF Callback, IInv, TypeOK, StoreTypeOK
    <3> HIDE DEF call
    <3> QED BY <1>1, <1>2, <3>1, <3>2
  <2>2. ASSUME NEW c, NEW a \in Addresses, handleHTLCCreated(c, a) PROVE CallbacksTypeOK'
    <3>1. [pc |-> "record", address |-> a] \in Callback
      BY DEF Callback
    <3> QED BY <1>2, <2>2, <3>1 DEF handleHTLCCreated
  <2> QED BY <1>1, <1>6, <2>1, <2>2 DEF ReceiveEvent, handleOrderCreated, handleOrderCompleted,
         handleHTLCClaimed, counted
<1>7. CASE PassTime
  <2>1. CASE callbacks' = [c \in EventChains |->
                 IF callbacks[c].pc = "update" THEN [callbacks[c] EXCEPT !.row = older(@)]
                 ELSE callbacks[c]]
    <3>1. \A call \in Callback : call.pc = "update" =>
              [call EXCEPT !.row = older(call.row)] \in Callback
      BY OlderType DEF Callback, noEvents, waitingForEvent
    <3> QED BY <2>1, <3>1 DEF CallbacksTypeOK
  <2> QED BY <1>1, <1>7, <2>1 DEF PassTime, orchestratorVars
<1> QED BY <1>1, <1>4, <1>5, <1>6, <1>7, CallbacksMove

LEMMA LeftStaysTyped ==
    ASSUME left \in [Stimuli -> Nat], [ServiceNext]_allVars
    PROVE  left' \in [Stimuli -> Nat]
<1>1. CASE UNCHANGED left
  BY <1>1
<1>2. ASSUME NEW kind, comes(kind) PROVE left' \in [Stimuli -> Nat]
  <2>1. CASE kind \in Stimuli
    <3>1. left[kind] - 1 \in Nat
      BY <1>2, <2>1 DEF comes
    <3> QED BY <1>2, <3>1 DEF comes
  <2>2. CASE kind \notin Stimuli
    BY <1>2, <2>2 DEF comes
  <2> QED BY <2>1, <2>2
<1>3. CASE Goroutine
  BY <1>1, <1>2, <1>3 DEF Goroutine, Serve, Process, Work, engineGoroutineEnds,
     StartOrchestrator, Orchestrate, CallBack, lifeVars
<1>4. CASE World
  BY <1>1, <1>2, <1>4 DEF World, Receive, ReceiveEvent, insertRow, ChangeAdapters, StartSwap,
     GoOnSwapping, PassTime, lifeVars
<1>5. CASE signal \/ Shutdown \/ exit \/ exitAfterTimeout \/ crash \/ UNCHANGED allVars
  BY <1>1, <1>5 DEF signal, Shutdown, exit, exitAfterTimeout, crash, allVars, lifeVars
<1> QED BY <1>3, <1>4, <1>5 DEF ServiceNext

LEMMA ServiceInitInv == ServiceInit => ServiceInv
<1> SUFFICES ASSUME ServiceInit PROVE ServiceInv
  OBVIOUS
<1>1. IInv
  BY InitIInv DEF ServiceInit
<1>2. RequestsKnowOrders
  BY DEF ServiceInit, InitFront, RequestsKnowOrders, KnowsOrder, underWay, idleRequest
<1>3. CallbacksTypeOK
  BY DEF ServiceInit, InitOrchestrator, CallbacksTypeOK, Callback
<1>4. left \in [Stimuli -> Nat]
  BY LoadsAssumption DEF ServiceInit
<1> QED BY <1>1, <1>2, <1>3, <1>4 DEF ServiceInv

LEMMA ServiceInvHolds == ServiceSpec => []ServiceInv
<1>1. ServiceInv /\ [ServiceNext]_allVars => ServiceInv'
  BY OrdersStayTyped, RequestsStayTyped, CallbacksStayTyped, LeftStaysTyped DEF ServiceInv
<1> QED BY <1>1, ServiceInitInv, PTL DEF ServiceSpec

-----------------------------------------------------------------------------
(* Finished orders.                                                        *)

LEMMA CallbackSteps ==
    ASSUME ServiceInv, ServiceNext, NEW o \in Orders, NEW c \in EventChains,
           callbacks'[c].pc = "update", callbacks'[c].order = o
    PROVE  \/ callbacks[c].pc = "update" /\ callbacks[c].order = o
           \/ left'.executed < left.executed
<1> USE DEF ServiceInv
<1>1. CASE UNCHANGED callbacks
  BY <1>1
<1>2. CASE subscribe
  BY <1>2 DEF subscribe, noEvents, waitingForEvent
<1>3. ASSUME NEW d, CallBack(d)
      PROVE  callbacks[c].pc = "update" /\ callbacks[c].order = o
  <2>1. callbacks' = [callbacks EXCEPT ![d] = waitingForEvent]
    BY <1>3 DEF CallBack, handleEvent, writeExecuting, recordHTLC
  <2> QED BY <2>1 DEF CallbacksTypeOK, waitingForEvent
<1>4. CASE ReceiveEvent
  <2>1. ASSUME comes("executed") PROVE left'.executed < left.executed
    <3>1. "executed" \in Stimuli
      BY DEF Stimuli, Events
    <3>2. left["executed"] \in Nat
      BY <3>1
    <3> QED BY <2>1, <3>1, <3>2 DEF comes
  <2>2. ASSUME NEW d, NEW a \in Addresses, handleHTLCCreated(d, a)
        PROVE  callbacks[c].pc = "update" /\ callbacks[c].order = o
    <3>1. callbacks' = [callbacks EXCEPT ![d] = [pc |-> "record", address |-> a]]
      BY <2>2 DEF handleHTLCCreated
    <3> QED BY <3>1 DEF CallbacksTypeOK
  <2> QED BY <1>1, <1>4, <2>1, <2>2 DEF ReceiveEvent, handleOrderCreated, handleOrderCompleted,
         handleHTLCClaimed, counted
<1>5. CASE PassTime
  <2>1. CASE callbacks' = [d \in EventChains |->
                 IF callbacks[d].pc = "update" THEN [callbacks[d] EXCEPT !.row = older(@)]
                 ELSE callbacks[d]]
    BY <2>1 DEF CallbacksTypeOK, Callback, noEvents, waitingForEvent
  <2> QED BY <1>1, <1>5, <2>1 DEF PassTime, orchestratorVars
<1> QED BY <1>1, <1>2, <1>3, <1>4, <1>5, CallbacksMove

LEMMA UnchangedVarsLeaveAlone ==
    ASSUME UNCHANGED <<orders, engineVars, serviceVars>>, NEW o \in Orders, ~Working(o)
    PROVE  LeftAlone(o)
BY DEF LeftAlone, Working, engineVars, serviceVars

LEMMA ServiceLeavesAlone ==
    ASSUME ServiceInv, ServiceNext, NEW o \in Orders, Finished(o), ~Held(o)
    PROVE  LeftAlone(o)
<1> USE DEF ServiceInv
<1>1. ~Working(o)
  BY DEF Held
<1>2. CASE Next
  BY <1>1, <1>2, HandlersLeaveAlone, ProcessorLeavesAlone, WorkerLeavesAlone,
     MonitorLeavesAlone, TickLeavesAlone, RestartLeavesAlone DEF Next
<1>3. CASE UNCHANGED vars \/ OnlyCalls
  BY <1>1, <1>3, UnchangedVarsLeaveAlone DEF vars, storeVars, OnlyCalls
<1>4. ASSUME NEW c \in EventChains, writeExecuting(c) PROVE LeftAlone(o)
  <2>1. callbacks[c].order # o
    BY <1>4 DEF writeExecuting, Held
  <2>2. orders'[o] = orders[o]
    BY <1>4, <2>1 DEF writeExecuting, UpdateOrder, IInv, TypeOK, StoreTypeOK
  <2> QED BY <1>1, <1>4, <2>2 DEF writeExecuting, LeftAlone, Working, engineVars, serviceVars
<1> QED BY <1>2, <1>3, <1>4, OrderServiceSteps

\* A finished order that nobody works on is left alone by all of the service but
\* an executed event or a request to execute it
\* (orchestrator.go handleOrderExecuted, routes.go executeOrder).
THEOREM FinishedStaysFinishedHolds == ServiceSpec => FinishedStaysFinished
<1>1. ASSUME ServiceInv, [ServiceNext]_allVars
      PROVE  [\A o \in Orders : Finished(o) /\ ~Held(o) =>
                /\ orders'[o] \in {orders[o], older(orders[o])}
                /\ Held(o)' => \/ left'.executed < left.executed
                               \/ \E h \in Callers : calls'[h] # calls[h]]_allVars
  <2> SUFFICES ASSUME ServiceNext, NEW o \in Orders, Finished(o), ~Held(o)
               PROVE  /\ orders'[o] \in {orders[o], older(orders[o])}
                      /\ Held(o)' => \/ left'.executed < left.executed
                                     \/ \E h \in Callers : calls'[h] # calls[h]
    BY <1>1
  <2>1. LeftAlone(o)
    BY <1>1, ServiceLeavesAlone
  <2>2. (\E c \in EventChains : callbacks'[c].pc = "update" /\ callbacks'[c].order = o)
            => left'.executed < left.executed
    BY <1>1, CallbackSteps DEF Held
  <2> QED BY <2>1, <2>2 DEF LeftAlone, Held
<1> QED BY <1>1, ServiceInvHolds, PTL DEF ServiceSpec, FinishedStaysFinished

-----------------------------------------------------------------------------
(* Counters.                                                               *)

Expired == {o \in Orders : orders[o].status = "expired"}

Counters == [TotalOrders : Int, ActiveOrders : Int, CompletedOrders : Int,
             FailedOrders : Int, SuccessfulSwaps : Int]

CountersInv ==
    /\ ServiceInv
    /\ stats \in Counters
    /\ worker.pc \in {"record", "update"} => worker.row.status # "expired"
    /\ CountersMatch

\* Of all who write a row, only the monitor writes one that is expired.
LEMMA ExpiredByMonitor ==
    ASSUME CountersInv, [ServiceNext]_allVars, ~countExpired, NEW o \in Orders,
           orders'[o].status = "expired"
    PROVE  orders[o].status = "expired"
<1> USE DEF CountersInv, ServiceInv, IInv, TypeOK
<1>1. orders \in [Orders -> Row \cup {NoRow}]
  BY DEF StoreTypeOK
<1>2. ASSUME NEW p, NEW row, UpdateOrder(p, row), row.status # "expired"
      PROVE  orders[o].status = "expired"
  BY <1>1, <1>2 DEF UpdateOrder
<1>3. ASSUME NEW row \in Row, NEW status \in Status
      PROVE  [row EXCEPT !.status = status].status = status
  BY DEF Row
<1>4. CASE UNCHANGED orders
  BY <1>4
<1>5. CASE NextButExpiry
  <2>1. ASSUME NEW p \in Orders, createOrder(p) PROVE orders[o].status = "expired"
    BY <1>1, <2>1 DEF createOrder, CreateOrder
  <2>2. ASSUME NEW c \in Cancellers, writeCancelled(c) PROVE orders[o].status = "expired"
    <3>1. cancels[c].row \in Row
      BY <2>2 DEF writeCancelled, HandlersTypeOK, CancelType, idleCancel
    <3>2. [cancels[c].row EXCEPT !.status = "cancelled"].status # "expired"
      BY <1>3, <3>1 DEF Status
    <3> QED BY <1>2, <1>4, <2>2, <3>2 DEF writeCancelled
  <2>3. CASE completeOrder
    <3>1. processor.batch \in Seq(Item) /\ processor.batch # <<>>
      BY <2>3 DEF completeOrder, ProcessorTypeOK
    <3>2. Head(processor.batch).row \in Row
      BY <3>1, HeadAndTail DEF Item
    <3>3. [Head(processor.batch).row EXCEPT !.status = "completed"].status # "expired"
      BY <1>3, <3>2 DEF Status
    <3> QED BY <1>2, <1>4, <2>3, <3>3 DEF completeOrder
  <2>4. CASE updateOrder
    BY <1>2, <1>4, <2>4 DEF updateOrder
  <2>5. CASE Tick
    <3>1. orders'[o] = older(orders[o]) /\ orders[o] \in Row \cup {NoRow}
      BY <1>1, <2>5 DEF Tick
    <3> QED BY <3>1, OlderType, OlderNoRow
  <2> QED BY <1>4, <1>5, <2>1, <2>2, <2>3, <2>4, <2>5 DEF NextButExpiry, Handlers, Caller,
         Processor, Worker, storeVars, cancelOrder, ExecuteOrderManually, readHistory,
         enqueueCall, processExecutableOrders, processOrder, enqueue, takeRequest,
         executeInterval, recordExecution, checkOrderTimeouts
<1>6. ASSUME NEW c \in EventChains, writeExecuting(c) PROVE orders[o].status = "expired"
  <2>1. callbacks[c].row \in Row
    BY <1>6 DEF writeExecuting, CallbacksTypeOK, Callback, noEvents, waitingForEvent
  <2>2. [callbacks[c].row EXCEPT !.status = "executing"].status # "expired"
    BY <1>3, <2>1 DEF Status
  <2> QED BY <1>2, <1>4, <1>6, <2>2 DEF writeExecuting
<1> QED BY <1>4, <1>5, <1>6, OrderSteps DEF OnlyCalls, vars, storeVars

LEMMA ExecutedIsNotExpired ==
    ASSUME CountersInv, [ServiceNext]_allVars, worker'.pc \in {"record", "update"}
    PROVE  worker'.row.status # "expired"
<1> USE DEF CountersInv, ServiceInv, IInv, TypeOK
<1>1. CASE UNCHANGED worker
  BY <1>1
<1>2. CASE executeInterval /\ ~failExecution
  <2>1. PICK amount, price : worker'.row = afterExecution(worker.request,
                                               orders[worker.request.order], amount, price)
    BY <1>2, ExecutionStep
  <2>2. orders[worker.request.order] \in Row \cup {NoRow}
    BY <1>2, ExecutionStep DEF StoreTypeOK, Request
  <2> QED BY <2>1, <2>2 DEF afterExecution, Row, NoRow
<1>3. CASE recordExecution
  BY <1>3 DEF recordExecution, WorkerTypeOK, idleWorker
<1>4. CASE Tick
  <2>1. worker.pc \in {"record", "update"} /\ worker.row \in Row
        /\ worker'.row = older(worker.row)
    BY <1>4 DEF Tick, WorkerTypeOK, idleWorker
  <2> QED BY <2>1, OlderType
<1>5. ~takeRequest /\ ~updateOrder /\ ~failExecution /\ ~Restart
  BY DEF takeRequest, updateOrder, failExecution, Restart, idleWorker
<1>6. CASE Next
  BY <1>1, <1>2, <1>3, <1>4, <1>5, <1>6 DEF Next, Handlers, Caller, Processor, Worker, Monitor,
     engineVars, createOrder, cancelOrder, writeCancelled, ExecuteOrderManually, readHistory,
     enqueueCall, processExecutableOrders, processOrder, completeOrder, enqueue,
     executeInterval, checkOrderTimeouts, expireOrder
<1> QED BY <1>1, <1>6, OrderServiceSteps DEF OnlyCalls, vars, engineVars, writeExecuting

\* A step of the counters: an event counted, an expiry counted, or none.
LEMMA CountersSteps ==
    ASSUME [ServiceNext]_allVars
    PROVE  \/ UNCHANGED stats
           \/ countExpired
           \/ \E c : handleOrderCreated(c) \/ handleOrderCompleted(c) \/ handleHTLCClaimed(c)
<1>1. CASE Goroutine
  BY <1>1 DEF Goroutine, Serve, Process, Work, engineGoroutineEnds, StartOrchestrator,
     startOrchestrator, Orchestrate, GoOnAndStop, subscribe, stopOrchestrator, goroutineEnds,
     MonitorOrders, CallBack, handleEvent, writeExecuting, recordHTLC, orchestratorVars
<1>2. CASE World
  <2>1. CASE ReceiveEvent
    BY <2>1 DEF ReceiveEvent, handleOrderExecuted, handleHTLCCreated
  <2> QED BY <1>2, <2>1 DEF World, Receive, insertRow, ChangeAdapters, StartSwap, GoOnSwapping,
         PassTime, orchestratorVars
<1>3. CASE signal \/ Shutdown \/ exit \/ exitAfterTimeout \/ crash \/ UNCHANGED allVars
  BY <1>3 DEF signal, Shutdown, exit, exitAfterTimeout, crash, allVars, orchestratorVars
<1> QED BY <1>1, <1>2, <1>3 DEF ServiceNext

LEMMA NextCountersInv ==
    ASSUME CountersInv, [ServiceNext]_allVars
    PROVE  CountersInv'
<1>1. ServiceInv'
  BY OrdersStayTyped, RequestsStayTyped, CallbacksStayTyped, LeftStaysTyped
     DEF CountersInv, ServiceInv
<1>2. (worker.pc \in {"record", "update"} => worker.row.status # "expired")'
  BY ExecutedIsNotExpired
<1>3. /\ IsFiniteSet(Expired) /\ Cardinality(Expired) \in Nat
      /\ IsFiniteSet(Expired') /\ Cardinality(Expired') \in Nat
  BY OrdersAssumption, FS_Subset, FS_CardinalityType DEF Expired
<1>4. stats \in Counters /\ CountersMatch
  BY DEF CountersInv
<1> DEFINE t == stats.TotalOrders
           a == stats.ActiveOrders
           d == stats.CompletedOrders
           f == stats.FailedOrders
           Now(t1, a1, d1, f1) ==
               /\ stats' \in Counters
               /\ stats'.TotalOrders = t1 /\ stats'.ActiveOrders = a1
               /\ stats'.CompletedOrders = d1 /\ stats'.FailedOrders = f1
<1>5. /\ stats.ActiveOrders = stats.TotalOrders - stats.CompletedOrders - stats.FailedOrders
      /\ Cardinality(Expired) <= stats.FailedOrders
  BY <1>4 DEF CountersMatch, Expired
<1>6. /\ stats' \in Counters
      /\ stats'.ActiveOrders = stats'.TotalOrders - stats'.CompletedOrders - stats'.FailedOrders
      /\ Cardinality(Expired') <= stats'.FailedOrders
  <2>1. CASE ~countExpired
    <3>1. Expired' \subseteq Expired
      BY <2>1, ExpiredByMonitor DEF Expired
    <3>2. Cardinality(Expired') <= Cardinality(Expired)
      BY <1>3, <3>1, FS_Subset
    <3>3. /\ stats' \in Counters /\ stats'.FailedOrders = stats.FailedOrders
          /\ stats'.ActiveOrders = stats'.TotalOrders - stats'.CompletedOrders
                                                     - stats'.FailedOrders
      <4>1. t \in Int /\ a \in Int /\ d \in Int /\ f \in Int
        BY <1>4 DEF Counters
      <4>2. CASE UNCHANGED stats
        BY <1>4, <1>5, <4>2
      <4>3. ASSUME NEW c, handleOrderCreated(c) PROVE Now(t + 1, a + 1, d, f)
        <5>1. stats' = [stats EXCEPT !.TotalOrders = t + 1, !.ActiveOrders = a + 1]
          BY <4>3 DEF handleOrderCreated, counted
        <5>2. t + 1 \in Int /\ a + 1 \in Int
          BY <4>1
        <5> HIDE DEF t, a
        <5>3. stats \in Counters
          BY <1>4
        <5>4. /\ stats' \in Counters
              /\ stats'.TotalOrders = t + 1 /\ stats'.ActiveOrders = a + 1
              /\ stats'.CompletedOrders = stats.CompletedOrders
              /\ stats'.FailedOrders = stats.FailedOrders
          BY <5>1, <5>2, <5>3 DEF Counters
        <5> QED BY <5>4
      <4>4. ASSUME NEW c, handleOrderCompleted(c) PROVE Now(t, a - 1, d + 1, f)
        <5>1. stats' = [stats EXCEPT !.CompletedOrders = d + 1, !.ActiveOrders = a - 1]
          BY <4>4 DEF handleOrderCompleted, counted
        <5>2. d + 1 \in Int /\ a - 1 \in Int
          BY <4>1
        <5> HIDE DEF d, a
        <5>3. stats \in Counters
          BY <1>4
        <5>4. /\ stats' \in Counters
              /\ stats'.CompletedOrders = d + 1 /\ stats'.ActiveOrders = a - 1
              /\ stats'.TotalOrders = stats.TotalOrders
              /\ stats'.FailedOrders = stats.FailedOrders
          BY <5>1, <5>2, <5>3 DEF Counters
        <5> QED BY <5>4
      <4>5. ASSUME NEW c, handleHTLCClaimed(c) PROVE Now(t, a, d, f)
        BY <1>4, <4>1, <4>5 DEF handleHTLCClaimed, counted, Counters
      <4>6. a = t - d - f
        BY <1>5
      <4> HIDE DEF t, a, d
      <4> QED BY <2>1, <4>1, <4>2, <4>3, <4>4, <4>5, <4>6, CountersSteps
    <3>4. stats.FailedOrders \in Int
      BY <1>4 DEF Counters
    <3> QED BY <1>3, <1>5, <3>2, <3>3, <3>4
  <2>2. CASE countExpired
    <3>1. PICK p, row : UNCHANGED orders \/ orders' = [orders EXCEPT ![p] = row]
      BY <2>2 DEF countExpired, expireOrder, UpdateOrder
    <3>2. Expired' \subseteq Expired \cup {p}
      <4>1. orders \in [Orders -> Row \cup {NoRow}]
        BY DEF CountersInv, ServiceInv, IInv, TypeOK, StoreTypeOK
      <4> QED BY <3>1, <4>1 DEF Expired
    <3>3. /\ IsFiniteSet(Expired \cup {p}) /\ Cardinality(Expired \cup {p}) \in Nat
          /\ Cardinality(Expired \cup {p}) <= Cardinality(Expired) + 1
      <4>1. /\ IsFiniteSet(Expired \cup {p})
            /\ Cardinality(Expired \cup {p}) \in {Cardinality(Expired), Cardinality(Expired) + 1}
        BY <1>3, FS_AddElement
      <4> QED BY <1>3, <4>1
    <3>4. Cardinality(Expired') <= Cardinality(Expired \cup {p})
      BY <3>2, <3>3, FS_Subset
    <3>5. /\ stats' \in Counters /\ stats'.FailedOrders = stats.FailedOrders + 1
          /\ stats'.ActiveOrders = stats'.TotalOrders - stats'.CompletedOrders
                                                     - stats'.FailedOrders
      <4>1. t \in Int /\ a \in Int /\ d \in Int /\ f \in Int
        BY <1>4 DEF Counters
      <4>2. Now(t, a - 1, d, f + 1)
        <5>1. stats' = [stats EXCEPT !.FailedOrders = f + 1, !.ActiveOrders = a - 1]
          BY <2>2 DEF countExpired
        <5>2. f + 1 \in Int /\ a - 1 \in Int
          BY <4>1
        <5> HIDE DEF f, a
        <5>3. stats \in Counters
          BY <1>4
        <5>4. /\ stats' \in Counters
              /\ stats'.FailedOrders = f + 1 /\ stats'.ActiveOrders = a - 1
              /\ stats'.TotalOrders = stats.TotalOrders
              /\ stats'.CompletedOrders = stats.CompletedOrders
          BY <5>1, <5>2, <5>3 DEF Counters
        <5> QED BY <5>4
      <4>3. a = t - d - f
        BY <1>5
      <4> HIDE DEF t, a, d
      <4> QED BY <4>1, <4>2, <4>3
    <3>6. stats.FailedOrders \in Int
      BY <1>4 DEF Counters
    <3> QED BY <1>3, <1>5, <3>3, <3>4, <3>5, <3>6
  <2> QED BY <2>1, <2>2
<1>7. CountersMatch'
  BY <1>6 DEF CountersMatch, Expired
<1> QED BY <1>1, <1>2, <1>6, <1>7 DEF CountersInv

\* The counters of active, completed and failed orders add up, and every expired
\* row was counted, for any orders, chains and events, whichever call fails
\* (orchestrator.go handlers and checkOrderTimeouts).
THEOREM CountersMatchHolds == ServiceSpec => []CountersMatch
<1>1. ServiceInit => CountersInv
  <2> SUFFICES ASSUME ServiceInit PROVE CountersInv
    OBVIOUS
  <2>1. ServiceInv
    BY ServiceInitInv
  <2>2. stats = [TotalOrders |-> 0, ActiveOrders |-> 0, CompletedOrders |-> 0,
                 FailedOrders |-> 0, SuccessfulSwaps |-> 0]
    BY DEF ServiceInit, InitOrchestrator
  <2>3. {o \in Orders : orders[o].status = "expired"} = {}
    BY NoRowIsNoRow DEF ServiceInit, Init, InitStore
  <2>4. CountersMatch
    BY <2>2, <2>3, FS_EmptySet DEF CountersMatch
  <2>5. worker.pc = "idle"
    BY DEF ServiceInit, Init, InitEngine, idleWorker
  <2> QED BY <2>1, <2>2, <2>4, <2>5 DEF CountersInv, Counters
<1>2. CountersInv /\ [ServiceNext]_allVars => CountersInv'
  BY NextCountersInv
<1>3. CountersInv => CountersMatch
  BY DEF CountersInv
<1> QED BY <1>1, <1>2, <1>3, PTL DEF ServiceSpec

-----------------------------------------------------------------------------
(* Who waits for the worker: a handler whose request is in the queue or at *)
(* work, and each for one request.                                         *)

waitedFor(r) == r.caller # NoCaller => calls[r.caller].pc = "waiting"
apart(r, s) == r.caller = s.caller => r.caller = NoCaller

CallersWait ==
    /\ \A i \in DOMAIN queue : waitedFor(queue[i])
    /\ \A i, j \in DOMAIN queue : i # j => apart(queue[i], queue[j])
    /\ worker.pc # "idle" =>
          /\ waitedFor(worker.request)
          /\ \A i \in DOMAIN queue : apart(queue[i], worker.request)
    /\ processor.pc = "enqueue" => processor.request.caller = NoCaller
    /\ \A c \in Callers : calls[c].pc = "enqueue" => calls[c].request.caller = c

LEMMA QueuedCallers ==
    ASSUME IInv, NEW i \in DOMAIN queue
    PROVE  queue[i] \in Request /\ queue[i].caller \in Callers \cup {NoCaller}
<1>1. queue \in Seq(Request)
  BY DEF IInv, TypeOK, QueueTypeOK
<1>2. queue[i] \in Request
  BY <1>1, ElementOfSeq
<1> QED BY <1>2 DEF Request

\* Calls and the worker move on; nobody who is waiting does.
LEMMA WaitersStay ==
    ASSUME CallersWait, IInv,
           UNCHANGED queue,
           UNCHANGED worker \/ worker' = idleWorker
               \/ (worker.pc # "idle" /\ worker'.request = worker.request),
           processor'.pc = "enqueue" => processor'.request.caller = NoCaller,
           \A c \in Callers : calls'[c].pc = "enqueue" => calls'[c].request.caller = c,
           \A c \in Callers : calls[c].pc = "waiting" =>
               \/ calls'[c].pc = "waiting"
               \/ worker' = idleWorker /\ worker.pc # "idle" /\ c = worker.request.caller
    PROVE  CallersWait'
<1>1. \A i \in DOMAIN queue : queue[i].caller \in Callers \cup {NoCaller}
  BY QueuedCallers
<1>2. worker.pc # "idle" => worker.request.caller \in Callers \cup {NoCaller}
  BY DEF IInv, TypeOK, WorkerTypeOK, Request, idleWorker
<1>3. idleWorker.pc = "idle"
  BY DEF idleWorker
<1>4. \A i \in DOMAIN queue : waitedFor(queue[i])'
  BY <1>1, <1>3, EngineAssumption DEF CallersWait, waitedFor, apart
<1>5. worker'.pc # "idle" => /\ waitedFor(worker.request)' /\ worker.pc # "idle"
                             /\ worker'.request = worker.request
  BY <1>2, <1>3 DEF CallersWait, waitedFor
<1>6. (\A i, j \in DOMAIN queue : i # j => apart(queue[i], queue[j]))'
  BY DEF CallersWait, apart
<1>7. (worker.pc # "idle" => \A i \in DOMAIN queue : apart(queue[i], worker.request))'
  BY <1>5 DEF CallersWait, apart
<1>8. (worker.pc # "idle" => waitedFor(worker.request))'
  BY <1>5 DEF waitedFor
<1> QED BY <1>4, <1>6, <1>7, <1>8 DEF CallersWait

\* A request for which nobody else waits comes to the queue.
LEMMA RequestQueued ==
    ASSUME CallersWait, IInv, NEW r \in Request, queue' = Append(queue, r), UNCHANGED worker,
           r.caller # NoCaller => calls'[r.caller].pc = "waiting",
           r.caller \in Callers => calls[r.caller].pc # "waiting",
           processor'.pc = "enqueue" => processor'.request.caller = NoCaller,
           \A c \in Callers : calls'[c].pc = "enqueue" => calls'[c].request.caller = c,
           \A c \in Callers : calls[c].pc = "waiting" => calls'[c].pc = "waiting"
    PROVE  CallersWait'
<1>1. /\ DOMAIN queue' = DOMAIN queue \cup {Len(queue) + 1}
      /\ \A i \in DOMAIN queue : queue'[i] = queue[i]
      /\ queue'[Len(queue) + 1] = r
  BY DEF IInv, TypeOK, QueueTypeOK
<1>2. /\ \A i \in DOMAIN queue : queue[i].caller \in Callers \cup {NoCaller}
      /\ r.caller \in Callers \cup {NoCaller}
  BY QueuedCallers DEF Request
<1>3. worker.pc # "idle" => worker.request.caller \in Callers \cup {NoCaller}
  BY DEF IInv, TypeOK, WorkerTypeOK, Request, idleWorker
<1>4. \A i \in DOMAIN queue : waitedFor(queue[i])' /\ apart(queue[i], r) /\ apart(r, queue[i])
  BY <1>1, <1>2 DEF CallersWait, waitedFor, apart
<1>5. worker.pc # "idle" => waitedFor(worker.request)' /\ apart(r, worker.request)
  BY <1>2, <1>3 DEF CallersWait, waitedFor, apart
<1>6. (\A i \in DOMAIN queue : waitedFor(queue[i]))'
  BY <1>1, <1>4 DEF waitedFor
<1>7. (\A i, j \in DOMAIN queue : i # j => apart(queue[i], queue[j]))'
  BY <1>1, <1>4 DEF CallersWait, apart
<1>8. (worker.pc # "idle" => \A i \in DOMAIN queue : apart(queue[i], worker.request))'
  BY <1>1, <1>5 DEF CallersWait, apart
<1>9. (worker.pc # "idle" => waitedFor(worker.request))'
  BY <1>5 DEF waitedFor
<1> QED BY <1>6, <1>7, <1>8, <1>9 DEF CallersWait

LEMMA RequestTaken ==
    ASSUME CallersWait, IInv, takeRequest
    PROVE  CallersWait'
<1>1. queue \in Seq(Request) /\ queue # <<>>
  BY DEF IInv, TypeOK, QueueTypeOK, takeRequest
<1>2. /\ \A i \in DOMAIN queue' : i + 1 \in DOMAIN queue /\ queue'[i] = queue[i + 1] /\ i + 1 # 1
      /\ \A i, j \in DOMAIN queue' : i # j => i + 1 # j + 1
      /\ 1 \in DOMAIN queue /\ Head(queue) = queue[1]
  BY <1>1 DEF takeRequest
<1>3. worker' = [pc |-> "get", request |-> queue[1]] /\ UNCHANGED <<processor, calls>>
  BY <1>2 DEF takeRequest
<1>4. worker'.request = queue[1] /\ worker'.pc # "idle"
  BY <1>3
<1>5. (\A i \in DOMAIN queue : waitedFor(queue[i]))'
  BY <1>2, <1>3 DEF CallersWait, waitedFor
<1>6. (\A i, j \in DOMAIN queue : i # j => apart(queue[i], queue[j]))'
  BY <1>2 DEF CallersWait, apart
<1>7. (\A i \in DOMAIN queue : apart(queue[i], worker.request))'
  BY <1>2, <1>4 DEF CallersWait, apart
<1>8. waitedFor(worker.request)'
  BY <1>2, <1>3, <1>4 DEF CallersWait, waitedFor
<1> QED BY <1>3, <1>5, <1>6, <1>7, <1>8 DEF CallersWait
LEMMA NextOrderAsks == nextOrder => processor'.pc # "enqueue"
BY DEF nextOrder, idleProcessor

LEMMA ProcessorWaits ==
    ASSUME CallersWait, IInv, Processor
    PROVE  CallersWait' /\ UNCHANGED calls
<1>1. \A c \in Callers : calls[c].pc = "enqueue" => calls[c].request.caller = c
  BY DEF CallersWait
<1>2. CASE processExecutableOrders \/ processOrder \/ completeOrder
  <2>1. UNCHANGED <<queue, worker, calls>>
    BY <1>2 DEF processExecutableOrders, processOrder, completeOrder
  <2>2. processor'.pc = "enqueue" => processor'.request.caller = NoCaller
    <3>1. CASE processExecutableOrders
      BY <3>1 DEF processExecutableOrders
    <3>2. CASE processOrder
      <4>1. CASE processor' = [processor EXCEPT !.pc = "complete"]
        BY <4>1 DEF IInv, TypeOK, ProcessorTypeOK
      <4>2. ASSUME NEW o, NEW row, NEW executed, NEW hint,
                   processor' = [pc |-> "enqueue", batch |-> processor.batch,
                                 request |-> request(o, row, executed, hint, NoCaller)]
            PROVE  processor'.request.caller = NoCaller
        BY <4>2 DEF request
      <4> QED BY <3>2, <4>1, <4>2, NextOrderAsks DEF processOrder
    <3>3. CASE completeOrder
      BY <3>3, NextOrderAsks DEF completeOrder
    <3> QED BY <1>2, <3>1, <3>2, <3>3
  <2> QED BY <1>1, <2>1, <2>2, WaitersStay
<1>3. CASE enqueue
  <2>1. /\ UNCHANGED <<worker, calls>> /\ processor'.pc # "enqueue"
        /\ processor.pc = "enqueue" /\ processor.request.caller = NoCaller
    BY <1>3, NextOrderAsks DEF enqueue, CallersWait
  <2>2. CASE UNCHANGED queue
    BY <1>1, <2>1, <2>2, WaitersStay
  <2>3. CASE queue' = Append(queue, processor.request)
    <3>1. processor.request \in Request
      BY <2>1 DEF IInv, TypeOK, ProcessorTypeOK
    <3>2. processor.request.caller \notin Callers
      BY <2>1, EngineAssumption
    <3> QED BY <1>1, <2>1, <2>3, <3>1, <3>2, RequestQueued
  <2> QED BY <1>3, <2>2, <2>3 DEF enqueue
<1> QED BY <1>2, <1>3 DEF Processor, enqueue, storeVars

LEMMA CallerWaits ==
    ASSUME CallersWait, IInv, NEW c \in Callers, Caller(c)
    PROVE  CallersWait'
<1>1. /\ \A d \in Callers : calls[d].pc = "enqueue" => calls[d].request.caller = d
      /\ processor.pc = "enqueue" => processor.request.caller = NoCaller
      /\ calls \in [Callers -> CallType]
  BY DEF CallersWait, IInv, TypeOK, HandlersTypeOK
<1>2. ASSUME NEW call, calls' = [calls EXCEPT ![c] = call], calls[c].pc # "waiting",
             call.pc = "enqueue" => call.request.caller = c,
             UNCHANGED <<queue, worker, processor>>
      PROVE  CallersWait'
  <2>1. \A d \in Callers : /\ calls'[d].pc = "enqueue" => calls'[d].request.caller = d
                           /\ calls[d].pc = "waiting" => calls'[d].pc = "waiting"
    BY <1>1, <1>2
  <2> QED BY <1>1, <1>2, <2>1, WaitersStay
<1>3. idleCall.pc = "idle"
  BY DEF idleCall
<1>4. ASSUME NEW o \in Orders, ExecuteOrderManually(c, o) PROVE CallersWait'
  BY <1>2, <1>4 DEF ExecuteOrderManually
<1>5. CASE readHistory(c)
  <2> DEFINE r == request(calls[c].order, calls[c].row, Len(history[calls[c].order]), NoPrice, c)
  <2>1. r.caller = c
    BY DEF request
  <2>2. \/ calls' = [calls EXCEPT ![c] = idleCall]
        \/ calls' = [calls EXCEPT ![c] = [pc |-> "enqueue", order |-> calls[c].order,
                                          request |-> r]]
    BY <1>1, <1>5 DEF readHistory
  <2> HIDE DEF r
  <2> QED BY <1>2, <1>3, <1>5, <2>1, <2>2 DEF readHistory
<1>6. CASE enqueueCall(c)
  <2>1. CASE ~hasRoom
    BY <1>2, <1>3, <1>6, <2>1 DEF enqueueCall
  <2>2. CASE hasRoom
    <3> DEFINE r == calls[c].request
    <3>1. r \in Request /\ r.caller = c
      BY <1>1, <1>6, CallParts DEF enqueueCall, IInv, TypeOK
    <3>2. /\ queue' = Append(queue, r) /\ UNCHANGED <<worker, processor>>
          /\ calls[c].pc = "enqueue" /\ calls'[c].pc = "waiting"
          /\ \A d \in Callers : d # c => calls'[d] = calls[d]
      BY <1>1, <1>6, <2>2 DEF enqueueCall
    <3>3. calls'[r.caller].pc = "waiting" /\ calls[r.caller].pc # "waiting"
      BY <3>1, <3>2
    <3>4. \A d \in Callers : /\ calls'[d].pc = "enqueue" => calls'[d].request.caller = d
                             /\ calls[d].pc = "waiting" => calls'[d].pc = "waiting"
      BY <1>1, <3>2
    <3> HIDE DEF r
    <3> QED BY <1>1, <3>1, <3>2, <3>3, <3>4, RequestQueued
  <2> QED BY <2>1, <2>2
<1> QED BY <1>4, <1>5, <1>6 DEF Caller

\* The worker answers one who waits.
LEMMA WorkerWaits ==
    ASSUME CallersWait, IInv, Worker
    PROVE  /\ CallersWait'
           /\ \A c \in Callers : \/ calls'[c] = calls[c]
                                 \/ calls[c].pc = "waiting" /\ calls'[c] = idleCall
<1>1. /\ \A c \in Callers : calls[c].pc = "enqueue" => calls[c].request.caller = c
      /\ processor.pc = "enqueue" => processor.request.caller = NoCaller
      /\ calls \in [Callers -> CallType]
      /\ idleCall.pc = "idle"
  BY DEF CallersWait, IInv, TypeOK, HandlersTypeOK, idleCall
<1>2. CASE takeRequest
  BY <1>2, RequestTaken DEF takeRequest
<1>3. CASE UNCHANGED <<queue, calls, processor>> /\ worker.pc # "idle"
           /\ worker'.request = worker.request
  BY <1>1, <1>3, WaitersStay
<1>4. CASE worker.pc # "idle" /\ respond(worker.request.caller) /\ worker' = idleWorker
           /\ UNCHANGED <<queue, processor>>
  <2> DEFINE d == worker.request.caller
  <2>1. d # NoCaller => calls[d].pc = "waiting"
    BY <1>4 DEF CallersWait, waitedFor
  <2>2. \A c \in Callers : calls'[c] = calls[c] \/ (c = d /\ d # NoCaller /\ calls'[c] = idleCall)
    BY <1>1, <1>4 DEF respond
  <2> HIDE DEF d
  <2>3. \A c \in Callers : /\ calls'[c].pc = "enqueue" => calls'[c].request.caller = c
                           /\ calls[c].pc = "waiting" => calls'[c].pc = "waiting" \/ c = d
    BY <1>1, <2>2
  <2>4. CallersWait'
    BY <1>1, <1>4, <2>3, WaitersStay DEF d
  <2> QED BY <2>1, <2>2, <2>4
<1>5. CASE executeInterval
  <2>1. CASE failExecution
    <3>1. worker.pc = "get" /\ UNCHANGED <<queue, processor>>
      BY <1>5 DEF executeInterval
    <3>2. respond(worker.request.caller) /\ worker' = idleWorker
      BY <2>1 DEF failExecution
    <3> QED BY <1>4, <3>1, <3>2
  <2>2. CASE ~failExecution
    <3>1. UNCHANGED <<queue, processor>>
      BY <1>5 DEF executeInterval
    <3>2. /\ worker.pc = "get" /\ worker'.request = worker.request
          /\ UNCHANGED calls
      BY <1>5, <2>2, ExecutionStep
    <3> QED BY <1>3, <3>1, <3>2
  <2> QED BY <2>1, <2>2
<1>6. CASE recordExecution
  <2>1. worker'.request = worker.request
    BY <1>6 DEF recordExecution, IInv, TypeOK, WorkerTypeOK, idleWorker
  <2> QED BY <1>3, <1>6, <2>1 DEF recordExecution
<1>7. CASE updateOrder
  BY <1>4, <1>7 DEF updateOrder
<1> QED BY <1>2, <1>5, <1>6, <1>7 DEF Worker

\* Whoever waits is waited for after every step of the process.
LEMMA CallersWaitOn ==
    ASSUME CallersWait, IInv, RequestsKnowOrders, [ServiceNext]_allVars
    PROVE  CallersWait'
<1>1. /\ \A c \in Callers : calls[c].pc = "enqueue" => calls[c].request.caller = c
      /\ processor.pc = "enqueue" => processor.request.caller = NoCaller
  BY DEF CallersWait
<1>2. CASE UNCHANGED engineVars
  BY <1>1, <1>2, WaitersStay DEF engineVars
<1>3. CASE Tick
  <2>1. UNCHANGED <<queue, calls>>
    BY <1>3 DEF Tick
  <2>2. UNCHANGED worker \/ (worker.pc # "idle" /\ worker'.request = worker.request)
    BY <1>3 DEF Tick, IInv, TypeOK, WorkerTypeOK, idleWorker
  <2>3. processor'.pc = "enqueue" => processor'.request.caller = NoCaller
    <3>1. processor' = [processor EXCEPT !.batch = aged(processor.batch)]
      BY <1>3 DEF Tick
    <3>2. processor'.pc = processor.pc
          /\ (processor.pc = "enqueue" => processor'.request = processor.request)
      BY <3>1 DEF IInv, TypeOK, ProcessorTypeOK
    <3> QED BY <1>1, <3>2
  <2> QED BY <1>1, <2>1, <2>2, <2>3, WaitersStay
<1>4. CASE NextButExpiry
  BY <1>2, <1>3, <1>4, ProcessorWaits, CallerWaits, WorkerWaits DEF NextButExpiry, Handlers,
     createOrder, cancelOrder, writeCancelled, checkOrderTimeouts
<1>5. CASE UNCHANGED vars \/ OnlyCalls \/ countExpired \/ \E c \in EventChains : writeExecuting(c)
  BY <1>2, <1>5 DEF vars, OnlyCalls, countExpired, expireOrder, writeExecuting
<1> QED BY <1>4, <1>5, OrderSteps

-----------------------------------------------------------------------------
(* The requests.                                                           *)

Bucket == [tokens : Int, lastRefill : Nat]

OfPair(fields) == {r \in fields : (r.op = "price") = (r.key = Pair)}
RequestRecord ==
    {idleRequest}
    \cup OfPair([pc : {"lookup", "insert"}, op : Ops, key : Keys, now : Nat])
    \cup OfPair([pc : {"refill"}, op : Ops, key : Keys, now : Nat, held : Nat, found : Bucket])
    \cup OfPair([pc : {"take"}, op : Ops, key : Keys, held : Nat, tokens : Nat \ {0}])
    \cup OfPair([pc : {"admitted"}, op : Ops, key : Keys])
    \cup OfPair([pc : {"read"}, op : {"get", "price"}, key : Keys])
    \cup OfPair([pc : {"fill"}, op : {"get", "price"}, key : Keys, read : Nat])
    \cup OfPair([pc : {"cancelling", "executing"}, op : {"cancel", "execute"}, key : Orders])
    \cup OfPair([pc : {"forget", "respond"}, op : {"cancel", "execute"}, key : Orders,
                 made : Nat])

\* What every request but an idle one is about.
LEMMA RequestAsks ==
    ASSUME NEW r \in RequestRecord, r.pc # "idle"
    PROVE  /\ r.op \in Ops /\ r.key \in Keys
           /\ (r.op = "price") = (r.key = Pair)
BY DEF RequestRecord, OfPair, idleRequest, Ops, Keys

\* What a request holds, by the step it is at.
Holds(r) ==
    /\ r.pc \in {"lookup", "insert", "refill"} => r.now \in Nat
    /\ r.pc \in {"refill", "take"} => r.held \in Nat
    /\ r.pc = "refill" => r.found \in Bucket
    /\ r.pc = "take" => r.tokens \in Nat \ {0}
    /\ r.pc = "fill" => r.read \in Nat
    /\ r.pc \in {"read", "fill"} => r.op \in {"get", "price"}
    /\ r.pc \in {"cancelling", "executing", "forget", "respond"} =>
          r.op \in {"cancel", "execute"} /\ r.key \in Orders
    /\ r.pc \in {"forget", "respond"} => r.made \in Nat

LEMMA RequestIsAt ==
    ASSUME NEW r \in RequestRecord
    PROVE  /\ r.pc \in {"idle", "lookup", "insert", "refill", "take", "admitted", "read", "fill",
                        "cancelling", "executing", "forget", "respond"}
           /\ Holds(r)
BY DEF RequestRecord, OfPair, idleRequest, Holds

LEMMA RequestsMade ==
    ASSUME NEW op \in Ops, NEW k \in Keys, (op = "price") = (k = Pair)
    PROVE  /\ [pc |-> "admitted", op |-> op, key |-> k] \in RequestRecord
           /\ \A pc \in {"lookup", "insert"}, n \in Nat :
                  [pc |-> pc, op |-> op, key |-> k, now |-> n] \in RequestRecord
           /\ \A n, i \in Nat, b \in Bucket :
                  [pc |-> "refill", op |-> op, key |-> k, now |-> n, held |-> i, found |-> b]
                      \in RequestRecord
           /\ \A i \in Nat, v \in Nat \ {0} :
                  [pc |-> "take", op |-> op, key |-> k, held |-> i, tokens |-> v]
                      \in RequestRecord
           /\ op \in {"get", "price"} =>
                  /\ [pc |-> "read", op |-> op, key |-> k] \in RequestRecord
                  /\ \A n \in Nat :
                        [pc |-> "fill", op |-> op, key |-> k, read |-> n] \in RequestRecord
           /\ op \in {"cancel", "execute"} =>
                  /\ \A pc \in {"cancelling", "executing"} :
                         [pc |-> pc, op |-> op, key |-> k] \in RequestRecord
                  /\ \A pc \in {"forget", "respond"}, n \in Nat :
                         [pc |-> pc, op |-> op, key |-> k, made |-> n] \in RequestRecord
BY DEF RequestRecord, OfPair, Keys

LEMMA TicksType == TicksPerSecond \in Nat \ {0} /\ RateLimit \in Nat \ {0} /\ MaxTicks \in Nat
BY ApiAssumption

RequestsTyped == requests \in [Callers -> RequestRecord]

timed(h) == at(h, "lookup") \/ at(h, "insert") \/ at(h, "refill")
holding(h) == at(h, "refill") \/ at(h, "take")

\* No limiter is filled beyond the limit or for a time to come, and whoever
\* holds one holds one of the client's.
LimitersTyped ==
    /\ limiter \in [Clients -> Seq(Bucket)]
    /\ taken \in [Clients -> Nat] /\ overlaps \in [Clients -> Nat] /\ ticks \in 0..MaxTicks
    /\ \A c \in Clients : \A i \in DOMAIN limiter[c] :
          limiter[c][i].tokens <= RateLimit /\ limiter[c][i].lastRefill <= ticks
    /\ \A h \in Callers :
          /\ timed(h) => requests[h].now <= ticks
          /\ holding(h) => requests[h].held \in DOMAIN limiter[Client[h]]
          /\ at(h, "take") => requests[h].tokens <= RateLimit

\* Nothing shows, and nobody is told of, a change to come.
ResponsesTyped ==
    /\ changes \in [Keys -> Nat] /\ confirmed \in [Keys -> Nat]
    /\ \A k \in Keys : confirmed[k] <= changes[k]
    /\ cache \in [Keys -> {NoResponse} \cup [read : Nat, filled : Nat]]
    /\ \A k \in Keys : cache[k] # NoResponse =>
          cache[k].read <= cache[k].filled /\ cache[k].filled <= changes[k]
    /\ \A h \in Callers :
          /\ at(h, "fill") => requests[h].read <= changes[key(h)]
          /\ at(h, "forget") \/ at(h, "respond") => requests[h].made <= changes[key(h)]

CallersServed ==
    \A h \in Callers : /\ calls[h].pc # "idle" <=> at(h, "executing")
                       /\ cancels[h].pc # "idle" <=> at(h, "cancelling")

FrontInv == RequestsTyped /\ LimitersTyped /\ ResponsesTyped /\ CallersServed

LEMMA ClientOf == \A h \in Callers : Client[h] \in Clients
BY DEF Clients

LEMMA SetRequest ==
    ASSUME RequestsTyped, NEW h \in Callers, NEW r \in RequestRecord,
           requests' = [requests EXCEPT ![h] = r]
    PROVE  RequestsTyped'
BY DEF RequestsTyped

LEMMA AnsweredTyped ==
    ASSUME RequestsTyped, NEW h \in Callers, answered(h)
    PROVE  RequestsTyped'
<1>1. idleRequest \in RequestRecord
  BY DEF RequestRecord
<1> QED BY <1>1, SetRequest DEF answered

LEMMA RequestParts ==
    ASSUME RequestsTyped, NEW h \in Callers, requests[h].pc # "idle"
    PROVE  LET r == requests[h] IN
           /\ r.op \in Ops /\ r.key \in Keys /\ (r.op = "price") = (r.key = Pair)
           /\ Holds(r)
<1> DEFINE r == requests[h]
<1>1. r \in RequestRecord /\ r.pc # "idle"
  BY DEF RequestsTyped
<1> HIDE DEF r
<1>2. r.op \in Ops /\ r.key \in Keys /\ (r.op = "price") = (r.key = Pair)
  BY <1>1, RequestAsks
<1>3. Holds(r)
  BY <1>1, RequestIsAt
<1> QED BY <1>2, <1>3 DEF r

LEMMA GoesToTyped ==
    ASSUME RequestsTyped, NEW h \in Callers, requests[h].pc # "idle", NEW pc, goTo(h, pc),
           \/ pc = "admitted"
           \/ pc = "read" /\ requests[h].op \in {"get", "price"}
           \/ pc \in {"cancelling", "executing"} /\ requests[h].op \in {"cancel", "execute"}
    PROVE  RequestsTyped'
<1> DEFINE op == requests[h].op
           k == requests[h].key
           r == [pc |-> pc, op |-> op, key |-> k]
<1>1. op \in Ops /\ k \in Keys /\ (op = "price") = (k = Pair)
  BY RequestParts
<1>2. requests' = [requests EXCEPT ![h] = r]
  BY DEF goTo
<1> HIDE DEF op, k
<1>3. r \in RequestRecord
  BY <1>1, RequestsMade DEF op
<1> HIDE DEF r
<1> QED BY <1>2, <1>3, SetRequest

\* The last of the limiters made for a client is the one in the map.
LEMMA KnownLimiter ==
    ASSUME LimitersTyped, NEW c \in Clients, limiter[c] # <<>>
    PROVE  /\ Len(limiter[c]) \in DOMAIN limiter[c] /\ Len(limiter[c]) \in Nat \ {0}
           /\ limiter[c][Len(limiter[c])] \in Bucket
<1>1. limiter[c] \in Seq(Bucket)
  BY DEF LimitersTyped
<1> QED BY <1>1

Valid(b) == b \in Bucket /\ b.tokens <= RateLimit /\ b.lastRefill <= ticks

LEMMA HeldLimiter ==
    ASSUME LimitersTyped, NEW h \in Callers, holding(h)
    PROVE  /\ requests[h].held \in DOMAIN limiter[Client[h]] /\ held(h) \in Bucket
           /\ held(h).tokens \in Int /\ held(h).tokens <= RateLimit
           /\ held(h).lastRefill \in Nat /\ held(h).lastRefill <= ticks
<1> DEFINE i == requests[h].held
           known == limiter[Client[h]]
<1>1. known \in Seq(Bucket) /\ i \in DOMAIN known
  BY ClientOf DEF LimitersTyped
<1>2. known[i].tokens <= RateLimit /\ known[i].lastRefill <= ticks
  BY <1>1, ClientOf DEF LimitersTyped
<1>3. known[i] \in Bucket
  BY <1>1, ElementOfSeq
<1>4. held(h) = known[i]
  BY DEF held
<1> HIDE DEF i, known
<1>5. known[i].tokens \in Int /\ known[i].lastRefill \in Nat
  BY <1>3 DEF Bucket
<1> QED BY <1>1, <1>2, <1>3, <1>4, <1>5 DEF i, known

LEMMA SecondsType ==
    ASSUME NEW e \in Int
    PROVE  seconds(e) \in Int
<1>1. TicksPerSecond \in Nat \ {0} /\ -e \in Int
  BY TicksType
<1>2. e \div TicksPerSecond \in Int /\ (-e) \div TicksPerSecond \in Int
  BY <1>1
<1> QED BY <1>2 DEF seconds

\* A refill puts in what the time since the last one is worth, up to the limit.
LEMMA RefillParts ==
    ASSUME RequestsTyped, LimitersTyped, NEW h \in Callers, refillLimiter(h)
    PROVE  \E counter, clock \in Bucket, tokens \in Int :
              /\ counter \in {requests[h].found, held(h)} /\ clock \in {requests[h].found, held(h)}
              /\ tokens <= counter.tokens + seconds(requests[h].now - clock.lastRefill)
              /\ tokens <= RateLimit
              /\ tokens = counter.tokens + seconds(requests[h].now - clock.lastRefill)
                    \/ tokens = RateLimit
              /\ Valid([tokens |-> tokens, lastRefill |-> requests[h].now])
              /\ limiter' = [limiter EXCEPT ![Client[h]][requests[h].held] =
                     [tokens |-> tokens, lastRefill |-> requests[h].now]]
              /\ UNCHANGED <<taken, overlaps, ticks>>
              /\ \/ tokens <= 0 /\ requests' = [requests EXCEPT ![h] = idleRequest]
                 \/ /\ tokens >= 1
                    /\ requests' = [requests EXCEPT ![h] =
                           [pc |-> "take", op |-> requests[h].op, key |-> requests[h].key,
                            held |-> requests[h].held, tokens |-> tokens]]
<1>1. requests[h].pc = "refill"
  BY DEF refillLimiter, at
<1>2. Holds(requests[h])
  BY <1>1, RequestParts
<1>3. requests[h].found \in Bucket /\ requests[h].now \in Nat
  BY <1>1, <1>2 DEF Holds
<1>4. held(h) \in Bucket
  BY <1>1, HeldLimiter DEF holding, at
<1>5. PICK counter \in {requests[h].found, held(h)}, clock \in {requests[h].found, held(h)} :
          LET filled == counter.tokens + seconds(requests[h].now - clock.lastRefill)
              tokens == IF filled > RateLimit THEN RateLimit ELSE filled
          IN  /\ limiter' = [limiter EXCEPT ![Client[h]][requests[h].held] =
                     [tokens |-> tokens, lastRefill |-> lastRefill(h)]]
              /\ IF tokens <= 0 THEN answered(h)
                 ELSE requests' = [requests EXCEPT ![h] =
                          [pc |-> "take", op |-> @.op, key |-> @.key, held |-> @.held,
                           tokens |-> tokens]]
  BY DEF refillLimiter
<1>6. counter \in Bucket /\ clock \in Bucket
  BY <1>3, <1>4
<1> DEFINE filled == counter.tokens + seconds(requests[h].now - clock.lastRefill)
           tokens == IF filled > RateLimit THEN RateLimit ELSE filled
<1>7. filled \in Int
  <2>1. counter.tokens \in Int /\ clock.lastRefill \in Nat
    BY <1>6 DEF Bucket
  <2>2. requests[h].now - clock.lastRefill \in Int
    BY <1>3, <2>1
  <2>3. seconds(requests[h].now - clock.lastRefill) \in Int
    BY <2>2, SecondsType
  <2> QED BY <2>1, <2>3
<1>8. /\ limiter' = [limiter EXCEPT ![Client[h]][requests[h].held] =
             [tokens |-> tokens, lastRefill |-> requests[h].now]]
      /\ IF tokens <= 0 THEN requests' = [requests EXCEPT ![h] = idleRequest]
         ELSE requests' = [requests EXCEPT ![h] =
                  [pc |-> "take", op |-> requests[h].op, key |-> requests[h].key,
                   held |-> requests[h].held, tokens |-> tokens]]
      /\ UNCHANGED <<taken, overlaps, ticks>>
  BY <1>5 DEF lastRefill, answered, refillLimiter
<1> HIDE DEF filled
<1>9. tokens \in Int /\ tokens <= filled /\ tokens <= RateLimit /\ tokens \in {filled, RateLimit}
  BY <1>7, TicksType
<1> HIDE DEF tokens
<1>10. tokens <= 0 \/ tokens >= 1
  BY <1>9
<1>11. \/ tokens <= 0 /\ requests' = [requests EXCEPT ![h] = idleRequest]
       \/ /\ tokens >= 1
          /\ requests' = [requests EXCEPT ![h] =
                 [pc |-> "take", op |-> requests[h].op, key |-> requests[h].key,
                  held |-> requests[h].held, tokens |-> tokens]]
  <2>1. tokens >= 1 => ~(tokens <= 0)
    BY <1>9
  <2> QED BY <1>8, <1>10, <2>1
<1>12. tokens <= filled /\ (tokens = filled \/ tokens = RateLimit)
  BY <1>9
<1>13. Valid([tokens |-> tokens, lastRefill |-> requests[h].now])
  <2>1. requests[h].now <= ticks
    BY <1>1 DEF LimitersTyped, timed, at
  <2> QED BY <1>3, <1>9, <2>1 DEF Valid, Bucket
<1> QED BY <1>5, <1>6, <1>8, <1>9, <1>11, <1>12, <1>13 DEF filled

LEMMA LaterVersion ==
    ASSUME ResponsesTyped, NEW k \in Keys
    PROVE  changesAfter(k) \in Nat /\ changes[k] \in Nat /\ changes[k] <= changesAfter(k)
<1>1. changes[k] \in Nat
  BY DEF ResponsesTyped
<1> QED BY <1>1 DEF changesAfter

LEMMA ForgetTyped ==
    ASSUME RequestsTyped, ResponsesTyped, NEW h \in Callers,
           at(h, "cancelling") \/ at(h, "executing")
    PROVE  forget(h) \in RequestRecord
<1> DEFINE op == requests[h].op
           k == requests[h].key
           n == changesAfter(k)
<1>1. op \in Ops /\ k \in Keys /\ (op = "price") = (k = Pair) /\ Holds(requests[h])
  BY RequestParts DEF at
<1>2. op \in {"cancel", "execute"}
  BY <1>1 DEF Holds, at
<1>3. n \in Nat
  BY <1>1, LaterVersion
<1>4. forget(h) = [pc |-> "forget", op |-> op, key |-> k, made |-> n]
  BY DEF forget, key
<1> HIDE DEF op, k, n
<1>5. [pc |-> "forget", op |-> op, key |-> k, made |-> n] \in RequestRecord
  BY <1>1, <1>2, <1>3, RequestsMade
<1> QED BY <1>4, <1>5

LEMMA ServeTyped ==
    ASSUME RequestsTyped, LimitersTyped, ResponsesTyped, NEW h \in Callers, serve(h)
    PROVE  RequestsTyped'
<1> DEFINE op == requests[h].op
           k == requests[h].key
<1>1. requests[h].pc # "idle" => op \in Ops /\ k \in Keys /\ (op = "price") = (k = Pair)
  BY RequestParts
<1>2. CASE answered(h)
  BY <1>2, AnsweredTyped
<1>3. CASE UNCHANGED requests
  BY <1>3 DEF RequestsTyped
<1>4. CASE lookupLimiter(h)
  <2>1. requests[h].pc = "lookup"
    BY <1>4 DEF lookupLimiter, at
  <2>2. requests[h].now \in Nat
    BY <2>1, RequestParts DEF Holds
  <2> DEFINE known == limiter[Client[h]]
             n == requests[h].now
             i == Len(known)
             l == known[Len(known)]
             r == [pc |-> "refill", op |-> op, key |-> k, now |-> n, held |-> i, found |-> l]
             s == [pc |-> "insert", op |-> op, key |-> k, now |-> n]
  <2>3. \/ known = <<>> /\ requests' = [requests EXCEPT ![h] = s]
        \/ known # <<>> /\ requests' = [requests EXCEPT ![h] = r]
    BY <1>4 DEF lookupLimiter
  <2>4. op \in Ops /\ k \in Keys /\ (op = "price") = (k = Pair) /\ n \in Nat
    BY <1>1, <2>1, <2>2
  <2>5. known # <<>> => i \in Nat /\ l \in Bucket
    BY KnownLimiter, ClientOf
  <2> HIDE DEF op, k, n, i, l, known
  <2>6. s \in RequestRecord
    BY <2>4, RequestsMade
  <2>7. known # <<>> => r \in RequestRecord
    BY <2>4, <2>5, RequestsMade
  <2> HIDE DEF r, s
  <2> QED BY <2>3, <2>6, <2>7, SetRequest
<1>5. CASE insertLimiter(h) \/ takeToken(h)
  BY <1>5, GoesToTyped DEF insertLimiter, takeToken, admitted, at
<1>6. CASE refillLimiter(h)
  <2>1. requests[h].pc = "refill"
    BY <1>6 DEF refillLimiter, at
  <2>2. requests[h].held \in Nat
    BY <2>1, RequestParts DEF Holds
  <2>3. PICK v \in Int :
            \/ requests' = [requests EXCEPT ![h] = idleRequest]
            \/ /\ v >= 1
               /\ requests' = [requests EXCEPT ![h] =
                      [pc |-> "take", op |-> requests[h].op, key |-> requests[h].key,
                       held |-> requests[h].held, tokens |-> v]]
    BY <1>6, RefillParts
  <2> DEFINE i == requests[h].held
             r == [pc |-> "take", op |-> op, key |-> k, held |-> i, tokens |-> v]
  <2>4. answered(h) \/ (v >= 1 /\ requests' = [requests EXCEPT ![h] = r])
    BY <2>3 DEF answered
  <2>5. op \in Ops /\ k \in Keys /\ (op = "price") = (k = Pair) /\ i \in Nat
    BY <1>1, <2>1, <2>2
  <2> HIDE DEF op, k, i
  <2>6. v >= 1 => v \in Nat \ {0}
    OBVIOUS
  <2>7. v >= 1 => r \in RequestRecord
    BY <2>5, <2>6, RequestsMade
  <2> HIDE DEF r
  <2> QED BY <1>2, <2>4, <2>7, SetRequest
<1>7. CASE getFromCache(h)
  BY <1>2, <1>7, GoesToTyped DEF getFromCache, serving, at
<1>8. CASE getOrder(h) \/ getTWAPPrice(h)
  <2> DEFINE n == changes[k]
             r == [pc |-> "fill", op |-> op, key |-> k, read |-> n]
  <2>1. requests[h].pc = "read" /\ (answered(h) \/ requests' = [requests EXCEPT ![h] = r])
    BY <1>8 DEF getOrder, getTWAPPrice, fill, at, key
  <2>2. op \in {"get", "price"}
    BY <2>1, RequestParts DEF Holds
  <2>3. n \in Nat
    BY <1>1, <2>1 DEF ResponsesTyped
  <2> HIDE DEF op, k, n
  <2>4. r \in RequestRecord
    BY <1>1, <2>1, <2>2, <2>3, RequestsMade
  <2> HIDE DEF r
  <2> QED BY <1>2, <2>1, <2>4, SetRequest
<1>9. CASE startCancel(h) \/ startExecution(h)
  BY <1>2, <1>9, GoesToTyped DEF startCancel, startExecution, serving, at
<1>10. CASE finishCancel(h)
  BY <1>2, <1>10, ForgetTyped, SetRequest DEF finishCancel
<1>11. CASE requestExecution(h)
  BY <1>2, <1>3, <1>11 DEF requestExecution
<1>12. CASE clearOrderCache(h)
  <2>1. requests[h].pc = "forget"
    BY <1>12 DEF clearOrderCache, at
  <2> DEFINE n == requests[h].made
             r == [pc |-> "respond", op |-> op, key |-> k, made |-> n]
  <2>2. n \in Nat /\ op \in {"cancel", "execute"}
    BY <2>1, RequestParts DEF Holds
  <2>3. requests' = [requests EXCEPT ![h] = r]
    BY <1>12 DEF clearOrderCache, cleared
  <2>4. op \in Ops /\ k \in Keys /\ (op = "price") = (k = Pair)
    BY <1>1, <2>1
  <2> HIDE DEF op, k, n
  <2>5. r \in RequestRecord
    BY <2>2, <2>4, RequestsMade
  <2> HIDE DEF r
  <2> QED BY <2>3, <2>5, SetRequest
<1> QED BY <1>2, <1>4, <1>5, <1>6, <1>7, <1>8, <1>9, <1>10, <1>11, <1>12 DEF serve,
       checkRateLimit, look, refuseCreate, clearCache, setCache, respondSuccess

-----------------------------------------------------------------------------
(* Which steps change requests.                                            *)

LEMMA RequestsMove ==
    ASSUME [ServiceNext]_allVars
    PROVE  UNCHANGED requests \/ Receive \/ (\E h \in Callers : Serve(h)) \/ Work
<1>1. CASE Goroutine
  BY <1>1 DEF Goroutine, Process, engineGoroutineEnds, StartOrchestrator, Orchestrate,
     CallBack, frontVars
<1>2. CASE World
  BY <1>2 DEF World, ReceiveEvent, insertRow, ChangeAdapters, StartSwap, GoOnSwapping,
     PassTime, limiterTick, frontVars
<1>3. CASE signal \/ Shutdown \/ exit \/ exitAfterTimeout \/ crash \/ UNCHANGED allVars
  BY <1>3 DEF signal, Shutdown, exit, exitAfterTimeout, crash, allVars, frontVars
<1> QED BY <1>1, <1>2, <1>3 DEF ServiceNext

\* The worker lets a waiting handler go on, or end.
LEMMA WorkMoves ==
    ASSUME CallersWait, IInv, CallersServed, RequestsTyped, ResponsesTyped, Work
    PROVE  /\ RequestsTyped'
           /\ \A h \in Callers :
                 \/ requests'[h] = requests[h] /\ calls'[h] = calls[h]
                 \/ /\ at(h, "executing") /\ calls'[h] = idleCall
                    /\ requests'[h] \in {idleRequest, forget(h)}
<1>1. \A h \in Callers : \/ calls'[h] = calls[h]
                         \/ calls[h].pc = "waiting" /\ calls'[h] = idleCall
  BY WorkerWaits DEF Work, work
<1>2. requests' = [h \in Callers |->
          IF calls[h].pc # "waiting" \/ calls'[h].pc = "waiting" THEN requests[h]
          ELSE IF worker.pc = "update" THEN forget(h) ELSE idleRequest]
  BY DEF Work, work
<1>3. ASSUME NEW h \in Callers
      PROVE  \/ requests'[h] = requests[h] /\ calls'[h] = calls[h]
             \/ /\ at(h, "executing") /\ calls'[h] = idleCall
                /\ requests'[h] \in {idleRequest, forget(h)}
  <2>1. calls[h].pc = "waiting" => at(h, "executing")
    BY DEF CallersServed
  <2>2. CASE calls'[h] = calls[h]
    BY <1>2, <2>2
  <2>3. CASE calls[h].pc = "waiting" /\ calls'[h] = idleCall
    <3>1. calls'[h].pc # "waiting"
      BY <2>3 DEF idleCall
    <3> QED BY <1>2, <2>1, <2>3, <3>1
  <2> QED BY <1>1, <2>2, <2>3
<1>4. ASSUME NEW h \in Callers PROVE requests'[h] \in RequestRecord
  <2>1. requests[h] \in RequestRecord /\ idleRequest \in RequestRecord
    BY DEF RequestsTyped, RequestRecord
  <2> QED BY <1>3, <2>1, ForgetTyped
<1>5. RequestsTyped'
  BY <1>2, <1>4 DEF RequestsTyped
<1> QED BY <1>3, <1>5

LEMMA ReceiveTyped ==
    ASSUME RequestsTyped, LimitersTyped, NEW h \in Callers, NEW op \in Ops, NEW k \in Keys,
           (op = "price") = (k = Pair), receive(h, op, k)
    PROVE  RequestsTyped'
<1> DEFINE r == [pc |-> "lookup", op |-> op, key |-> k, now |-> ticks]
<1>1. r \in RequestRecord
  <2>1. ticks \in Nat
    BY DEF LimitersTyped
  <2> QED BY <2>1, RequestsMade
<1>2. requests' = [requests EXCEPT ![h] = r]
  BY DEF receive
<1> HIDE DEF r
<1> QED BY <1>1, <1>2, SetRequest

LEMMA RequestsTypedOn ==
    ASSUME FrontInv, CallersWait, IInv, [ServiceNext]_allVars
    PROVE  RequestsTyped'
<1>1. RequestsTyped /\ LimitersTyped /\ ResponsesTyped /\ CallersServed
  BY DEF FrontInv
<1>2. CASE UNCHANGED requests
  BY <1>1, <1>2 DEF RequestsTyped
<1>3. CASE Receive
  BY <1>1, <1>3, ReceiveTyped DEF Receive
<1>4. ASSUME NEW h \in Callers, Serve(h) PROVE RequestsTyped'
  BY <1>1, <1>4, ServeTyped DEF Serve
<1>5. CASE Work
  BY <1>1, <1>5, WorkMoves
<1> QED BY <1>2, <1>3, <1>4, <1>5, RequestsMove

-----------------------------------------------------------------------------
(* Which steps admit requests.                                             *)

\* The limiters and all who are at them stay as they are.
SameAdmissions ==
    /\ UNCHANGED limits
    /\ \A h \in Callers : \/ requests'[h] = requests[h]
                          \/ ~checking(h) /\ ~checking(h)'

LEMMA RequestReplaced ==
    ASSUME RequestsTyped, NEW h \in Callers, ~checking(h), UNCHANGED limits,
           NEW r, r.pc \notin {"lookup", "insert", "refill", "take"},
           requests' = [requests EXCEPT ![h] = r]
    PROVE  SameAdmissions
BY DEF RequestsTyped, SameAdmissions, checking

LEMMA ServeAdmits ==
    ASSUME RequestsTyped, NEW h \in Callers, serve(h)
    PROVE  checkRateLimit(h) \/ SameAdmissions
<1>1. CASE ~checking(h) /\ UNCHANGED limits /\ answered(h)
  BY <1>1, RequestReplaced DEF answered, idleRequest
<1>2. ASSUME ~checking(h), UNCHANGED limits, NEW pc \in {"read", "cancelling", "executing"},
             goTo(h, pc)
      PROVE  SameAdmissions
  <2> DEFINE r == [pc |-> pc, op |-> requests[h].op, key |-> requests[h].key]
  <2>1. requests' = [requests EXCEPT ![h] = r] /\ r.pc = pc
    BY <1>2 DEF goTo
  <2> HIDE DEF r
  <2> QED BY <1>2, <2>1, RequestReplaced
<1>3. CASE ~checking(h) /\ UNCHANGED limits /\ fill(h)
  <2> DEFINE r == [pc |-> "fill", op |-> requests[h].op, key |-> requests[h].key,
                   read |-> changes[key(h)]]
  <2>1. requests' = [requests EXCEPT ![h] = r] /\ r.pc = "fill"
    BY <1>3 DEF fill
  <2> HIDE DEF r
  <2> QED BY <1>3, <2>1, RequestReplaced
<1>4. CASE UNCHANGED limits /\ UNCHANGED requests
  BY <1>4 DEF SameAdmissions
<1>5. CASE look(h) \/ refuseCreate(h) \/ clearCache(h) \/ setCache(h) \/ respondSuccess(h)
  BY <1>1, <1>5 DEF look, refuseCreate, clearCache, setCache, respondSuccess, serving, at,
     checking
<1>6. CASE getFromCache(h)
  BY <1>1, <1>2, <1>6 DEF getFromCache, serving, at, checking
<1>7. CASE getOrder(h) \/ getTWAPPrice(h)
  BY <1>1, <1>3, <1>7 DEF getOrder, getTWAPPrice, at, checking
<1>8. CASE startCancel(h) \/ startExecution(h)
  BY <1>1, <1>2, <1>8 DEF startCancel, startExecution, serving, at, checking
<1>9. CASE finishCancel(h)
  <2>1. ~checking(h) /\ UNCHANGED limits
    BY <1>9 DEF finishCancel, at, checking
  <2>2. forget(h).pc = "forget"
    BY DEF forget
  <2> QED BY <1>1, <1>9, <2>1, <2>2, RequestReplaced DEF finishCancel
<1>10. CASE requestExecution(h)
  BY <1>1, <1>4, <1>10 DEF requestExecution, at, checking
<1>11. CASE clearOrderCache(h)
  <2> DEFINE r == [pc |-> "respond", op |-> requests[h].op, key |-> requests[h].key,
                   made |-> requests[h].made]
  <2>1. requests' = [requests EXCEPT ![h] = r] /\ r.pc = "respond"
    BY <1>11 DEF clearOrderCache, cleared
  <2>2. ~checking(h) /\ UNCHANGED limits
    BY <1>11 DEF clearOrderCache, at, checking
  <2> HIDE DEF r
  <2> QED BY <2>1, <2>2, RequestReplaced
<1> QED BY <1>5, <1>6, <1>7, <1>8, <1>9, <1>10, <1>11 DEF serve

LEMMA AdmissionsMove ==
    ASSUME FrontInv, CallersWait, IInv, [ServiceNext]_allVars
    PROVE  \/ \E h \in Callers, op \in Ops, k \in Keys : receive(h, op, k)
           \/ \E h \in Callers : checkRateLimit(h)
           \/ limiterTick
           \/ SameAdmissions
<1>1. RequestsTyped /\ CallersServed /\ ResponsesTyped
  BY DEF FrontInv
<1>2. ASSUME NEW h \in Callers, Serve(h) PROVE checkRateLimit(h) \/ SameAdmissions
  BY <1>1, <1>2, ServeAdmits DEF Serve
<1>3. CASE Work
  <2>1. \A h \in Callers : idleRequest.pc = "idle" /\ forget(h).pc = "forget"
    BY DEF idleRequest, forget
  <2>2. \A h \in Callers :
            requests'[h] = requests[h] \/ (~checking(h) /\ ~checking(h)')
    BY <1>1, <1>3, <2>1, WorkMoves DEF checking, at
  <2>3. UNCHANGED limits
    BY <1>3 DEF Work, work
  <2> QED BY <2>2, <2>3 DEF SameAdmissions
<1>4. CASE UNCHANGED <<requests, limits>>
  BY <1>4 DEF SameAdmissions
<1>5. CASE Goroutine
  BY <1>2, <1>3, <1>4, <1>5 DEF Goroutine, Process, engineGoroutineEnds, StartOrchestrator,
     Orchestrate, CallBack, frontVars
<1>6. CASE World
  BY <1>4, <1>6 DEF World, Receive, ReceiveEvent, insertRow, ChangeAdapters, StartSwap,
     GoOnSwapping, PassTime, frontVars
<1>7. CASE signal \/ Shutdown \/ exit \/ exitAfterTimeout \/ crash \/ UNCHANGED allVars
  BY <1>4, <1>7 DEF signal, Shutdown, exit, exitAfterTimeout, crash, allVars, frontVars
<1> QED BY <1>5, <1>6, <1>7 DEF ServiceNext

-----------------------------------------------------------------------------
(* What a step of an admission does to the limiters.                       *)

LEMMA ValidBuckets ==
    ASSUME LimitersTyped, NEW c \in Clients, NEW i \in DOMAIN limiter[c]
    PROVE  Valid(limiter[c][i])
<1>1. limiter[c] \in Seq(Bucket)
  BY DEF LimitersTyped
<1>2. limiter[c][i] \in Bucket
  BY <1>1, ElementOfSeq
<1> QED BY <1>2 DEF LimitersTyped, Valid

LEMMA BucketWritten ==
    ASSUME LimitersTyped, NEW c \in Clients, NEW i \in DOMAIN limiter[c], NEW b, Valid(b),
           limiter' = [limiter EXCEPT ![c][i] = b]
    PROVE  /\ limiter' \in [Clients -> Seq(Bucket)]
           /\ \A d \in Clients : d # c => limiter'[d] = limiter[d]
           /\ Len(limiter'[c]) = Len(limiter[c]) /\ DOMAIN limiter'[c] = DOMAIN limiter[c]
           /\ limiter'[c][i] = b
           /\ \A j \in DOMAIN limiter[c] : j # i => limiter'[c][j] = limiter[c][j]
           /\ \A d \in Clients : \A j \in DOMAIN limiter'[d] : Valid(limiter'[d][j])
<1> DEFINE s == limiter[c]
           t == [s EXCEPT ![i] = b]
<1>1. s \in Seq(Bucket) /\ b \in Bucket /\ limiter \in [Clients -> Seq(Bucket)]
  BY DEF LimitersTyped, Valid
<1>2. limiter' = [limiter EXCEPT ![c] = t]
  OBVIOUS
<1>3. /\ t \in Seq(Bucket) /\ Len(t) = Len(s) /\ DOMAIN t = DOMAIN s
      /\ t[i] = b /\ \A j \in DOMAIN s : j # i => t[j] = s[j]
  BY <1>1
<1> HIDE DEF t
<1>4. limiter'[c] = t /\ \A d \in Clients : d # c => limiter'[d] = limiter[d]
  BY <1>1, <1>2
<1>5. limiter' \in [Clients -> Seq(Bucket)]
  BY <1>1, <1>2, <1>3
<1>6. ASSUME NEW d \in Clients, NEW j \in DOMAIN limiter'[d] PROVE Valid(limiter'[d][j])
  <2>1. CASE d = c
    BY <1>3, <1>4, <1>6, <2>1, ValidBuckets
  <2>2. CASE d # c
    BY <1>4, <1>6, <2>2, ValidBuckets
  <2> QED BY <2>1, <2>2
<1> QED BY <1>3, <1>4, <1>5, <1>6

LEMMA BucketAdded ==
    ASSUME LimitersTyped, NEW c \in Clients, NEW b, Valid(b),
           limiter' = [limiter EXCEPT ![c] = Append(limiter[c], b)]
    PROVE  /\ limiter' \in [Clients -> Seq(Bucket)]
           /\ \A d \in Clients : d # c => limiter'[d] = limiter[d]
           /\ Len(limiter'[c]) = Len(limiter[c]) + 1
           /\ DOMAIN limiter'[c] = DOMAIN limiter[c] \cup {Len(limiter[c]) + 1}
           /\ limiter'[c][Len(limiter[c]) + 1] = b
           /\ \A j \in DOMAIN limiter[c] : limiter'[c][j] = limiter[c][j]
           /\ \A d \in Clients : \A j \in DOMAIN limiter'[d] : Valid(limiter'[d][j])
<1> DEFINE s == limiter[c]
           t == Append(s, b)
<1>1. s \in Seq(Bucket) /\ b \in Bucket /\ limiter \in [Clients -> Seq(Bucket)]
  BY DEF LimitersTyped, Valid
<1>2. limiter' = [limiter EXCEPT ![c] = t]
  OBVIOUS
<1>3. /\ t \in Seq(Bucket) /\ Len(t) = Len(s) + 1 /\ DOMAIN t = DOMAIN s \cup {Len(s) + 1}
      /\ t[Len(s) + 1] = b /\ \A j \in DOMAIN s : t[j] = s[j]
  BY <1>1
<1> HIDE DEF t
<1>4. limiter'[c] = t /\ \A d \in Clients : d # c => limiter'[d] = limiter[d]
  BY <1>1, <1>2
<1>5. limiter' \in [Clients -> Seq(Bucket)]
  BY <1>1, <1>2, <1>3
<1>6. ASSUME NEW d \in Clients, NEW j \in DOMAIN limiter'[d] PROVE Valid(limiter'[d][j])
  <2>1. CASE d = c
    BY <1>3, <1>4, <1>6, <2>1, ValidBuckets
  <2>2. CASE d # c
    BY <1>4, <1>6, <2>2, ValidBuckets
  <2> QED BY <2>1, <2>2
<1> QED BY <1>3, <1>4, <1>5, <1>6

LEMMA LookupParts ==
    ASSUME NEW h \in Callers, lookupLimiter(h)
    PROVE  LET known == limiter[Client[h]] IN
           /\ UNCHANGED limits
           /\ \/ /\ known = <<>>
                 /\ requests' = [requests EXCEPT ![h] =
                        [pc |-> "insert", op |-> requests[h].op, key |-> requests[h].key,
                         now |-> requests[h].now]]
              \/ /\ known # <<>>
                 /\ requests' = [requests EXCEPT ![h] =
                        [pc |-> "refill", op |-> requests[h].op, key |-> requests[h].key,
                         now |-> requests[h].now, held |-> Len(known),
                         found |-> known[Len(known)]]]
BY DEF lookupLimiter

LEMMA InsertParts ==
    ASSUME RequestsTyped, LimitersTyped, NEW h \in Callers, insertLimiter(h)
    PROVE  LET b == [tokens |-> RateLimit - 1, lastRefill |-> requests[h].now] IN
           /\ Valid(b)
           /\ limiter' = [limiter EXCEPT ![Client[h]] = Append(limiter[Client[h]], b)]
           /\ taken' = [taken EXCEPT ![Client[h]] = @ + 1] /\ UNCHANGED <<overlaps, ticks>>
           /\ requests' = [requests EXCEPT ![h] = [pc |-> "admitted", op |-> requests[h].op,
                                                   key |-> requests[h].key]]
<1>1. requests[h].pc = "insert"
  BY DEF insertLimiter, at
<1>2. requests[h].now \in Nat /\ requests[h].now <= ticks
  BY <1>1, RequestParts DEF Holds, LimitersTyped, timed, at
<1>3. Valid([tokens |-> RateLimit - 1, lastRefill |-> requests[h].now])
  BY <1>2, TicksType DEF Valid, Bucket
<1> QED BY <1>3 DEF insertLimiter, admitted, goTo

LEMMA TakeParts ==
    ASSUME RequestsTyped, LimitersTyped, NEW h \in Callers, takeToken(h)
    PROVE  \E count \in Int :
              /\ count \in {requests[h].tokens, held(h).tokens} /\ count <= RateLimit
              /\ Valid([tokens |-> count - 1, lastRefill |-> held(h).lastRefill])
              /\ limiter' = [limiter EXCEPT ![Client[h]][requests[h].held] =
                     [tokens |-> count - 1, lastRefill |-> held(h).lastRefill]]
              /\ taken' = [taken EXCEPT ![Client[h]] = @ + 1] /\ UNCHANGED <<overlaps, ticks>>
              /\ requests' = [requests EXCEPT ![h] = [pc |-> "admitted", op |-> requests[h].op,
                                                      key |-> requests[h].key]]
<1> DEFINE c == Client[h]
           i == requests[h].held
<1>1. PICK count \in {requests[h].tokens, held(h).tokens} :
          admitted(h, [limiter[c] EXCEPT ![i].tokens = count - 1])
  BY DEF takeToken
<1>2. requests[h].pc = "take"
  BY DEF takeToken, at
<1>3. requests[h].tokens \in Int /\ requests[h].tokens <= RateLimit
  BY <1>2, RequestParts DEF Holds, LimitersTyped, at
<1>4. /\ i \in DOMAIN limiter[c] /\ held(h) \in Bucket
      /\ held(h).tokens \in Int /\ held(h).tokens <= RateLimit
      /\ held(h).lastRefill \in Nat /\ held(h).lastRefill <= ticks
  BY <1>2, HeldLimiter DEF holding, at
<1>5. count \in Int /\ count <= RateLimit
  BY <1>3, <1>4
<1> DEFINE b == [tokens |-> count - 1, lastRefill |-> held(h).lastRefill]
<1>6. [held(h) EXCEPT !.tokens = count - 1] = b
  BY <1>4 DEF Bucket
<1>7. Valid(b)
  BY <1>4, <1>5, TicksType DEF Valid, Bucket
<1>8. limiter' = [limiter EXCEPT ![c] = [limiter[c] EXCEPT ![i] = b]]
  <2>1. limiter' = [limiter EXCEPT ![c] = [limiter[c] EXCEPT ![i].tokens = count - 1]]
    BY <1>1 DEF admitted
  <2>2. [limiter[c] EXCEPT ![i].tokens = count - 1]
            = [limiter[c] EXCEPT ![i] = [limiter[c][i] EXCEPT !.tokens = count - 1]]
    OBVIOUS
  <2> QED BY <1>6, <2>1, <2>2 DEF held
<1>9. limiter' = [limiter EXCEPT ![c][i] = b]
  BY <1>8
<1> QED BY <1>1, <1>5, <1>7, <1>9 DEF admitted, goTo

\* A limiter is written or added, and a request goes on.
LEMMA LimitersMove ==
    ASSUME LimitersTyped, RequestsTyped, NEW h \in Callers,
           NEW r, requests' = [requests EXCEPT ![h] = r],
           r.pc \in {"lookup", "insert", "refill"} => r.now <= ticks,
           r.pc \in {"refill", "take"} => r.held \in DOMAIN limiter[Client[h]],
           r.pc = "take" => r.tokens <= RateLimit,
           limiter' \in [Clients -> Seq(Bucket)],
           \A c \in Clients : DOMAIN limiter[c] \subseteq DOMAIN limiter'[c],
           \A c \in Clients : \A i \in DOMAIN limiter'[c] : Valid(limiter'[c][i]),
           taken' \in [Clients -> Nat], overlaps' \in [Clients -> Nat], UNCHANGED ticks
    PROVE  LimitersTyped'
<1>1. ASSUME NEW g \in Callers
      PROVE  /\ timed(g)' => requests'[g].now <= ticks
             /\ holding(g)' => requests'[g].held \in DOMAIN limiter'[Client[g]]
             /\ at(g, "take")' => requests'[g].tokens <= RateLimit
  <2>1. CASE g = h
    <3>1. requests'[g] = r
      BY <2>1 DEF RequestsTyped
    <3> QED BY <2>1, <3>1, ClientOf DEF timed, holding, at
  <2>2. CASE g # h
    <3>1. requests'[g] = requests[g]
      BY <2>2 DEF RequestsTyped
    <3> QED BY <3>1, ClientOf DEF LimitersTyped, timed, holding, at
  <2> QED BY <2>1, <2>2
<1> QED BY <1>1 DEF LimitersTyped, Valid

LEMMA TakenTyped ==
    ASSUME LimitersTyped, NEW h \in Callers, taken' = [taken EXCEPT ![Client[h]] = @ + 1]
    PROVE  taken' \in [Clients -> Nat]
<1>1. taken[Client[h]] + 1 \in Nat
  BY ClientOf DEF LimitersTyped
<1> QED BY <1>1 DEF LimitersTyped

LEMMA ReceiveLimits ==
    ASSUME LimitersTyped, RequestsTyped, NEW h \in Callers, NEW op, NEW k, receive(h, op, k)
    PROVE  LimitersTyped'
<1>1. UNCHANGED <<limiter, taken, ticks>>
  BY DEF receive
<1>2. overlaps' \in [Clients -> Nat]
  <2>1. overlaps[Client[h]] + 1 \in Nat
    BY ClientOf DEF LimitersTyped
  <2> QED BY <2>1 DEF receive, LimitersTyped
<1> DEFINE r == [pc |-> "lookup", op |-> op, key |-> k, now |-> ticks]
<1>3. requests' = [requests EXCEPT ![h] = r]
  BY DEF receive
<1>4. r.pc = "lookup" /\ r.now <= ticks
  BY DEF LimitersTyped
<1> HIDE DEF r
<1>5. limiter' \in [Clients -> Seq(Bucket)] /\ taken' \in [Clients -> Nat]
  BY <1>1 DEF LimitersTyped
<1>6. \A c \in Clients : \A i \in DOMAIN limiter'[c] : Valid(limiter'[c][i])
  BY <1>1, ValidBuckets
<1> QED BY <1>1, <1>2, <1>3, <1>4, <1>5, <1>6, LimitersMove

LEMMA LookupLimits ==
    ASSUME LimitersTyped, RequestsTyped, NEW h \in Callers, lookupLimiter(h)
    PROVE  LimitersTyped'
<1> DEFINE known == limiter[Client[h]]
           s == [pc |-> "insert", op |-> requests[h].op, key |-> requests[h].key,
                 now |-> requests[h].now]
           t == [pc |-> "refill", op |-> requests[h].op, key |-> requests[h].key,
                 now |-> requests[h].now, held |-> Len(known), found |-> known[Len(known)]]
<1>1. /\ UNCHANGED <<limiter, taken, overlaps, ticks>>
      /\ \/ requests' = [requests EXCEPT ![h] = s]
         \/ known # <<>> /\ requests' = [requests EXCEPT ![h] = t]
  BY LookupParts DEF limits
<1>2. requests[h].now <= ticks
  BY DEF lookupLimiter, LimitersTyped, timed, at
<1>3. known # <<>> => Len(known) \in DOMAIN known
  BY KnownLimiter, ClientOf
<1>4. /\ s.pc = "insert" /\ s.now <= ticks
      /\ t.pc = "refill" /\ t.now <= ticks /\ t.held = Len(known)
  BY <1>2
<1> HIDE DEF s, t
<1>5. /\ limiter' \in [Clients -> Seq(Bucket)] /\ taken' \in [Clients -> Nat]
      /\ overlaps' \in [Clients -> Nat]
  BY <1>1 DEF LimitersTyped
<1>6. \A c \in Clients : \A i \in DOMAIN limiter'[c] : Valid(limiter'[c][i])
  BY <1>1, ValidBuckets
<1> QED BY <1>1, <1>3, <1>4, <1>5, <1>6, LimitersMove

LEMMA CheckLimits ==
    ASSUME LimitersTyped, RequestsTyped, NEW h \in Callers, checkRateLimit(h)
    PROVE  LimitersTyped'
<1> DEFINE c == Client[h]
           i == requests[h].held
<1>1. c \in Clients
  BY ClientOf
<1> DEFINE a == [pc |-> "admitted", op |-> requests[h].op, key |-> requests[h].key]
<1>2. a.pc = "admitted" /\ idleRequest.pc = "idle"
  BY DEF idleRequest
<1> HIDE DEF a
<1>3. CASE lookupLimiter(h)
  BY <1>3, LookupLimits
<1>4. CASE insertLimiter(h)
  <2> DEFINE b == [tokens |-> RateLimit - 1, lastRefill |-> requests[h].now]
  <2>1. /\ Valid(b) /\ limiter' = [limiter EXCEPT ![c] = Append(limiter[c], b)]
        /\ taken' = [taken EXCEPT ![c] = @ + 1] /\ UNCHANGED <<overlaps, ticks>>
        /\ requests' = [requests EXCEPT ![h] = a]
    BY <1>4, InsertParts DEF a
  <2> HIDE DEF b, c
  <2>2. /\ limiter' \in [Clients -> Seq(Bucket)]
        /\ \A d \in Clients : DOMAIN limiter[d] \subseteq DOMAIN limiter'[d]
        /\ \A d \in Clients : \A j \in DOMAIN limiter'[d] : Valid(limiter'[d][j])
    BY <1>1, <2>1, BucketAdded
  <2>3. taken' \in [Clients -> Nat] /\ overlaps' \in [Clients -> Nat]
    BY <2>1, TakenTyped DEF LimitersTyped, c
  <2> QED BY <1>2, <2>1, <2>2, <2>3, LimitersMove
<1>5. ASSUME NEW b, NEW r, holding(h), Valid(b), limiter' = [limiter EXCEPT ![c][i] = b],
             requests' = [requests EXCEPT ![h] = r],
             r.pc \in {"idle", "admitted", "take"},
             r.pc = "take" => r.held = i /\ r.tokens <= RateLimit,
             taken' \in [Clients -> Nat], UNCHANGED <<overlaps, ticks>>
      PROVE  LimitersTyped'
  <2>1. i \in DOMAIN limiter[c]
    BY <1>5, HeldLimiter
  <2> HIDE DEF i, c
  <2>2. /\ limiter' \in [Clients -> Seq(Bucket)]
        /\ \A d \in Clients : DOMAIN limiter[d] \subseteq DOMAIN limiter'[d]
        /\ \A d \in Clients : \A j \in DOMAIN limiter'[d] : Valid(limiter'[d][j])
    BY <1>1, <1>5, <2>1, BucketWritten
  <2>3. overlaps' \in [Clients -> Nat]
    BY <1>5 DEF LimitersTyped
  <2> QED BY <1>5, <2>1, <2>2, <2>3, LimitersMove DEF c
<1>6. CASE refillLimiter(h)
  <2> DEFINE t(n) == [pc |-> "take", op |-> requests[h].op, key |-> requests[h].key,
                      held |-> requests[h].held, tokens |-> n]
  <2>1. PICK n \in Int :
            /\ n <= RateLimit /\ Valid([tokens |-> n, lastRefill |-> requests[h].now])
            /\ limiter' = [limiter EXCEPT ![c][i] =
                   [tokens |-> n, lastRefill |-> requests[h].now]]
            /\ UNCHANGED <<taken, overlaps, ticks>>
            /\ \/ requests' = [requests EXCEPT ![h] = idleRequest]
               \/ requests' = [requests EXCEPT ![h] = t(n)]
    BY <1>6, RefillParts
  <2>2. t(n).pc = "take" /\ t(n).held = i /\ t(n).tokens = n
    OBVIOUS
  <2>3. holding(h) /\ taken' \in [Clients -> Nat]
    BY <1>6, <2>1 DEF refillLimiter, holding, LimitersTyped
  <2> HIDE DEF t, c, i
  <2> QED BY <1>2, <1>5, <2>1, <2>2, <2>3
<1>7. CASE takeToken(h)
  <2>1. PICK n \in Int :
            /\ Valid([tokens |-> n - 1, lastRefill |-> held(h).lastRefill])
            /\ limiter' = [limiter EXCEPT ![c][i] =
                   [tokens |-> n - 1, lastRefill |-> held(h).lastRefill]]
            /\ taken' = [taken EXCEPT ![c] = @ + 1] /\ UNCHANGED <<overlaps, ticks>>
            /\ requests' = [requests EXCEPT ![h] = a]
    BY <1>7, TakeParts DEF a
  <2>2. holding(h) /\ taken' \in [Clients -> Nat]
    BY <1>7, <2>1, TakenTyped DEF takeToken, holding
  <2> HIDE DEF c, i
  <2> QED BY <1>2, <1>5, <2>1, <2>2
<1> QED BY <1>3, <1>4, <1>6, <1>7 DEF checkRateLimit

LEMMA TickLimits ==
    ASSUME LimitersTyped, RequestsTyped, limiterTick
    PROVE  LimitersTyped'
<1>1. /\ UNCHANGED <<requests, limiter, taken, overlaps>> /\ ticks' = ticks + 1
      /\ ticks' \in 0..MaxTicks /\ ticks \in Nat
  BY TicksType DEF limiterTick, LimitersTyped
<1>2. ASSUME NEW c \in Clients, NEW i \in DOMAIN limiter[c]
      PROVE  limiter[c][i].tokens <= RateLimit /\ limiter[c][i].lastRefill <= ticks'
  <2>1. Valid(limiter[c][i])
    BY <1>2, ValidBuckets
  <2>2. limiter[c][i].tokens <= RateLimit
    BY <2>1 DEF Valid
  <2>3. limiter[c][i].lastRefill \in Nat /\ limiter[c][i].lastRefill <= ticks
    BY <2>1 DEF Valid, Bucket
  <2> QED BY <1>1, <2>2, <2>3
<1>3. ASSUME NEW h \in Callers, timed(h) PROVE requests[h].now <= ticks'
  <2>1. requests[h].now \in Nat
    BY <1>3, RequestParts DEF timed, at, Holds
  <2>2. requests[h].now <= ticks
    BY <1>3 DEF LimitersTyped
  <2> QED BY <1>1, <2>1, <2>2
<1>4. (\A h \in Callers :
          /\ timed(h) => requests[h].now <= ticks
          /\ holding(h) => requests[h].held \in DOMAIN limiter[Client[h]]
          /\ at(h, "take") => requests[h].tokens <= RateLimit)'
  BY <1>1, <1>3 DEF LimitersTyped, timed, holding, at
<1> QED BY <1>1, <1>2, <1>4 DEF LimitersTyped

LEMMA LimitersTypedOn ==
    ASSUME FrontInv, CallersWait, IInv, [ServiceNext]_allVars
    PROVE  LimitersTyped'
<1>1. RequestsTyped /\ LimitersTyped
  BY DEF FrontInv
<1>2. CASE SameAdmissions
  <2>1. UNCHANGED <<limiter, taken, overlaps, ticks>>
    BY <1>2 DEF SameAdmissions, limits
  <2>2. \A h \in Callers : requests'[h].pc \in {"lookup", "insert", "refill", "take"} =>
            requests'[h] = requests[h]
    BY <1>2 DEF SameAdmissions, checking
  <2> QED BY <1>1, <2>1, <2>2 DEF LimitersTyped, timed, holding, at
<1> QED BY <1>1, <1>2, AdmissionsMove, ReceiveLimits, CheckLimits, TickLimits

-----------------------------------------------------------------------------
(* Versions of rows: what handlers, the cache and the clients know of them. *)

\* A handler's request in a step of its own.
LEMMA ServeReplaces ==
    ASSUME RequestsTyped, NEW g \in Callers, serve(g), NEW h \in Callers, g # h
    PROVE  requests'[h] = requests[h]
<1>1. ASSUME NEW r, requests' = [requests EXCEPT ![g] = r] PROVE requests'[h] = requests[h]
  BY <1>1 DEF RequestsTyped
<1>2. ~(\E r : requests' = [requests EXCEPT ![g] = r]) =>
          ~(\E pc : goTo(g, pc)) /\ ~answered(g) /\ ~fill(g) /\ ~cleared(g)
  BY DEF goTo, answered, fill, cleared
<1>3. (\E r : requests' = [requests EXCEPT ![g] = r]) \/ UNCHANGED requests
  <2>1. CASE checkRateLimit(g)
    BY <1>2, <2>1 DEF checkRateLimit, lookupLimiter, insertLimiter, admitted, refillLimiter,
       takeToken
  <2>2. CASE finishCancel(g)
    BY <1>2, <2>2 DEF finishCancel
  <2>3. CASE ~checkRateLimit(g) /\ ~finishCancel(g)
    BY <1>2, <2>3 DEF serve, look, refuseCreate, clearCache, getFromCache, getOrder,
       getTWAPPrice, setCache, startCancel, startExecution, requestExecution,
       clearOrderCache, respondSuccess
  <2> QED BY <2>1, <2>2, <2>3
<1> QED BY <1>1, <1>3

versioned(r) == r.pc \in {"fill", "forget", "respond"}

\* Where a request goes that goes neither from the cache nor to it.
LEMMA GoesUnversioned ==
    ASSUME RequestsTyped, NEW h \in Callers,
           \/ answered(h)
           \/ \E pc \in {"admitted", "read", "cancelling", "executing"} : goTo(h, pc)
           \/ checkRateLimit(h)
    PROVE  ~versioned(requests'[h])
<1>1. ASSUME NEW r, ~versioned(r), requests' = [requests EXCEPT ![h] = r]
      PROVE  ~versioned(requests'[h])
  BY <1>1 DEF RequestsTyped
<1>2. CASE answered(h)
  BY <1>1, <1>2 DEF answered, idleRequest, versioned
<1>3. ASSUME NEW pc \in {"admitted", "read", "cancelling", "executing"}, goTo(h, pc)
      PROVE  ~versioned(requests'[h])
  <2> DEFINE r == [pc |-> pc, op |-> requests[h].op, key |-> requests[h].key]
  <2>1. requests' = [requests EXCEPT ![h] = r] /\ r.pc = pc
    BY <1>3 DEF goTo
  <2> HIDE DEF r
  <2> QED BY <1>1, <2>1 DEF versioned
<1>4. CASE lookupLimiter(h)
  <2> DEFINE known == limiter[Client[h]]
             s == [pc |-> "insert", op |-> requests[h].op, key |-> requests[h].key,
                   now |-> requests[h].now]
             t == [pc |-> "refill", op |-> requests[h].op, key |-> requests[h].key,
                   now |-> requests[h].now, held |-> Len(known), found |-> known[Len(known)]]
  <2>1. requests' = [requests EXCEPT ![h] = s] \/ requests' = [requests EXCEPT ![h] = t]
    BY <1>4, LookupParts
  <2>2. s.pc = "insert" /\ t.pc = "refill"
    OBVIOUS
  <2> HIDE DEF s, t
  <2> QED BY <1>1, <2>1, <2>2 DEF versioned
<1>5. CASE refillLimiter(h)
  <2> DEFINE t(n) == [pc |-> "take", op |-> requests[h].op, key |-> requests[h].key,
                      held |-> requests[h].held, tokens |-> n]
  <2>1. answered(h) \/ \E n : requests' = [requests EXCEPT ![h] = t(n)]
    BY <1>5 DEF refillLimiter
  <2>2. \A n : t(n).pc = "take"
    OBVIOUS
  <2> HIDE DEF t
  <2> QED BY <1>1, <1>2, <2>1, <2>2 DEF versioned
<1>6. CASE insertLimiter(h) \/ takeToken(h)
  BY <1>3, <1>6 DEF insertLimiter, takeToken, admitted
<1> QED BY <1>2, <1>3, <1>4, <1>5, <1>6 DEF checkRateLimit

\* A request that comes to know a version has read it, made it, or has cleared
\* the cache of it.
LEMMA VersionsMove ==
    ASSUME FrontInv, CallersWait, IInv, [ServiceNext]_allVars, NEW h \in Callers,
           versioned(requests'[h]), requests'[h] # requests[h]
    PROVE  LET r == requests'[h] IN
           \/ r.pc = "fill" /\ r.key \in Keys /\ r.read = changes[r.key]
           \/ r.pc = "forget" /\ r.key \in Keys /\ r.made = changesAfter(r.key)
           \/ /\ r.pc = "respond" /\ r.key \in Keys /\ r.made = requests[h].made
              /\ r.key = requests[h].key /\ clearOrderCache(h)
<1>1. RequestsTyped /\ LimitersTyped /\ ResponsesTyped /\ CallersServed
  BY DEF FrontInv
<1>2. requests[h].pc # "idle" => requests[h].key \in Keys
  BY <1>1, RequestParts
<1>3. requests'[h] = forget(h) /\ requests[h].pc # "idle" =>
          /\ requests'[h].pc = "forget" /\ requests'[h].key \in Keys
          /\ requests'[h].made = changesAfter(requests'[h].key)
  BY <1>2 DEF forget, key
<1>4. CASE Receive
  <2>1. PICK g \in Callers, op \in Ops, k \in Keys :
            requests' = [requests EXCEPT ![g] =
                [pc |-> "lookup", op |-> op, key |-> k, now |-> ticks]]
    BY <1>4 DEF Receive, receive
  <2>2. requests'[h].pc = "lookup"
    BY <1>1, <2>1 DEF RequestsTyped
  <2> QED BY <2>2 DEF versioned
<1>5. CASE Work
  <2>1. at(h, "executing") /\ requests'[h] \in {idleRequest, forget(h)}
    BY <1>1, <1>5, WorkMoves
  <2> QED BY <1>3, <2>1 DEF at, versioned, idleRequest
<1>6. ASSUME NEW g \in Callers, Serve(g)
      PROVE  LET r == requests'[h] IN
             \/ r.pc = "fill" /\ r.key \in Keys /\ r.read = changes[r.key]
             \/ r.pc = "forget" /\ r.key \in Keys /\ r.made = changesAfter(r.key)
             \/ /\ r.pc = "respond" /\ r.key \in Keys /\ r.made = requests[h].made
                /\ r.key = requests[h].key /\ clearOrderCache(h)
  <2>1. g = h /\ serve(h)
    BY <1>1, <1>6, ServeReplaces DEF Serve
  <2>2. /\ ~answered(h) /\ ~checkRateLimit(h)
        /\ \A pc \in {"admitted", "read", "cancelling", "executing"} : ~goTo(h, pc)
    BY <1>1, GoesUnversioned
  <2>3. CASE getOrder(h) \/ getTWAPPrice(h)
    <3> DEFINE k == requests[h].key
               r == [pc |-> "fill", op |-> requests[h].op, key |-> k, read |-> changes[k]]
    <3>1. requests' = [requests EXCEPT ![h] = r] /\ requests[h].pc = "read"
      BY <2>2, <2>3 DEF getOrder, getTWAPPrice, fill, at, key
    <3>2. r.pc = "fill" /\ r.key = k /\ r.read = changes[k]
      OBVIOUS
    <3> HIDE DEF r
    <3>3. requests'[h] = r
      BY <1>1, <3>1 DEF RequestsTyped
    <3>4. k \in Keys
      BY <1>2, <3>1
    <3> QED BY <3>2, <3>3, <3>4
  <2>4. CASE finishCancel(h)
    <3>1. requests' = [requests EXCEPT ![h] = forget(h)] /\ requests[h].pc = "cancelling"
      BY <2>2, <2>4 DEF finishCancel, at
    <3>2. requests'[h] = forget(h)
      BY <1>1, <3>1 DEF RequestsTyped
    <3> QED BY <1>3, <3>1, <3>2
  <2>5. CASE clearOrderCache(h)
    <3> DEFINE k == requests[h].key
               r == [pc |-> "respond", op |-> requests[h].op, key |-> k,
                     made |-> requests[h].made]
    <3>1. requests' = [requests EXCEPT ![h] = r] /\ requests[h].pc = "forget"
      BY <2>5 DEF clearOrderCache, cleared, at
    <3>2. r.pc = "respond" /\ r.key = k /\ r.made = requests[h].made
      OBVIOUS
    <3> HIDE DEF r
    <3>3. requests'[h] = r
      BY <1>1, <3>1 DEF RequestsTyped
    <3>4. k \in Keys
      BY <1>2, <3>1
    <3> QED BY <2>5, <3>2, <3>3, <3>4
  <2>6. ~getFromCache(h) /\ ~startCancel(h) /\ ~startExecution(h) /\ ~requestExecution(h)
    BY <2>2 DEF getFromCache, startCancel, startExecution, requestExecution
  <2> QED BY <2>1, <2>2, <2>3, <2>4, <2>5, <2>6 DEF serve, look, refuseCreate, clearCache,
         setCache, respondSuccess
<1> QED BY <1>4, <1>5, <1>6, RequestsMove

LEMMA ChangesMove ==
    ASSUME ResponsesTyped, [ServiceNext]_allVars
    PROVE  /\ changes' \in [Keys -> Nat]
           /\ \A k \in Keys : changes[k] <= changes'[k] /\ changes'[k] = changesAfter(k)
<1>1. CASE ServiceNext
  <2>1. changes' = [k \in Keys |-> changesAfter(k)]
    BY <1>1 DEF ServiceNext, countChanges
  <2> QED BY <2>1, LaterVersion
<1>2. CASE UNCHANGED allVars
  <2>1. UNCHANGED <<changes, orders>>
    BY <1>2 DEF allVars, vars, storeVars
  <2>2. \A k \in Keys : changesAfter(k) = changes[k]
    BY <2>1 DEF changesAfter
  <2> QED BY <2>1, <2>2, LaterVersion DEF ResponsesTyped
<1> QED BY <1>1, <1>2

\* A step at the cache: a response stored, one order's or all of them forgotten;
\* or the answer to a client.
LEMMA CacheSteps ==
    ASSUME [ServiceNext]_allVars
    PROVE  \/ UNCHANGED cached
           \/ \E h \in Callers :
                 setCache(h) \/ clearOrderCache(h) \/ clearCache(h) \/ respondSuccess(h)
<1>1. CASE Goroutine
  <2>1. ASSUME NEW h \in Callers, Serve(h)
        PROVE  \/ UNCHANGED cached
               \/ setCache(h) \/ clearOrderCache(h) \/ clearCache(h) \/ respondSuccess(h)
    BY <2>1 DEF Serve, serve, checkRateLimit, lookupLimiter, insertLimiter, refillLimiter,
       takeToken, admitted, look, refuseCreate, getFromCache, getOrder, getTWAPPrice,
       startCancel, finishCancel, startExecution, requestExecution
  <2>2. CASE Orchestrate
    BY <2>2 DEF Orchestrate, frontVars
  <2> QED BY <1>1, <2>1, <2>2 DEF Goroutine, Process, Work, work, engineGoroutineEnds,
         StartOrchestrator, CallBack, frontVars
<1>2. CASE World
  BY <1>2 DEF World, Receive, receive, ReceiveEvent, insertRow, ChangeAdapters, StartSwap,
     GoOnSwapping, PassTime, limiterTick, frontVars
<1>3. CASE signal \/ Shutdown \/ exit \/ exitAfterTimeout \/ crash \/ UNCHANGED allVars
  BY <1>3 DEF signal, Shutdown, exit, exitAfterTimeout, crash, allVars, frontVars
<1> QED BY <1>1, <1>2, <1>3 DEF ServiceNext

LEMMA RespondParts ==
    ASSUME RequestsTyped, ResponsesTyped, NEW h \in Callers, respondSuccess(h)
    PROVE  /\ key(h) \in Keys /\ requests[h].made \in Nat /\ at(h, "respond")
           /\ confirmed' \in [Keys -> Nat] /\ UNCHANGED cache
           /\ \A k \in Keys : confirmed'[k] = confirmed[k]
                                \/ (k = key(h) /\ confirmed'[k] = requests[h].made)
<1>1. at(h, "respond") /\ UNCHANGED cache
  BY DEF respondSuccess
<1>2. key(h) \in Keys /\ requests[h].made \in Nat
  BY <1>1, RequestParts DEF at, key, Holds
<1> DEFINE n == IF requests[h].made > confirmed[key(h)] THEN requests[h].made
                ELSE confirmed[key(h)]
<1>3. confirmed' = [confirmed EXCEPT ![key(h)] = n] /\ n \in {requests[h].made, confirmed[key(h)]}
  BY DEF respondSuccess
<1> HIDE DEF n
<1> QED BY <1>1, <1>2, <1>3 DEF ResponsesTyped

LEMMA SetParts ==
    ASSUME RequestsTyped, ResponsesTyped, NEW h \in Callers, setCache(h)
    PROVE  LET r == [read |-> requests[h].read, filled |-> changes[key(h)]] IN
           /\ key(h) \in Keys /\ r \in [read : Nat, filled : Nat] /\ r.read <= r.filled
           /\ r.filled = changes[key(h)] /\ r # NoResponse
           /\ cache' = [cache EXCEPT ![key(h)] = r] /\ UNCHANGED confirmed
<1>1. at(h, "fill")
  BY DEF setCache
<1>2. key(h) \in Keys /\ requests[h].read \in Nat /\ requests[h].read <= changes[key(h)]
  BY <1>1, RequestParts DEF at, key, Holds, ResponsesTyped
<1>3. changes[key(h)] \in Nat
  BY <1>2 DEF ResponsesTyped
<1>4. NoResponse.read \notin Nat
  BY DEF NoResponse, NULL
<1> QED BY <1>2, <1>3, <1>4 DEF setCache

LEMMA ResponsesTypedOn ==
    ASSUME FrontInv, CallersWait, IInv, [ServiceNext]_allVars
    PROVE  ResponsesTyped'
<1>1. RequestsTyped /\ ResponsesTyped
  BY DEF FrontInv
<1>2. /\ changes' \in [Keys -> Nat]
      /\ \A k \in Keys : changes[k] \in Nat /\ changes'[k] \in Nat /\ changes[k] <= changes'[k]
                         /\ changes'[k] = changesAfter(k)
  BY <1>1, ChangesMove DEF ResponsesTyped
<1>3. confirmed' \in [Keys -> Nat] /\ \A k \in Keys : confirmed'[k] <= changes'[k]
  <2>1. CASE UNCHANGED confirmed
    <3>1. \A k \in Keys : confirmed[k] \in Nat /\ confirmed[k] <= changes[k]
      BY <1>1 DEF ResponsesTyped
    <3> QED BY <1>1, <1>2, <2>1, <3>1 DEF ResponsesTyped
  <2>2. ASSUME NEW h \in Callers, respondSuccess(h)
        PROVE  confirmed' \in [Keys -> Nat] /\ \A k \in Keys : confirmed'[k] <= changes'[k]
    <3>1. requests[h].made \in Nat /\ requests[h].made <= changes[key(h)]
      BY <1>1, <2>2, RespondParts DEF ResponsesTyped
    <3>2. \A k \in Keys : confirmed[k] \in Nat /\ confirmed[k] <= changes[k]
      BY <1>1 DEF ResponsesTyped
    <3>3. \A k \in Keys : confirmed'[k] \in Nat /\ confirmed'[k] <= changes[k]
      BY <1>1, <2>2, <3>1, <3>2, RespondParts
    <3> QED BY <1>1, <1>2, <2>2, <3>3, RespondParts
  <2> QED BY <2>1, <2>2, CacheSteps DEF cached, setCache, clearOrderCache, clearCache
<1>4. /\ cache' \in [Keys -> {NoResponse} \cup [read : Nat, filled : Nat]]
      /\ \A k \in Keys : cache'[k] # NoResponse =>
            cache'[k].read <= cache'[k].filled /\ cache'[k].filled <= changes[k]
  <2> USE DEF ResponsesTyped
  <2>1. CASE UNCHANGED cache
    BY <1>1, <2>1
  <2>2. ASSUME NEW h \in Callers, setCache(h)
        PROVE  /\ cache' \in [Keys -> {NoResponse} \cup [read : Nat, filled : Nat]]
               /\ \A k \in Keys : cache'[k] # NoResponse =>
                     cache'[k].read <= cache'[k].filled /\ cache'[k].filled <= changes[k]
    <3> DEFINE r == [read |-> requests[h].read, filled |-> changes[key(h)]]
    <3>1. /\ key(h) \in Keys /\ r \in [read : Nat, filled : Nat] /\ r.read <= r.filled
          /\ r.filled = changes[key(h)] /\ cache' = [cache EXCEPT ![key(h)] = r]
      BY <1>1, <2>2, SetParts
    <3> HIDE DEF r
    <3>2. r.filled <= changes[key(h)]
      BY <1>2, <3>1
    <3> QED BY <1>1, <3>1, <3>2
  <2>3. ASSUME NEW h \in Callers, clearOrderCache(h) \/ clearCache(h)
        PROVE  /\ cache' \in [Keys -> {NoResponse} \cup [read : Nat, filled : Nat]]
               /\ \A k \in Keys : cache'[k] # NoResponse =>
                     cache'[k].read <= cache'[k].filled /\ cache'[k].filled <= changes[k]
    BY <1>1, <2>3 DEF clearOrderCache, clearCache
  <2> QED BY <2>1, <2>2, <2>3, CacheSteps DEF cached, respondSuccess
<1>5. ASSUME NEW k \in Keys, cache'[k] # NoResponse
      PROVE  cache'[k].read <= cache'[k].filled /\ cache'[k].filled <= changes'[k]
  <2>1. cache'[k] \in [read : Nat, filled : Nat]
    BY <1>4, <1>5
  <2>2. cache'[k].filled \in Nat /\ cache'[k].filled <= changes[k]
    BY <1>4, <1>5, <2>1
  <2> QED BY <1>2, <1>4, <1>5, <2>2
<1>6. ASSUME NEW h \in Callers
      PROVE  /\ at(h, "fill")' => requests'[h].read <= changes'[requests'[h].key]
             /\ at(h, "forget")' \/ at(h, "respond")' =>
                   requests'[h].made <= changes'[requests'[h].key]
  <2> DEFINE k == requests[h].key
  <2>1. CASE requests'[h] = requests[h]
    <3>1. versioned(requests[h]) => k \in Keys
      BY <1>1, RequestParts DEF versioned
    <3>2. requests[h].pc = "fill" => requests[h].read \in Nat /\ requests[h].read <= changes[k]
      BY <1>1, RequestParts DEF ResponsesTyped, Holds, at, key
    <3>3. requests[h].pc \in {"forget", "respond"} =>
              requests[h].made \in Nat /\ requests[h].made <= changes[k]
      BY <1>1, RequestParts DEF ResponsesTyped, Holds, at, key
    <3>4. requests[h].pc = "fill" => requests[h].read <= changes'[k]
      BY <1>2, <3>1, <3>2 DEF versioned
    <3>5. requests[h].pc \in {"forget", "respond"} => requests[h].made <= changes'[k]
      BY <1>2, <3>1, <3>3 DEF versioned
    <3> QED BY <2>1, <3>4, <3>5 DEF at
  <2>2. CASE requests'[h] # requests[h] /\ versioned(requests'[h])
    <3> DEFINE r == requests'[h]
    <3>1. \/ r.pc = "fill" /\ r.key \in Keys /\ r.read = changes[r.key]
          \/ r.pc = "forget" /\ r.key \in Keys /\ r.made = changesAfter(r.key)
          \/ /\ r.pc = "respond" /\ r.key \in Keys /\ r.made = requests[h].made
             /\ r.key = k /\ clearOrderCache(h)
      BY <2>2, VersionsMove
    <3>2. clearOrderCache(h) => requests[h].made \in Nat /\ requests[h].made <= changes[k]
      BY <1>1, RequestParts DEF clearOrderCache, at, Holds, ResponsesTyped, key
    <3>3. r.pc = "fill" => r.read <= changes'[r.key]
      BY <1>2, <3>1
    <3>4. r.pc = "forget" => r.made <= changes'[r.key]
      BY <1>2, <3>1
    <3>5. r.pc = "respond" => r.made <= changes'[r.key]
      BY <1>2, <3>1, <3>2
    <3> QED BY <3>3, <3>4, <3>5 DEF at
  <2>3. CASE ~versioned(requests'[h])
    BY <2>3 DEF versioned, at
  <2> QED BY <2>1, <2>2, <2>3
<1> QED BY <1>2, <1>3, <1>4, <1>5, <1>6 DEF ResponsesTyped, key

\* A request that goes on without being cancelled or executed.
LEMMA ServedElsewhere ==
    ASSUME CallersServed, RequestsTyped, NEW h \in Callers,
           requests[h].pc \notin {"executing", "cancelling"},
           \/ answered(h)
           \/ \E pc : pc \notin {"executing", "cancelling"} /\ goTo(h, pc)
           \/ \E r : /\ r.pc \notin {"executing", "cancelling"}
                     /\ requests' = [requests EXCEPT ![h] = r],
           UNCHANGED <<calls, cancels>>
    PROVE  CallersServed'
<1>1. ASSUME NEW r, r.pc \notin {"executing", "cancelling"},
             requests' = [requests EXCEPT ![h] = r]
      PROVE  CallersServed'
  BY <1>1 DEF CallersServed, RequestsTyped, at
<1>2. CASE answered(h)
  <2>1. idleRequest.pc = "idle"
    BY DEF idleRequest
  <2> QED BY <1>1, <1>2, <2>1 DEF answered
<1>3. ASSUME NEW pc, pc \notin {"executing", "cancelling"}, goTo(h, pc)
      PROVE  CallersServed'
  <2> DEFINE r == [pc |-> pc, op |-> requests[h].op, key |-> requests[h].key]
  <2>1. r.pc \notin {"executing", "cancelling"} /\ requests' = [requests EXCEPT ![h] = r]
    BY <1>3 DEF goTo
  <2> HIDE DEF r
  <2> QED BY <1>1, <2>1
<1> QED BY <1>1, <1>2, <1>3

LEMMA CheckServed ==
    ASSUME CallersServed, RequestsTyped, LimitersTyped, NEW h \in Callers, checkRateLimit(h)
    PROVE  CallersServed'
<1>1. UNCHANGED <<calls, cancels>>
  BY DEF checkRateLimit, lookupLimiter, insertLimiter, refillLimiter, takeToken, admitted,
     vars, engineVars, serviceVars
<1>2. requests[h].pc \notin {"executing", "cancelling"}
  BY DEF checkRateLimit, lookupLimiter, insertLimiter, refillLimiter, takeToken, at
<1>3. \/ answered(h)
      \/ \E pc : pc \notin {"executing", "cancelling"} /\ goTo(h, pc)
      \/ \E r : /\ r.pc \notin {"executing", "cancelling"}
                /\ requests' = [requests EXCEPT ![h] = r]
  <2>1. CASE lookupLimiter(h)
    <3> DEFINE known == limiter[Client[h]]
               s == [pc |-> "insert", op |-> requests[h].op, key |-> requests[h].key,
                     now |-> requests[h].now]
               r == [pc |-> "refill", op |-> requests[h].op, key |-> requests[h].key,
                     now |-> requests[h].now, held |-> Len(known), found |-> known[Len(known)]]
    <3>1. requests' = [requests EXCEPT ![h] = s] \/ requests' = [requests EXCEPT ![h] = r]
      BY <2>1, LookupParts
    <3>2. s.pc = "insert" /\ r.pc = "refill"
      OBVIOUS
    <3> HIDE DEF s, r
    <3> QED BY <3>1, <3>2
  <2>2. CASE insertLimiter(h) \/ takeToken(h)
    BY <2>2 DEF insertLimiter, takeToken, admitted
  <2>3. CASE refillLimiter(h)
    <3> DEFINE r(n) == [pc |-> "take", op |-> requests[h].op, key |-> requests[h].key,
                        held |-> requests[h].held, tokens |-> n]
    <3>1. answered(h) \/ \E n : requests' = [requests EXCEPT ![h] = r(n)]
      BY <2>3 DEF refillLimiter
    <3>2. \A n : r(n).pc \notin {"executing", "cancelling"}
      OBVIOUS
    <3> HIDE DEF r
    <3> QED BY <3>1, <3>2
  <2> QED BY <2>1, <2>2, <2>3 DEF checkRateLimit
<1> QED BY <1>1, <1>2, <1>3, ServedElsewhere

LEMMA ServeServed ==
    ASSUME CallersServed, RequestsTyped, LimitersTyped, IInv, NEW h \in Callers, serve(h)
    PROVE  CallersServed'
<1>1. /\ requests \in [Callers -> RequestRecord] /\ calls \in [Callers -> CallType]
      /\ cancels \in [Callers -> CancelType]
  BY ApiAssumption DEF RequestsTyped, IInv, TypeOK, HandlersTypeOK
<1>2. idleCall.pc = "idle" /\ idleCancel.pc = "idle" /\ idleRequest.pc = "idle"
  BY DEF idleCall, idleCancel, idleRequest
<1>3. CASE checkRateLimit(h)
  BY <1>3, CheckServed
<1>4. CASE look(h) \/ refuseCreate(h) \/ clearCache(h) \/ setCache(h) \/ respondSuccess(h)
  BY <1>4, ServedElsewhere DEF look, refuseCreate, clearCache, setCache, respondSuccess,
     serving, at, vars, engineVars, serviceVars
<1>5. CASE getFromCache(h)
  BY <1>5, ServedElsewhere DEF getFromCache, serving, at, vars, engineVars, serviceVars
<1>6. CASE getOrder(h) \/ getTWAPPrice(h)
  <2> DEFINE r == [pc |-> "fill", op |-> requests[h].op, key |-> requests[h].key,
                   read |-> changes[key(h)]]
  <2>1. answered(h) \/ requests' = [requests EXCEPT ![h] = r]
    BY <1>6 DEF getOrder, getTWAPPrice, fill
  <2>2. r.pc \notin {"executing", "cancelling"}
    OBVIOUS
  <2> HIDE DEF r
  <2> QED BY <1>6, <2>1, <2>2, ServedElsewhere DEF getOrder, getTWAPPrice, at, vars,
         engineVars, serviceVars
<1>7. CASE startCancel(h)
  <2>1. requests[h].pc = "admitted"
    BY <1>7 DEF startCancel, serving, at
  <2>2. CASE answered(h) /\ UNCHANGED <<engineVars, serviceVars>>
    BY <2>1, <2>2, ServedElsewhere DEF engineVars, serviceVars
  <2>3. CASE cancelOrder(h, key(h)) /\ goTo(h, "cancelling")
    <3>1. UNCHANGED calls /\ \A g \in Callers : g # h => cancels'[g] = cancels[g]
      BY <1>1, <2>3 DEF cancelOrder, engineVars
    <3>2. cancels'[h].pc = "update"
      BY <1>1, <2>3 DEF cancelOrder
    <3>3. /\ \A g \in Callers : g # h => requests'[g] = requests[g]
          /\ requests'[h].pc = "cancelling"
      BY <1>1, <2>3 DEF goTo
    <3> QED BY <2>1, <3>1, <3>2, <3>3 DEF CallersServed, at
  <2> QED BY <1>7, <2>2, <2>3 DEF startCancel
<1>8. CASE finishCancel(h)
  <2>1. /\ requests[h].pc = "cancelling" /\ forget(h).pc = "forget"
        /\ answered(h) \/ requests' = [requests EXCEPT ![h] = forget(h)]
    BY <1>8 DEF finishCancel, at, forget
  <2>2. /\ UNCHANGED calls /\ cancels'[h].pc = "idle"
        /\ \A g \in Callers : g # h => cancels'[g] = cancels[g]
    BY <1>1, <1>2, <1>8 DEF finishCancel, writeCancelled, engineVars
  <2>3. /\ \A g \in Callers : g # h => requests'[g] = requests[g]
        /\ requests'[h].pc \in {"idle", "forget"}
    BY <1>1, <1>2, <2>1 DEF answered
  <2> QED BY <2>1, <2>2, <2>3 DEF CallersServed, at
<1>9. CASE startExecution(h)
  <2>1. requests[h].pc = "admitted" /\ UNCHANGED serviceVars
    BY <1>9 DEF startExecution, serving, at
  <2>2. CASE answered(h) /\ UNCHANGED engineVars
    BY <2>1, <2>2, ServedElsewhere DEF engineVars, serviceVars
  <2>3. CASE ExecuteOrderManually(h, key(h)) /\ goTo(h, "executing")
    <3>1. \A g \in Callers : g # h => calls'[g] = calls[g]
      BY <1>1, <2>3 DEF ExecuteOrderManually
    <3>2. calls'[h].pc = "history"
      BY <1>1, <2>3 DEF ExecuteOrderManually
    <3>3. /\ \A g \in Callers : g # h => requests'[g] = requests[g]
          /\ requests'[h].pc = "executing"
      BY <1>1, <2>3 DEF goTo
    <3> QED BY <2>1, <3>1, <3>2, <3>3 DEF CallersServed, at, serviceVars
  <2> QED BY <1>9, <2>2, <2>3 DEF startExecution
<1>10. CASE requestExecution(h)
  <2>1. requests[h].pc = "executing" /\ UNCHANGED cancels
    BY <1>10 DEF requestExecution, at, serviceVars
  <2>2. /\ \A g \in Callers : g # h => calls'[g] = calls[g]
        /\ calls'[h] = idleCall \/ calls'[h].pc # "idle"
    BY <1>1, <1>10 DEF requestExecution, readHistory, enqueueCall
  <2>3. CASE calls'[h] = idleCall
    <3>1. /\ \A g \in Callers : g # h => requests'[g] = requests[g]
          /\ requests'[h].pc = "idle"
      BY <1>1, <1>2, <1>10, <2>3 DEF requestExecution, answered
    <3> QED BY <1>2, <2>1, <2>2, <2>3, <3>1 DEF CallersServed, at
  <2>4. CASE calls'[h] # idleCall
    <3>1. UNCHANGED requests
      BY <1>10, <2>4 DEF requestExecution
    <3> QED BY <2>1, <2>2, <2>4, <3>1 DEF CallersServed, at
  <2> QED BY <2>3, <2>4
<1>11. CASE clearOrderCache(h)
  <2> DEFINE r == [pc |-> "respond", op |-> requests[h].op, key |-> requests[h].key,
                   made |-> requests[h].made]
  <2>1. requests' = [requests EXCEPT ![h] = r] /\ r.pc = "respond"
    BY <1>11 DEF clearOrderCache, cleared
  <2> HIDE DEF r
  <2> QED BY <1>11, <2>1, ServedElsewhere DEF clearOrderCache, at, vars, engineVars, serviceVars
<1> QED BY <1>3, <1>4, <1>5, <1>6, <1>7, <1>8, <1>9, <1>10, <1>11 DEF serve

LEMMA CallersServedOn ==
    ASSUME FrontInv, CallersWait, IInv, RequestsKnowOrders, [ServiceNext]_allVars
    PROVE  CallersServed'
<1>1. CallersServed /\ RequestsTyped /\ LimitersTyped /\ ResponsesTyped
  BY DEF FrontInv
<1>2. CASE Receive
  <2>1. PICK h \in Callers, op \in Ops, k \in Keys : receive(h, op, k)
    BY <1>2 DEF Receive
  <2>2. /\ requests[h].pc = "idle" /\ UNCHANGED <<calls, cancels>>
        /\ requests' = [requests EXCEPT ![h] =
               [pc |-> "lookup", op |-> op, key |-> k, now |-> ticks]]
    BY <2>1 DEF receive, at, vars, engineVars, serviceVars
  <2> DEFINE r == [pc |-> "lookup", op |-> op, key |-> k, now |-> ticks]
  <2>3. r.pc = "lookup" /\ requests' = [requests EXCEPT ![h] = r]
    BY <2>2
  <2> HIDE DEF r
  <2> QED BY <1>1, <2>2, <2>3, ServedElsewhere
<1>3. ASSUME NEW h \in Callers, Serve(h) PROVE CallersServed'
  BY <1>1, <1>3, ServeServed DEF Serve
<1>4. CASE Work
  <2>1. UNCHANGED cancels
    BY <1>4 DEF Work, work, serviceVars
  <2>2. \A h \in Callers :
           \/ requests'[h] = requests[h] /\ calls'[h] = calls[h]
           \/ /\ at(h, "executing") /\ calls'[h] = idleCall
              /\ requests'[h].pc \in {"idle", "forget"}
    <3>1. \A h \in Callers : idleRequest.pc = "idle" /\ forget(h).pc = "forget"
      BY DEF idleRequest, forget
    <3> QED BY <1>1, <1>4, <3>1, WorkMoves
  <2>3. idleCall.pc = "idle"
    BY DEF idleCall
  <2> QED BY <1>1, <2>1, <2>2, <2>3 DEF CallersServed, at
<1>5. CASE ~Receive /\ ~Work /\ ~(\E h \in Callers : Serve(h))
  <2>1. UNCHANGED requests
    BY <1>5, RequestsMove
  <2>2. CASE UNCHANGED <<calls, cancels>>
    BY <1>1, <2>1, <2>2 DEF CallersServed, at
  <2>3. CASE Tick
    <3>1. UNCHANGED calls /\ \A h \in Callers : cancels'[h].pc = cancels[h].pc
      <4>1. cancels \in [Callers -> CancelType] /\ idleCancel.pc = "idle"
        BY ApiAssumption DEF IInv, TypeOK, HandlersTypeOK, idleCancel
      <4>2. \A h \in Callers : cancels[h].pc # "idle" =>
                [cancels[h] EXCEPT !.row = older(@)].pc = cancels[h].pc
        BY <4>1 DEF CancelType
      <4>3. \A h \in Callers : cancels'[h] = IF cancels[h].pc = "idle" THEN idleCancel
                                ELSE [cancels[h] EXCEPT !.row = older(@)]
        BY <2>3, ApiAssumption DEF Tick
      <4> QED BY <2>3, <4>1, <4>2, <4>3 DEF Tick
    <3> QED BY <1>1, <2>1, <3>1 DEF CallersServed, at
  <2>4. UNCHANGED <<calls, cancels>> \/ Tick
    <3>1. CASE Goroutine
      BY <1>5, <3>1, ProcessorWaits DEF Goroutine, Process, engineGoroutineEnds,
         StartOrchestrator, startOrchestrator, Orchestrate, GoOnAndStop, subscribe,
         stopOrchestrator, goroutineEnds, MonitorOrders, checkOrderTimeouts, countExpired,
         expireOrder, CallBack, handleEvent, writeExecuting, recordHTLC, vars, engineVars,
         serviceVars
    <3>2. CASE World
      BY <1>5, <3>2 DEF World, ReceiveEvent, handleOrderCreated, handleOrderExecuted,
         handleOrderCompleted, handleHTLCCreated, handleHTLCClaimed, counted, insertRow,
         createOrder, ChangeAdapters, StartSwap, GoOnSwapping, PassTime, limiterTick,
         vars, engineVars, serviceVars
    <3>3. CASE signal \/ Shutdown \/ exit \/ exitAfterTimeout \/ crash \/ UNCHANGED allVars
      BY <3>3 DEF signal, Shutdown, exit, exitAfterTimeout, crash, allVars, vars, engineVars,
         serviceVars
    <3> QED BY <1>5, <3>1, <3>2, <3>3 DEF ServiceNext
  <2> QED BY <2>2, <2>3, <2>4
<1> QED BY <1>2, <1>3, <1>4, <1>5

LEMMA FrontInit == ServiceInit => FrontInv /\ CallersWait
<1> SUFFICES ASSUME ServiceInit PROVE FrontInv /\ CallersWait
  OBVIOUS
<1> USE DEF ServiceInit, Init, InitFront, InitEngine, idleRequest, idleCall, idleCancel
<1>1. RequestsTyped
  BY DEF RequestsTyped, RequestRecord
<1>2. LimitersTyped
  BY TicksType DEF LimitersTyped, timed, holding, at
<1>3. ResponsesTyped
  BY DEF ResponsesTyped, at
<1>4. CallersServed
  BY ApiAssumption DEF CallersServed, at
<1>5. CallersWait
  BY DEF CallersWait, idleWorker, idleProcessor
<1> QED BY <1>1, <1>2, <1>3, <1>4, <1>5 DEF FrontInv

LEMMA FrontInvHolds == ServiceSpec => [](FrontInv /\ CallersWait)
<1>1. ServiceInv /\ FrontInv /\ CallersWait /\ [ServiceNext]_allVars
          => (FrontInv /\ CallersWait)'
  <2> SUFFICES ASSUME ServiceInv, FrontInv, CallersWait, [ServiceNext]_allVars
               PROVE  (FrontInv /\ CallersWait)'
    OBVIOUS
  <2>1. IInv /\ RequestsKnowOrders
    BY DEF ServiceInv
  <2>2. FrontInv'
    BY <2>1, RequestsTypedOn, LimitersTypedOn, ResponsesTypedOn, CallersServedOn DEF FrontInv
  <2> QED BY <2>1, <2>2, CallersWaitOn
<1> QED BY <1>1, FrontInit, ServiceInvHolds, PTL DEF ServiceSpec

-----------------------------------------------------------------------------
(* The response cache: between its clearing and the answer, what is stored *)
(* of an order is stored after the change that the answer is about.        *)

CacheInv ==
    /\ \A k \in Keys : cache[k] # NoResponse => confirmed[k] <= cache[k].filled
    /\ \A h \in Callers : at(h, "respond") /\ cache[key(h)] # NoResponse =>
          requests[h].made <= cache[key(h)].filled

LEMMA CacheStep ==
    ASSUME CacheInv, FrontInv, CallersWait, IInv, [ServiceNext]_allVars
    PROVE  CacheInv'
<1>1. RequestsTyped /\ ResponsesTyped
  BY DEF FrontInv
\* Of an order the cache holds what it held, or shows no older change, or nothing.
<1>2. ASSUME NEW k \in Keys, cache'[k] # NoResponse
      PROVE  \/ cache[k] # NoResponse /\ cache'[k] = cache[k]
             \/ cache'[k].filled = changes[k] /\ UNCHANGED confirmed
  <2>1. ASSUME NEW h \in Callers, setCache(h)
        PROVE  \/ cache[k] # NoResponse /\ cache'[k] = cache[k]
               \/ cache'[k].filled = changes[k] /\ UNCHANGED confirmed
    <3> DEFINE r == [read |-> requests[h].read, filled |-> changes[key(h)]]
    <3>1. /\ r.filled = changes[key(h)] /\ cache' = [cache EXCEPT ![key(h)] = r]
          /\ UNCHANGED confirmed
      BY <1>1, <2>1, SetParts
    <3> HIDE DEF r
    <3> QED BY <1>1, <1>2, <3>1 DEF ResponsesTyped
  <2> QED BY <1>1, <1>2, <2>1, CacheSteps DEF cached, clearOrderCache, clearCache,
         respondSuccess, ResponsesTyped
<1>3. ASSUME NEW k \in Keys, cache'[k] # NoResponse PROVE confirmed'[k] <= cache'[k].filled
  <2>1. CASE cache'[k].filled = changes[k] /\ UNCHANGED confirmed
    BY <1>1, <2>1 DEF ResponsesTyped
  <2>2. CASE cache[k] # NoResponse /\ cache'[k] = cache[k]
    <3>1. confirmed[k] <= cache[k].filled
      BY <2>2 DEF CacheInv
    <3>2. ASSUME NEW h \in Callers, respondSuccess(h) PROVE confirmed'[k] <= cache[k].filled
      <4>1. \/ confirmed'[k] = confirmed[k]
            \/ k = key(h) /\ at(h, "respond") /\ confirmed'[k] = requests[h].made
        BY <1>1, <3>2, RespondParts
      <4> QED BY <2>2, <3>1, <4>1 DEF CacheInv
    <3> QED BY <2>2, <3>1, <3>2, CacheSteps DEF cached, setCache, clearOrderCache, clearCache
  <2> QED BY <1>2, <1>3, <2>1, <2>2
<1>4. ASSUME NEW h \in Callers, at(h, "respond")', cache'[requests'[h].key] # NoResponse
      PROVE  requests'[h].made <= cache'[requests'[h].key].filled
  <2> DEFINE k == requests[h].key
  <2>1. CASE requests'[h] = requests[h]
    <3>1. k \in Keys /\ at(h, "respond")
      BY <1>1, <1>4, <2>1, RequestParts DEF at
    <3>2. CASE cache'[k].filled = changes[k]
      BY <1>1, <2>1, <3>1, <3>2 DEF ResponsesTyped, key
    <3>3. CASE cache[k] # NoResponse /\ cache'[k] = cache[k]
      BY <2>1, <3>1, <3>3 DEF CacheInv, key
    <3> QED BY <1>2, <1>4, <2>1, <3>1, <3>2, <3>3
  <2>2. CASE requests'[h] # requests[h]
    <3>1. clearOrderCache(h) /\ requests'[h].key = k /\ k \in Keys
      BY <1>4, <2>2, VersionsMove DEF versioned, at
    <3>2. cache'[k] = NoResponse
      BY <1>1, <3>1 DEF clearOrderCache, ResponsesTyped, key
    <3> QED BY <1>4, <3>1, <3>2
  <2> QED BY <2>1, <2>2
<1> QED BY <1>3, <1>4 DEF CacheInv, key

\* A client that was told of a change finds none of the responses that were
\* stored before it, for any orders, requests, failures and interleavings
\* (routes.go cancelOrder and executeOrder against getOrder).
THEOREM ConfirmedChangesAreClearedHolds == ServiceSpec => []ConfirmedChangesAreCleared
<1>1. ServiceInit => CacheInv
  BY DEF ServiceInit, InitFront, CacheInv, idleRequest, at
<1>2. CacheInv /\ FrontInv /\ CallersWait /\ IInv /\ [ServiceNext]_allVars => CacheInv'
  BY CacheStep
<1>3. CacheInv => ConfirmedChangesAreCleared
  BY DEF CacheInv, ConfirmedChangesAreCleared, Keys
<1>4. ServiceInv => IInv
  BY DEF ServiceInv
<1> QED BY <1>1, <1>2, <1>3, <1>4, ServiceInvHolds, FrontInvHolds, PTL DEF ServiceSpec
-----------------------------------------------------------------------------
(* Types.                                                                  *)

\* No row is ever deleted.
LEMMA RowsStay ==
    ASSUME ServiceInv, [ServiceNext]_allVars
    PROVE  Inserted \subseteq Inserted'
<1> SUFFICES ASSUME NEW o \in Orders, orders[o] # NoRow PROVE orders'[o] # NoRow
  BY DEF Inserted
<1> USE DEF ServiceInv, IInv, TypeOK
<1>1. orders \in [Orders -> Row \cup {NoRow}] /\ orders[o] \in Row
  BY DEF StoreTypeOK
<1>2. ASSUME NEW p, NEW row, UpdateOrder(p, row), row.status # "none" PROVE orders'[o] # NoRow
  BY <1>1, <1>2, NoRowIsNoRow DEF UpdateOrder
<1>3. ASSUME NEW row \in Row, NEW status \in Status
      PROVE  [row EXCEPT !.status = status].status = status
  BY DEF Row
<1>4. CASE UNCHANGED orders
  BY <1>4
<1>5. ASSUME expireOrder PROVE orders'[o] # NoRow
  <2>1. monitor \in Seq(Item) /\ monitor # <<>>
    BY <1>5 DEF expireOrder, HandlersTypeOK
  <2>2. Head(monitor).row \in Row
    BY <2>1, HeadAndTail DEF Item
  <2>3. [Head(monitor).row EXCEPT !.status = "expired"].status # "none"
    BY <1>3, <2>2 DEF Status
  <2> QED BY <1>2, <1>4, <1>5, <2>3 DEF expireOrder
<1>6. CASE NextButExpiry
  <2>1. ASSUME NEW p \in Orders, createOrder(p) PROVE orders'[o] # NoRow
    BY <1>1, <2>1 DEF createOrder, CreateOrder
  <2>2. ASSUME NEW c \in Cancellers, writeCancelled(c) PROVE orders'[o] # NoRow
    <3>1. cancels[c].row \in Row
      BY <2>2 DEF writeCancelled, HandlersTypeOK, CancelType, idleCancel
    <3>2. [cancels[c].row EXCEPT !.status = "cancelled"].status # "none"
      BY <1>3, <3>1 DEF Status
    <3> QED BY <1>2, <1>4, <2>2, <3>2 DEF writeCancelled
  <2>3. CASE completeOrder
    <3>1. processor.batch \in Seq(Item) /\ processor.batch # <<>>
      BY <2>3 DEF completeOrder, ProcessorTypeOK
    <3>2. Head(processor.batch).row \in Row
      BY <3>1, HeadAndTail DEF Item
    <3>3. [Head(processor.batch).row EXCEPT !.status = "completed"].status # "none"
      BY <1>3, <3>2 DEF Status
    <3> QED BY <1>2, <1>4, <2>3, <3>3 DEF completeOrder
  <2>4. CASE updateOrder
    <3>1. worker.row \in Row
      BY <2>4 DEF updateOrder, WorkerTypeOK, idleWorker
    <3>2. worker.row.status # "none"
      BY <3>1 DEF Row, Status
    <3> QED BY <1>2, <1>4, <2>4, <3>2 DEF updateOrder
  <2>5. CASE Tick
    <3>1. orders'[o] = older(orders[o])
      BY <2>5 DEF Tick
    <3> QED BY <1>1, <3>1, OlderType, NoRowIsNoRow
  <2> QED BY <1>4, <1>6, <2>1, <2>2, <2>3, <2>4, <2>5 DEF NextButExpiry, Handlers, Caller,
         Processor, Worker, storeVars, cancelOrder, ExecuteOrderManually, readHistory,
         enqueueCall, processExecutableOrders, processOrder, enqueue, takeRequest,
         executeInterval, recordExecution, checkOrderTimeouts
<1>7. ASSUME NEW c \in EventChains, writeExecuting(c) PROVE orders'[o] # NoRow
  <2>1. callbacks[c].row \in Row
    BY <1>7 DEF writeExecuting, CallbacksTypeOK, Callback, noEvents, waitingForEvent
  <2>2. [callbacks[c].row EXCEPT !.status = "executing"].status # "none"
    BY <1>3, <2>1 DEF Status
  <2> QED BY <1>2, <1>4, <1>7, <2>2 DEF writeExecuting
<1> QED BY <1>4, <1>5, <1>6, <1>7, OrderSteps DEF OnlyCalls, vars, storeVars, countExpired

\* Who runs, on which chains, and what the htlcs table refers to.
LifeInv ==
    /\ DOMAIN adapters \subseteq EventChains
    /\ wg \subseteq Goroutines /\ engineWg \subseteq EngineGoroutines
    /\ orchestrator \in {"new", "running", "failed", "stopped"}
    /\ main = "up" => ctx = "live"
    /\ \A a \in DOMAIN htlcs : htlcs[a] = HTLCOrder[a] /\ htlcs[a] \in Inserted

LEMMA LifeInit == ServiceInit => LifeInv
BY DEF ServiceInit, InitAdapters, InitOrchestrator, LifeInv, NewManager, EventChains, Goroutines

\* A step of the adapters and of the orchestrator's goroutines.
LEMMA AdaptersMove ==
    ASSUME DOMAIN adapters \subseteq EventChains, [AdapterNext]_adapterVars
    PROVE  DOMAIN adapters' \subseteq EventChains
<1>1. ASSUME NEW failed, ConnectAll(failed) \/ DisconnectAll(failed)
      PROVE  DOMAIN adapters' = DOMAIN adapters
  BY <1>1 DEF ConnectAll, DisconnectAll
<1>2. ASSUME NEW c \in SwapChains, AddAdapter(c) PROVE DOMAIN adapters' \subseteq EventChains
  BY <1>2 DEF AddAdapter, EventChains
<1>3. ASSUME NEW c \in SwapChains, RemoveAdapter(c) PROVE DOMAIN adapters' \subseteq EventChains
  BY <1>3 DEF RemoveAdapter, Restrict
<1>4. CASE UNCHANGED adapters
  BY <1>4
<1> QED BY <1>1, <1>2, <1>3, <1>4 DEF AdapterNext, adapterVars, ExecuteCrossChainSwap,
       ExecuteSwap, createSourceHTLC, createTargetHTLC, claimHTLC, refundHTLC, settle, Hour

LEMMA GoroutinesMove ==
    ASSUME LifeInv, [ServiceNext]_allVars
    PROVE  /\ wg' \subseteq Goroutines /\ engineWg' \subseteq EngineGoroutines
           /\ orchestrator' \in {"new", "running", "failed", "stopped"}
           /\ main' = "up" => ctx' = "live"
<1> USE DEF LifeInv
<1>1. CASE Goroutine
  <2>1. CASE StartOrchestrator
    BY <2>1 DEF StartOrchestrator, startOrchestrator, comes
  <2>2. CASE Orchestrate
    BY <2>2 DEF Orchestrate, GoOnAndStop, subscribe, stopOrchestrator, goroutineEnds,
       MonitorOrders, countExpired, orchestratorVars, lifeVars
  <2>3. ASSUME NEW g, engineGoroutineEnds(g)
        PROVE  /\ engineWg' \subseteq EngineGoroutines
               /\ UNCHANGED <<wg, orchestrator, main, ctx>>
    BY <2>3 DEF engineGoroutineEnds, orchestratorVars
  <2>4. ASSUME NEW c, CallBack(c)
        PROVE  UNCHANGED <<wg, engineWg, orchestrator, main, ctx>>
    BY <2>4 DEF CallBack, handleEvent, writeExecuting, recordHTLC, lifeVars
  <2>5. ASSUME Process \/ Work \/ \E h \in Callers : Serve(h)
        PROVE  UNCHANGED <<wg, engineWg, orchestrator, main, ctx>>
    BY <2>5 DEF Process, Work, Serve, orchestratorVars, lifeVars
  <2> QED BY <1>1, <2>1, <2>2, <2>3, <2>4, <2>5 DEF Goroutine
<1>2. CASE World
  <2>1. UNCHANGED <<wg, orchestrator, ctx>>
    BY <1>2 DEF World, Receive, ReceiveEvent, insertRow, ChangeAdapters, StartSwap, GoOnSwapping,
       PassTime, orchestratorVars, handleOrderCreated, handleOrderExecuted,
       handleOrderCompleted, handleHTLCCreated, handleHTLCClaimed, counted
  <2>2. UNCHANGED <<main, engineWg>>
    BY <1>2 DEF World, Receive, ReceiveEvent, insertRow, ChangeAdapters, StartSwap, GoOnSwapping,
       PassTime, lifeVars, comes
  <2> QED BY <2>1, <2>2
<1>3. CASE signal \/ Shutdown \/ exit \/ exitAfterTimeout \/ crash \/ UNCHANGED allVars
  BY <1>3 DEF signal, Shutdown, exit, exitAfterTimeout, crash, allVars, orchestratorVars, lifeVars
<1> QED BY <1>1, <1>2, <1>3 DEF ServiceNext

LEMMA HTLCsMove ==
    ASSUME [ServiceNext]_allVars
    PROVE  UNCHANGED htlcs \/ \E c : recordHTLC(c)
<1>1. CASE Goroutine
  BY <1>1 DEF Goroutine, Serve, Process, Work, engineGoroutineEnds, StartOrchestrator,
     startOrchestrator, Orchestrate, GoOnAndStop, subscribe, stopOrchestrator, goroutineEnds,
     MonitorOrders, countExpired, CallBack, handleEvent, writeExecuting, orchestratorVars
<1>2. CASE World
  BY <1>2 DEF World, Receive, ReceiveEvent, insertRow, ChangeAdapters, StartSwap, GoOnSwapping,
     PassTime, orchestratorVars, handleOrderCreated, handleOrderExecuted,
     handleOrderCompleted, handleHTLCCreated, handleHTLCClaimed, counted
<1>3. CASE signal \/ Shutdown \/ exit \/ exitAfterTimeout \/ crash \/ UNCHANGED allVars
  BY <1>3 DEF signal, Shutdown, exit, exitAfterTimeout, crash, allVars, orchestratorVars
<1> QED BY <1>1, <1>2, <1>3 DEF ServiceNext

LEMMA LifeStep ==
    ASSUME LifeInv, ServiceInv, [ServiceNext]_allVars
    PROVE  LifeInv'
<1>1. DOMAIN adapters' \subseteq EventChains
  BY AdapterSteps, AdaptersMove DEF LifeInv
<1>2. \A a \in DOMAIN htlcs' : htlcs'[a] = HTLCOrder[a] /\ htlcs'[a] \in Inserted'
  <2>1. CASE UNCHANGED htlcs
    BY <2>1, RowsStay DEF LifeInv
  <2>2. ASSUME NEW c, recordHTLC(c)
        PROVE  \A a \in DOMAIN htlcs' : htlcs'[a] = HTLCOrder[a] /\ htlcs'[a] \in Inserted'
    <3> DEFINE b == callbacks[c].address
    <3>1. CASE htlcs' = [a \in DOMAIN htlcs \cup {b} |-> HTLCOrder[a]] /\ HTLCOrder[b] \in Inserted
      BY <3>1, RowsStay DEF LifeInv
    <3> QED BY <2>1, <2>2, <3>1 DEF recordHTLC, CreateHTLCRow, storable
  <2> QED BY <2>1, <2>2, HTLCsMove
<1> QED BY <1>1, <1>2, GoroutinesMove DEF LifeInv

LEMMA TypesHold ==
    ASSUME ServiceInv, FrontInv, LifeInv, SwapInv
    PROVE  ServiceTypeOK
<1>1. TypeOK
  BY DEF ServiceInv, IInv
<1> DEFINE Allowed(h) ==
        LET r == requests[h] IN
        \/ r \in RequestType
        \/ r.pc \in {"refill", "take"} /\ r.held \in DOMAIN limiter[Client[h]]
        \/ r.pc = "fill" /\ r.read \in 0..changes[r.key]
        \/ r.pc \in {"forget", "respond"} /\ r.made \in 0..changes[r.key]
<1>2. ASSUME NEW h \in Callers PROVE Allowed(h)
  <2> DEFINE r == requests[h]
  <2>1. r \in RequestRecord /\ Holds(r) /\ ticks \in 0..MaxTicks
    BY RequestIsAt DEF FrontInv, RequestsTyped, LimitersTyped
  <2>2. r.pc # "idle" => r.key \in Keys
    BY <2>1, RequestAsks
  <2>3. CASE r.pc \in {"refill", "take"}
    BY <2>3 DEF FrontInv, LimitersTyped, holding, at
  <2>4. CASE r.pc = "fill"
    <3>1. r.read \in Nat /\ r.read <= changes[r.key] /\ changes[r.key] \in Nat
      BY <2>1, <2>2, <2>4 DEF Holds, FrontInv, ResponsesTyped, at, key
    <3> QED BY <2>4, <3>1
  <2>5. CASE r.pc \in {"forget", "respond"}
    <3>1. r.made \in Nat /\ r.made <= changes[r.key] /\ changes[r.key] \in Nat
      BY <2>1, <2>2, <2>5 DEF Holds, FrontInv, ResponsesTyped, at, key
    <3> QED BY <2>5, <3>1
  <2>6. CASE r.pc \in {"lookup", "insert"}
    <3>1. r.now \in Nat /\ r.now <= ticks
      BY <2>1, <2>6 DEF Holds, FrontInv, LimitersTyped, timed, at
    <3>2. r.now \in 0..MaxTicks
      BY <2>1, <3>1, TicksType
    <3> HIDE DEF r
    <3>3. r \in OfPair([pc : {"lookup", "insert"}, op : Ops, key : Keys, now : Nat])
      BY <2>1, <2>6 DEF RequestRecord, OfPair, idleRequest
    <3>4. r \in RequestType
      BY <3>2, <3>3 DEF RequestType, OfPair
    <3> QED BY <3>4 DEF r
  <2>7. CASE r.pc \in {"idle", "admitted", "read", "cancelling", "executing"}
    <3> HIDE DEF r
    <3>1. r \in RequestType
      BY <2>1, <2>7 DEF RequestRecord, RequestType, OfPair
    <3> QED BY <3>1 DEF r
  <2> QED BY <2>1, <2>3, <2>4, <2>5, <2>6, <2>7, RequestIsAt
<1>3. \A h \in Callers : calls[h].pc # "idle" <=> at(h, "executing")
  BY DEF FrontInv, CallersServed
<1>4. \A h \in Callers : cancels[h].pc # "idle" <=> at(h, "cancelling")
  BY DEF FrontInv, CallersServed
<1>5. ASSUME NEW c \in Clients, NEW i \in DOMAIN limiter[c]
      PROVE  limiter[c][i].tokens \in Int /\ limiter[c][i].lastRefill \in 0..ticks
  <2>1. Valid(limiter[c][i])
    BY <1>5, ValidBuckets DEF FrontInv
  <2>2. /\ limiter[c][i].tokens \in Int /\ limiter[c][i].lastRefill \in Nat
        /\ limiter[c][i].lastRefill <= ticks /\ ticks \in Nat
    BY <2>1 DEF Valid, Bucket, FrontInv, LimitersTyped
  <2> QED BY <2>2
<1>6. ASSUME NEW k \in Keys PROVE cache[k] = NoResponse \/ cache[k].read \in 0..cache[k].filled
  <2>1. ASSUME cache[k] # NoResponse
        PROVE  cache[k].read \in Nat /\ cache[k].filled \in Nat /\ cache[k].read <= cache[k].filled
    BY <2>1 DEF FrontInv, ResponsesTyped
  <2> QED BY <2>1
<1>7. \A c \in SwapChains : chainHTLCs[c].status \in HTLCStatus
  BY DEF SwapInv, AdapterTypeOK, HTLC
<1>8. \A c \in EventChains :
          \/ callbacks[c] \in {noEvents, waitingForEvent}
          \/ callbacks[c].pc = "update" /\ callbacks[c].row \in Row
          \/ callbacks[c].pc = "record" /\ callbacks[c].address \in Addresses
  BY DEF ServiceInv, CallbacksTypeOK, Callback
<1>9. /\ DOMAIN adapters \subseteq EventChains
      /\ wg \subseteq Goroutines /\ engineWg \subseteq EngineGoroutines
      /\ orchestrator \in {"new", "running", "failed", "stopped"}
      /\ main = "up" => ctx = "live"
      /\ \A a \in DOMAIN htlcs : htlcs[a] \in Inserted
  BY DEF LifeInv
<1> QED BY <1>1, <1>2, <1>3, <1>4, <1>5, <1>6, <1>7, <1>8, <1>9 DEF ServiceTypeOK

\* Everything in the process is what it should be: among others, a handler is
\* within a call of the engine just when its request says so, nobody shows or
\* is to be told of a change to come, and every stored HTLC is of a stored order
\* (cmd/main.go, with all it starts).
THEOREM ServiceTypeOKHolds == ServiceSpec => []ServiceTypeOK
<1>1. ServiceSpec => AdapterSpec
  <2>1. ServiceInit => InitAdapters
    BY DEF ServiceInit
  <2> QED BY <2>1, AdapterSteps, PTL DEF ServiceSpec, AdapterSpec
<1>2. LifeInv /\ ServiceInv /\ [ServiceNext]_allVars => LifeInv'
  BY LifeStep
<1>3. ServiceInv /\ FrontInv /\ LifeInv /\ SwapInv => ServiceTypeOK
  BY TypesHold
<1> QED BY <1>1, <1>2, <1>3, LifeInit, ServiceInvHolds, FrontInvHolds, SwapInvHolds, PTL
       DEF ServiceSpec

-----------------------------------------------------------------------------
(* Rate limits: arithmetic.                                                *)

\* x requests are within y requests and one for each second of t ticks.
Within(x, y, t) == TicksPerSecond * x <= TicksPerSecond * y + t

LEMMA ProductGrows ==
    ASSUME NEW k \in Nat, NEW x \in Int, NEW y \in Int, x <= y
    PROVE  k * x \in Int /\ k * y \in Int /\ k * x <= k * y
<1>1. k * (y - x) \in Nat
  <2>1. y - x \in Nat
    OBVIOUS
  <2> QED BY <2>1
<1>2. k * (y - x) = k * y - k * x
  OBVIOUS
<1>3. k * x \in Int /\ k * y \in Int
  OBVIOUS
<1> QED BY <1>1, <1>2, <1>3

LEMMA WithinLess ==
    ASSUME NEW x \in Int, NEW y \in Int, NEW t \in Int, Within(x, y, t),
           NEW x2 \in Int, x2 <= x, NEW y2 \in Int, y <= y2, NEW t2 \in Int, t <= t2
    PROVE  Within(x2, y2, t2)
<1>1. /\ TicksPerSecond * x2 \in Int /\ TicksPerSecond * x \in Int
      /\ TicksPerSecond * x2 <= TicksPerSecond * x
  BY ProductGrows, TicksType
<1>2. /\ TicksPerSecond * y \in Int /\ TicksPerSecond * y2 \in Int
      /\ TicksPerSecond * y <= TicksPerSecond * y2
  BY ProductGrows, TicksType
<1>3. TicksPerSecond * x <= TicksPerSecond * y + t
  BY DEF Within
<1>4. TicksPerSecond * x2 <= TicksPerSecond * y2 + t2
  BY <1>1, <1>2, <1>3
<1> QED BY <1>4 DEF Within

LEMMA WithinMoved ==
    ASSUME NEW x \in Int, NEW y \in Int, NEW t \in Int, NEW d \in Int, Within(x, y, t)
    PROVE  Within(x + d, y + d, t)
<1>1. /\ TicksPerSecond * (x + d) = TicksPerSecond * x + TicksPerSecond * d
      /\ TicksPerSecond * (y + d) = TicksPerSecond * y + TicksPerSecond * d
      /\ TicksPerSecond * x \in Int /\ TicksPerSecond * y \in Int /\ TicksPerSecond * d \in Int
  BY TicksType
<1>2. TicksPerSecond * x <= TicksPerSecond * y + t
  BY DEF Within
<1>3. TicksPerSecond * (x + d) <= TicksPerSecond * (y + d) + t
  BY <1>1, <1>2
<1> QED BY <1>3 DEF Within

\* k full seconds later, k requests more.
LEMMA WithinSeconds ==
    ASSUME NEW x \in Int, NEW y \in Int, NEW t \in Int, NEW k \in Int, NEW t2 \in Int,
           Within(x, y, t), TicksPerSecond * k <= t2 - t
    PROVE  Within(x + k, y, t2)
<1>1. /\ TicksPerSecond * (x + k) = TicksPerSecond * x + TicksPerSecond * k
      /\ TicksPerSecond * x \in Int /\ TicksPerSecond * k \in Int /\ TicksPerSecond * y \in Int
  BY TicksType
<1>2. TicksPerSecond * x <= TicksPerSecond * y + t
  BY DEF Within
<1>3. TicksPerSecond * (x + k) <= TicksPerSecond * y + t2
  BY <1>1, <1>2
<1> QED BY <1>3 DEF Within

LEMMA SecondsOf ==
    ASSUME NEW a \in Nat
    PROVE  LET k == a \div TicksPerSecond IN
           /\ k \in Nat /\ TicksPerSecond * k \in Nat
           /\ TicksPerSecond * k <= a /\ a < TicksPerSecond * (k + 1)
<1> DEFINE k == a \div TicksPerSecond
           tps == TicksPerSecond
<1>1. tps \in Nat /\ tps > 0
  BY TicksType
<1> HIDE DEF tps
<1>2. k \in Nat /\ a = tps * k + (a % tps) /\ a % tps \in 0..(tps - 1)
  BY <1>1 DEF tps
<1>3. tps * k \in Nat /\ tps * (k + 1) = tps * k + tps
  BY <1>1, <1>2
<1> HIDE DEF k
<1>4. tps * k <= a /\ a < tps * (k + 1)
  BY <1>1, <1>2, <1>3
<1> QED BY <1>2, <1>3, <1>4 DEF tps, k

LEMMA SecondsPassed ==
    ASSUME NEW m \in Nat, NEW n \in Nat, m <= n
    PROVE  seconds(n - m) \in Nat /\ TicksPerSecond * seconds(n - m) <= n - m
<1>1. n - m \in Nat
  OBVIOUS
<1>2. seconds(n - m) = (n - m) \div TicksPerSecond
  BY <1>1 DEF seconds
<1> QED BY <1>1, <1>2, SecondsOf

LEMMA WithinLimited ==
    ASSUME NEW x \in Int, NEW y \in Int, NEW t \in Nat, Within(x, y, t)
    PROVE  x <= y + t \div TicksPerSecond
<1> DEFINE k == t \div TicksPerSecond
<1>1. k \in Nat /\ TicksPerSecond * (k + 1) \in Int /\ t < TicksPerSecond * (k + 1)
  BY SecondsOf, TicksType
<1> HIDE DEF k
<1>2. TicksPerSecond * x <= TicksPerSecond * y + t
  BY DEF Within
<1>3. ASSUME y + k + 1 <= x PROVE FALSE
  <2>1. /\ TicksPerSecond * (y + (k + 1)) \in Int /\ TicksPerSecond * x \in Int
        /\ TicksPerSecond * (y + (k + 1)) <= TicksPerSecond * x
    BY <1>1, <1>3, ProductGrows, TicksType
  <2>2. TicksPerSecond * (y + (k + 1)) = TicksPerSecond * y + TicksPerSecond * (k + 1)
        /\ TicksPerSecond * y \in Int
    BY <1>1, TicksType
  <2> QED BY <1>1, <1>2, <2>1, <2>2
<1>4. x <= y + k
  BY <1>1, <1>3
<1> QED BY <1>4 DEF k

-----------------------------------------------------------------------------
(* Rate limits: what is known of a client.  While its requests come one at *)
(* a time, what it was admitted and what its counter still holds is within *)
(* what it is allowed at the last refill.  While some overlap, each of     *)
(* those that check is counted as admitted and a full counter but for one  *)
(* comes on top, for whichever of them refills it last; and when they have *)
(* all gone the counter is not full, for one has taken from it.            *)

checkers(c) == {h \in Callers : checking(h) /\ Client[h] = c}
full == [tokens |-> RateLimit, lastRefill |-> 0]
latest(known) == IF known = <<>> THEN full ELSE known[Len(known)]
current(c) == latest(limiter[c])
usable(v) == IF v > 0 THEN v ELSE 0
allowed(c) == RateLimit + overlaps[c] * (RateLimit + 1)

\* The one who checks knows the limiter as it is.
SeesCurrent(h, c) ==
    LET r == requests[h] IN
    /\ r.pc = "insert" => limiter[c] = <<>>
    /\ timed(h) => current(c).lastRefill <= r.now
    /\ r.pc \in {"refill", "take"} => r.held = Len(limiter[c])
    /\ r.pc = "refill" => r.found = current(c)
    /\ r.pc = "take" => r.tokens = current(c).tokens

Sequential(c) ==
    /\ \A g, h \in checkers(c) : g = h
    /\ \A h \in checkers(c) : SeesCurrent(h, c)
    /\ Within(taken[c] + usable(current(c).tokens), allowed(c), current(c).lastRefill)
    /\ overlaps[c] = 0 => \A i \in DOMAIN limiter[c] : limiter[c][i].tokens >= 0

\* when the limiter may have been filled, in the end
Times(c) == {current(c).lastRefill} \cup {requests[h].now : h \in {g \in checkers(c) : timed(g)}}

Overlapped(c) ==
    /\ overlaps[c] > 0 /\ checkers(c) # {}
    /\ \A t \in Times(c) :
          Within(taken[c] + Cardinality(checkers(c)) + RateLimit - 1, allowed(c), t)

SpentOrTaken(c) ==
    \/ limiter[c] = <<>> \/ current(c).tokens < RateLimit
    \/ \E h \in checkers(c) : requests[h].pc = "take" /\ requests[h].held = Len(limiter[c])

LimitedAt(c) == (Sequential(c) \/ Overlapped(c)) /\ SpentOrTaken(c)
LimitInv == \A c \in Clients : LimitedAt(c)

LEMMA LatestType ==
    ASSUME NEW known \in Seq(Bucket)
    PROVE  /\ latest(known) \in Bucket
           /\ latest(known).tokens \in Int /\ latest(known).lastRefill \in Nat
<1>1. full \in Bucket
  BY TicksType DEF full, Bucket
<1>2. known # <<>> => known[Len(known)] \in Bucket
  OBVIOUS
<1> QED BY <1>1, <1>2 DEF latest, Bucket

LEMMA ViewTypes ==
    ASSUME RequestsTyped, LimitersTyped, NEW c \in Clients
    PROVE  /\ IsFiniteSet(checkers(c)) /\ Cardinality(checkers(c)) \in Nat
           /\ taken[c] \in Nat /\ overlaps[c] \in Nat /\ ticks \in Nat /\ allowed(c) \in Nat
           /\ current(c).tokens \in Int /\ current(c).tokens <= RateLimit
           /\ current(c).lastRefill \in Nat /\ current(c).lastRefill <= ticks
           /\ \A t \in Times(c) : t \in Nat /\ t <= ticks
<1>1. IsFiniteSet(checkers(c)) /\ Cardinality(checkers(c)) \in Nat
  BY EngineAssumption, FS_Subset, FS_CardinalityType DEF checkers
<1>2. taken[c] \in Nat /\ overlaps[c] \in Nat /\ ticks \in Nat
  BY DEF LimitersTyped
<1>3. allowed(c) \in Nat
  <2>1. \A n, m \in Nat : n * m \in Nat
    OBVIOUS
  <2>2. RateLimit \in Nat /\ RateLimit + 1 \in Nat
    BY TicksType
  <2>3. overlaps[c] * (RateLimit + 1) \in Nat
    BY <1>2, <2>1, <2>2
  <2> QED BY <2>2, <2>3 DEF allowed
<1>4. /\ current(c).tokens \in Int /\ current(c).tokens <= RateLimit
      /\ current(c).lastRefill \in Nat /\ current(c).lastRefill <= ticks
  <2>1. CASE limiter[c] = <<>>
    BY <1>2, <2>1, TicksType DEF current, latest, full
  <2>2. CASE limiter[c] # <<>>
    BY <2>2, KnownLimiter, ValidBuckets DEF current, latest, Valid, Bucket
  <2> QED BY <2>1, <2>2
<1>5. ASSUME NEW t \in Times(c) PROVE t \in Nat /\ t <= ticks
  <2>1. ASSUME NEW h \in Callers, timed(h)
        PROVE  requests[h].now \in Nat /\ requests[h].now <= ticks
    BY <2>1, RequestParts DEF timed, at, Holds, LimitersTyped
  <2> QED BY <1>4, <1>5, <2>1 DEF Times, checkers
<1> QED BY <1>1, <1>2, <1>3, <1>4, <1>5

\* Nothing changes for a client.
SameView(c) ==
    /\ limiter'[c] = limiter[c] /\ taken'[c] = taken[c] /\ overlaps'[c] = overlaps[c]
    /\ \A h \in Callers : Client[h] = c =>
          requests'[h] = requests[h] \/ (~checking(h) /\ ~checking(h)')

LEMMA SameViewLimits ==
    ASSUME NEW c, SameView(c), LimitedAt(c)
    PROVE  LimitedAt(c)'
<1>1. /\ checkers(c)' = checkers(c) /\ \A h \in checkers(c) : requests'[h] = requests[h]
      /\ limiter'[c] = limiter[c] /\ taken'[c] = taken[c] /\ overlaps'[c] = overlaps[c]
  BY DEF SameView, checkers, checking
<1>2. current(c)' = current(c) /\ allowed(c)' = allowed(c)
  BY <1>1 DEF current, allowed
<1>3. \A h \in checkers(c) : timed(h)' <=> timed(h)
  BY <1>1 DEF timed, at
<1>4. Times(c)' = Times(c)
  BY <1>1, <1>2, <1>3 DEF Times
<1>5. Sequential(c) => Sequential(c)'
  BY <1>1, <1>2, <1>3 DEF Sequential, SeesCurrent
<1>6. Overlapped(c) => Overlapped(c)'
  BY <1>1, <1>2, <1>4 DEF Overlapped
<1>7. SpentOrTaken(c) => SpentOrTaken(c)'
  BY <1>1, <1>2 DEF SpentOrTaken
<1> QED BY <1>5, <1>6, <1>7 DEF LimitedAt

\* A step for one client leaves the others.
LEMMA OtherClients ==
    ASSUME LimitInv, RequestsTyped, LimitersTyped, NEW h \in Callers,
           NEW r, requests' = [requests EXCEPT ![h] = r],
           \A d \in Clients : d # Client[h] => limiter'[d] = limiter[d],
           \/ UNCHANGED taken
           \/ taken' = [taken EXCEPT ![Client[h]] = @ + 1],
           \/ UNCHANGED overlaps
           \/ overlaps' = [overlaps EXCEPT ![Client[h]] = @ + 1],
           LimitedAt(Client[h])'
    PROVE  LimitInv'
<1>1. ASSUME NEW d \in Clients, d # Client[h] PROVE LimitedAt(d)'
  <2>1. taken'[d] = taken[d] /\ overlaps'[d] = overlaps[d] /\ limiter'[d] = limiter[d]
    BY <1>1 DEF LimitersTyped
  <2>2. \A g \in Callers : Client[g] = d => requests'[g] = requests[g]
    BY <1>1 DEF RequestsTyped
  <2> QED BY <1>1, <2>1, <2>2, SameViewLimits DEF SameView, LimitInv
<1> QED BY <1>1 DEF LimitInv

\* One who checks goes on.
LEMMA CheckersMove ==
    ASSUME RequestsTyped, NEW h \in Callers, checking(h),
           NEW r, requests' = [requests EXCEPT ![h] = r]
    PROVE  LET c == Client[h] IN
           /\ h \in checkers(c) /\ requests'[h] = r
           /\ \A g \in Callers : g # h => requests'[g] = requests[g]
           /\ r.pc \in {"insert", "refill", "take"} => checkers(c)' = checkers(c)
           /\ r.pc \in {"idle", "admitted"} => checkers(c)' = checkers(c) \ {h}
<1>1. requests'[h] = r /\ \A g \in Callers : g # h => requests'[g] = requests[g]
  BY DEF RequestsTyped
<1> QED BY <1>1 DEF checkers, checking

LEMMA OneLess ==
    ASSUME NEW X, IsFiniteSet(X), NEW x \in X
    PROVE  /\ Cardinality(X) \in Nat \ {0}
           /\ Cardinality(X \ {x}) = Cardinality(X) - 1
<1>1. Cardinality(X \ {x}) = Cardinality(X) - 1 /\ Cardinality(X) \in Nat
  BY FS_RemoveElement, FS_CardinalityType
<1>2. Cardinality(X) # 0
  BY FS_EmptySet
<1> QED BY <1>1, <1>2

\* Overlapping requests are admitted, or refused, until the last has gone.
LEMMA OverlapGoesOn ==
    ASSUME RequestsTyped, LimitersTyped, RequestsTyped', LimitersTyped', NEW c \in Clients,
           Overlapped(c), SpentOrTaken(c)', overlaps'[c] = overlaps[c],
           taken'[c] + Cardinality(checkers(c)') <= taken[c] + Cardinality(checkers(c)),
           Times(c)' \subseteq Times(c),
           checkers(c)' = {} => limiter'[c] # <<>>
    PROVE  LimitedAt(c)'
<1> DEFINE n == Cardinality(checkers(c))
           m == Cardinality(checkers(c)')
           a == allowed(c)
<1>1. /\ n \in Nat /\ a \in Nat /\ taken[c] \in Nat /\ IsFiniteSet(checkers(c))
      /\ \A t \in Times(c) : t \in Nat
  BY ViewTypes
<1>2. m \in Nat /\ IsFiniteSet(checkers(c)')
  <2>1. checkers(c)' \subseteq Callers
    BY DEF checkers
  <2> QED BY <2>1, EngineAssumption, FS_Subset, FS_CardinalityType
<1>3. taken'[c] \in Nat /\ current(c)'.tokens \in Int /\ current(c)'.lastRefill \in Nat
  BY LatestType DEF LimitersTyped, current
<1>4. allowed(c)' = a
  BY DEF allowed
<1>5. \A t \in Times(c) : Within(taken[c] + n + RateLimit - 1, a, t)
  BY DEF Overlapped
<1>6. current(c)'.lastRefill \in Times(c)
  BY DEF Times
<1> HIDE DEF n, m, a
<1>7. RateLimit \in Nat \ {0} /\ taken'[c] + m <= taken[c] + n
  BY TicksType DEF n, m
<1>8. CASE checkers(c)' # {}
  <2>1. ASSUME NEW t \in Times(c)' PROVE Within(taken'[c] + m + RateLimit - 1, a, t)
    <3>1. t \in Times(c) /\ t \in Nat /\ Within(taken[c] + n + RateLimit - 1, a, t)
      BY <1>1, <1>5
    <3>2. /\ taken[c] + n + RateLimit - 1 \in Int /\ taken'[c] + m + RateLimit - 1 \in Int
          /\ taken'[c] + m + RateLimit - 1 <= taken[c] + n + RateLimit - 1
      <4> HIDE DEF LimitersTyped
      <4> DEFINE x == taken[c]
                 y == taken'[c]
      <4>1. n \in Nat /\ m \in Nat
        BY <1>1, <1>2 DEF n, m
      <4>2. x \in Nat /\ y \in Nat
        BY <1>1, <1>3
      <4>3. RateLimit \in Nat /\ y + m <= x + n
        BY <1>7
      <4> HIDE DEF x, y
      <4>4. /\ x + n + RateLimit - 1 \in Int /\ y + m + RateLimit - 1 \in Int
            /\ y + m + RateLimit - 1 <= x + n + RateLimit - 1
        BY <4>1, <4>2, <4>3
      <4> QED BY <4>4 DEF x, y
    <3> HIDE DEF LimitersTyped
    <3>3. a \in Int /\ t \in Int /\ a <= a /\ t <= t
      BY <1>1, <3>1 DEF a
    <3> QED BY <3>1, <3>2, <3>3, WithinLess
  <2>2. Overlapped(c)'
    BY <1>4, <1>8, <2>1 DEF Overlapped, m
  <2> QED BY <2>2 DEF LimitedAt
<1>9. CASE checkers(c)' = {}
  <2> DEFINE v == current(c)'.tokens
             t == current(c)'.lastRefill
  <2>1. m = 0
    BY <1>9, FS_EmptySet DEF m
  <2>2. v < RateLimit
    BY <1>9 DEF SpentOrTaken
  <2>3. t \in Nat /\ v \in Int /\ Within(taken[c] + n + RateLimit - 1, a, t)
    BY <1>3, <1>5, <1>6
  <2> HIDE DEF v, t
  <2>4. usable(v) \in Int /\ usable(v) <= RateLimit - 1
    BY <1>7, <2>2, <2>3 DEF usable
  <2>5. n \in Nat /\ a \in Nat
    BY <1>1 DEF n, a
  <2>6. /\ taken[c] + n + RateLimit - 1 \in Int /\ taken'[c] + usable(v) \in Int
        /\ taken'[c] + usable(v) <= taken[c] + n + RateLimit - 1
    BY <1>1, <1>3, <1>7, <2>1, <2>4, <2>5
  <2>7. Within(taken'[c] + usable(v), a, t)
    BY <2>3, <2>5, <2>6, WithinLess
  <2>8. overlaps'[c] # 0
    BY ViewTypes DEF Overlapped
  <2>9. Sequential(c)'
    BY <1>4, <1>9, <2>7, <2>8 DEF Sequential, v, t
  <2> QED BY <2>9 DEF LimitedAt
<1> QED BY <1>8, <1>9

-----------------------------------------------------------------------------
(* Rate limits: each step of an admission.                                 *)

LEMMA LookupLimited ==
    ASSUME LimitInv, RequestsTyped, LimitersTyped, RequestsTyped', LimitersTyped',
           NEW h \in Callers, lookupLimiter(h)
    PROVE  LimitInv'
<1> DEFINE c == Client[h]
           known == limiter[c]
           s == [pc |-> "insert", op |-> requests[h].op, key |-> requests[h].key,
                 now |-> requests[h].now]
           t == [pc |-> "refill", op |-> requests[h].op, key |-> requests[h].key,
                 now |-> requests[h].now, held |-> Len(known), found |-> known[Len(known)]]
<1>1. PICK r : /\ UNCHANGED <<limiter, taken, overlaps>> /\ requests' = [requests EXCEPT ![h] = r]
               /\ (r = s /\ known = <<>>) \/ (r = t /\ known # <<>>)
  BY LookupParts DEF limits
<1>2. /\ r.now = requests[h].now /\ r.pc \in {"insert", "refill"}
      /\ r.pc = "insert" => known = <<>>
      /\ r.pc = "refill" => r.held = Len(known) /\ r.found = latest(known)
  BY <1>1 DEF latest
<1> HIDE DEF s, t
<1>3. c \in Clients /\ checking(h) /\ at(h, "lookup") /\ LimitedAt(c)
  BY ClientOf DEF lookupLimiter, checking, at, LimitInv
<1>4. /\ h \in checkers(c) /\ requests'[h] = r /\ checkers(c)' = checkers(c)
      /\ \A g \in Callers : g # h => requests'[g] = requests[g]
  BY <1>1, <1>2, <1>3, CheckersMove
<1>5. current(c)' = current(c) /\ allowed(c)' = allowed(c)
  BY <1>1 DEF current, allowed
<1>6. SpentOrTaken(c)'
  BY <1>1, <1>3, <1>4, <1>5 DEF LimitedAt, SpentOrTaken, at
<1> SUFFICES LimitedAt(c)'
  <2>1. \A d \in Clients : d # c => limiter'[d] = limiter[d]
    BY <1>1
  <2>2. requests' = [requests EXCEPT ![h] = r] /\ UNCHANGED <<taken, overlaps>>
    BY <1>1
  <2> QED BY <2>1, <2>2, OtherClients
<1>7. CASE Overlapped(c)
  <2>1. ASSUME NEW g \in checkers(c), timed(g)'
        PROVE  timed(g) /\ requests'[g].now = requests[g].now
    <3>1. CASE g = h
      BY <1>2, <1>3, <1>4, <3>1 DEF timed
    <3>2. CASE g # h
      BY <1>4, <2>1, <3>2 DEF timed, at, checkers
    <3> QED BY <3>1, <3>2
  <2>3. Times(c)' \subseteq Times(c)
    BY <1>4, <1>5, <2>1 DEF Times
  <2>2. /\ overlaps'[c] = overlaps[c] /\ checkers(c)' # {}
        /\ taken'[c] + Cardinality(checkers(c)') <= taken[c] + Cardinality(checkers(c))
    BY <1>1, <1>3, <1>4, ViewTypes
  <2> QED BY <1>3, <1>6, <1>7, <2>2, <2>3, OverlapGoesOn
<1>8. CASE Sequential(c)
  <2>1. checkers(c) = {h} /\ SeesCurrent(h, c)
    BY <1>4, <1>8 DEF Sequential
  <2>2. SeesCurrent(h, c)'
    BY <1>1, <1>2, <1>3, <1>4, <1>5, <2>1 DEF SeesCurrent, timed, at, current
  <2>3. Sequential(c)'
    BY <1>1, <1>4, <1>5, <1>8, <2>1, <2>2 DEF Sequential
  <2> QED BY <1>6, <2>3 DEF LimitedAt
<1>9. Sequential(c) \/ Overlapped(c)
  BY <1>3 DEF LimitedAt
<1> QED BY <1>7, <1>8, <1>9

LEMMA InsertLimited ==
    ASSUME LimitInv, RequestsTyped, LimitersTyped, RequestsTyped', LimitersTyped',
           NEW h \in Callers, insertLimiter(h)
    PROVE  LimitInv'
<1> DEFINE c == Client[h]
           b == [tokens |-> RateLimit - 1, lastRefill |-> requests[h].now]
           r == [pc |-> "admitted", op |-> requests[h].op, key |-> requests[h].key]
<1>1. /\ Valid(b) /\ limiter' = [limiter EXCEPT ![c] = Append(limiter[c], b)]
      /\ taken' = [taken EXCEPT ![c] = @ + 1] /\ UNCHANGED overlaps
      /\ requests' = [requests EXCEPT ![h] = r]
  BY InsertParts
<1>2. r.pc = "admitted" /\ b.tokens = RateLimit - 1 /\ b.lastRefill = requests[h].now
  OBVIOUS
<1> HIDE DEF r, b
<1>3. c \in Clients /\ checking(h) /\ at(h, "insert") /\ timed(h) /\ LimitedAt(c)
  BY ClientOf DEF insertLimiter, checking, timed, at, LimitInv
<1>4. /\ h \in checkers(c) /\ requests'[h] = r /\ checkers(c)' = checkers(c) \ {h}
      /\ \A g \in Callers : g # h => requests'[g] = requests[g]
  BY <1>1, <1>2, <1>3, CheckersMove
<1>5. /\ \A d \in Clients : d # c => limiter'[d] = limiter[d]
      /\ Len(limiter'[c]) = Len(limiter[c]) + 1
      /\ DOMAIN limiter'[c] = DOMAIN limiter[c] \cup {Len(limiter[c]) + 1}
      /\ limiter'[c][Len(limiter[c]) + 1] = b
      /\ \A j \in DOMAIN limiter[c] : limiter'[c][j] = limiter[c][j]
  <2> HIDE DEF c
  <2> QED BY <1>1, <1>3, BucketAdded
<1>6. limiter'[c] # <<>> /\ current(c)' = b
  <2>1. Len(limiter[c]) + 1 \in Nat \ {0}
    BY <1>3 DEF LimitersTyped
  <2>2. limiter'[c] # <<>>
    BY <1>5, <2>1
  <2> QED BY <1>5, <2>2 DEF current, latest
<1>7. allowed(c)' = allowed(c) /\ taken'[c] = taken[c] + 1 /\ overlaps'[c] = overlaps[c]
  BY <1>1, <1>3 DEF allowed, LimitersTyped
<1>8. /\ taken[c] \in Nat /\ overlaps[c] \in Nat /\ allowed(c) \in Nat
      /\ requests[h].now \in Nat /\ RateLimit \in Nat \ {0}
  <2>1. requests[h].now \in Nat
    BY <1>3, RequestParts DEF at, Holds
  <2> QED BY <1>3, <2>1, ViewTypes, TicksType
<1>9. SpentOrTaken(c)'
  <2>1. b.tokens < RateLimit
    BY <1>2, <1>8
  <2> QED BY <1>6, <2>1 DEF SpentOrTaken
<1> SUFFICES LimitedAt(c)'
  <2>1. \A d \in Clients : d # c => limiter'[d] = limiter[d]
    BY <1>5
  <2>2. /\ requests' = [requests EXCEPT ![h] = r] /\ UNCHANGED overlaps
        /\ taken' = [taken EXCEPT ![c] = @ + 1]
    BY <1>1
  <2> QED BY <2>1, <2>2, OtherClients
<1>10. CASE Overlapped(c)
  <2>1. Times(c)' \subseteq Times(c)
    BY <1>2, <1>3, <1>4, <1>6 DEF Times, timed, at, checkers
  <2>2. /\ Cardinality(checkers(c)) \in Nat
        /\ Cardinality(checkers(c)') = Cardinality(checkers(c)) - 1
    BY <1>3, <1>4, ViewTypes, OneLess
  <2>3. taken'[c] + Cardinality(checkers(c)') <= taken[c] + Cardinality(checkers(c))
    BY <1>7, <1>8, <2>2
  <2> HIDE DEF c
  <2> QED BY <1>3, <1>6, <1>7, <1>9, <1>10, <2>1, <2>3, OverlapGoesOn
<1>11. CASE Sequential(c)
  <2>1. checkers(c)' = {} /\ SeesCurrent(h, c)
    BY <1>4, <1>11 DEF Sequential
  <2>2. limiter[c] = <<>> /\ current(c) = full
    BY <1>3, <2>1 DEF SeesCurrent, at, current, latest
  <2>3. Within(taken[c] + usable(RateLimit), allowed(c), 0)
    BY <1>11, <2>2 DEF Sequential, full
  <2>4. Within(taken'[c] + usable(current(c)'.tokens), allowed(c)', current(c)'.lastRefill)
    <3> DEFINE x == taken[c] + usable(RateLimit)
               y == taken'[c] + usable(RateLimit - 1)
               a == allowed(c)
               n == requests[h].now
    <3>1. x \in Int /\ y \in Int /\ y <= x
      BY <1>7, <1>8 DEF usable
    <3>2. a \in Int /\ n \in Int /\ 0 <= n /\ a <= a
      BY <1>8
    <3>3. Within(x, a, 0)
      BY <2>3
    <3> HIDE DEF x, y, a, n
    <3>4. Within(y, a, n)
      BY <3>1, <3>2, <3>3, WithinLess
    <3> QED BY <1>2, <1>6, <1>7, <3>4 DEF y, a, n
  <2>5. \A i \in DOMAIN limiter'[c] : limiter'[c][i].tokens >= 0
    BY <1>2, <1>5, <1>8, <2>2
  <2>6. Sequential(c)'
    BY <2>1, <2>4, <2>5 DEF Sequential
  <2> QED BY <1>9, <2>6 DEF LimitedAt
<1>12. Sequential(c) \/ Overlapped(c)
  BY <1>3 DEF LimitedAt
<1> QED BY <1>10, <1>11, <1>12

LEMMA TakeLimited ==
    ASSUME LimitInv, RequestsTyped, LimitersTyped, RequestsTyped', LimitersTyped',
           NEW h \in Callers, takeToken(h)
    PROVE  LimitInv'
<1> DEFINE c == Client[h]
           i == requests[h].held
           r == [pc |-> "admitted", op |-> requests[h].op, key |-> requests[h].key]
           old == held(h)
           b(n) == [tokens |-> n - 1, lastRefill |-> old.lastRefill]
<1>1. PICK count \in Int :
          /\ count \in {requests[h].tokens, held(h).tokens} /\ count <= RateLimit
          /\ Valid(b(count)) /\ limiter' = [limiter EXCEPT ![c][i] = b(count)]
          /\ taken' = [taken EXCEPT ![c] = @ + 1] /\ UNCHANGED overlaps
          /\ requests' = [requests EXCEPT ![h] = r]
  BY TakeParts
<1>2. /\ r.pc = "admitted" /\ b(count).tokens = count - 1 /\ b(count).lastRefill = old.lastRefill
      /\ old = limiter[c][i]
  BY DEF held
<1> HIDE DEF r, b, old
<1>3. c \in Clients /\ checking(h) /\ at(h, "take") /\ ~timed(h) /\ holding(h) /\ LimitedAt(c)
  BY ClientOf DEF takeToken, checking, timed, holding, at, LimitInv
<1>4. /\ h \in checkers(c) /\ requests'[h] = r /\ checkers(c)' = checkers(c) \ {h}
      /\ \A g \in Callers : g # h => requests'[g] = requests[g]
  BY <1>1, <1>2, <1>3, CheckersMove
<1>5. i \in DOMAIN limiter[c]
  BY <1>3, HeldLimiter
<1>6. /\ \A d \in Clients : d # c => limiter'[d] = limiter[d]
      /\ Len(limiter'[c]) = Len(limiter[c]) /\ DOMAIN limiter'[c] = DOMAIN limiter[c]
      /\ limiter'[c][i] = b(count)
      /\ \A j \in DOMAIN limiter[c] : j # i => limiter'[c][j] = limiter[c][j]
  <2> HIDE DEF c, i
  <2> QED BY <1>1, <1>3, <1>5, BucketWritten
<1>7. /\ limiter[c] # <<>> /\ limiter'[c] # <<>>
      /\ current(c) = limiter[c][Len(limiter[c])]
      /\ Len(limiter[c]) \in DOMAIN limiter[c]
  <2>1. limiter[c] # <<>>
    BY <1>5
  <2> QED BY <1>3, <1>6, <2>1, KnownLimiter DEF current, latest
<1>8. \/ i = Len(limiter[c]) /\ current(c) = old /\ current(c)' = b(count)
      \/ i # Len(limiter[c]) /\ current(c)' = current(c)
  BY <1>2, <1>6, <1>7 DEF current, latest
<1>9. allowed(c)' = allowed(c) /\ taken'[c] = taken[c] + 1 /\ overlaps'[c] = overlaps[c]
  BY <1>1, <1>3 DEF allowed, LimitersTyped
<1>10. /\ taken[c] \in Nat /\ overlaps[c] \in Nat /\ allowed(c) \in Nat
       /\ RateLimit \in Nat \ {0} /\ current(c).lastRefill \in Nat
       /\ requests[h].tokens \in Nat \ {0}
  <2>1. requests[h].tokens \in Nat \ {0}
    BY <1>3, RequestParts DEF at, Holds
  <2> QED BY <1>3, <2>1, ViewTypes, TicksType
<1>11. SpentOrTaken(c)'
  <2>1. CASE i = Len(limiter[c])
    <3>1. b(count).tokens < RateLimit
      BY <1>1, <1>2, <1>10
    <3> QED BY <1>8, <2>1, <3>1 DEF SpentOrTaken
  <2>2. CASE i # Len(limiter[c])
    <3>1. \/ current(c).tokens < RateLimit
          \/ \E g \in checkers(c) \ {h} :
                requests[g].pc = "take" /\ requests[g].held = Len(limiter[c])
      BY <1>3, <1>7, <2>2 DEF LimitedAt, SpentOrTaken
    <3>2. \A g \in checkers(c) \ {h} : requests'[g] = requests[g]
      BY <1>4 DEF checkers
    <3> QED BY <1>4, <1>6, <1>8, <2>2, <3>1, <3>2 DEF SpentOrTaken
  <2> QED BY <2>1, <2>2
<1> SUFFICES LimitedAt(c)'
  <2>1. \A d \in Clients : d # c => limiter'[d] = limiter[d]
    BY <1>6
  <2>2. /\ requests' = [requests EXCEPT ![h] = r] /\ UNCHANGED overlaps
        /\ taken' = [taken EXCEPT ![c] = @ + 1]
    BY <1>1
  <2> QED BY <2>1, <2>2, OtherClients
<1>12. CASE Overlapped(c)
  <2>1. current(c)'.lastRefill = current(c).lastRefill
    BY <1>2, <1>8
  <2>2. Times(c)' \subseteq Times(c)
    BY <1>3, <1>4, <2>1 DEF Times, timed, at, checkers
  <2>3. /\ Cardinality(checkers(c)) \in Nat
        /\ Cardinality(checkers(c)') = Cardinality(checkers(c)) - 1
    BY <1>3, <1>4, ViewTypes, OneLess
  <2>4. taken'[c] + Cardinality(checkers(c)') <= taken[c] + Cardinality(checkers(c))
    BY <1>9, <1>10, <2>3
  <2> HIDE DEF c
  <2> QED BY <1>3, <1>7, <1>9, <1>11, <1>12, <2>2, <2>4, OverlapGoesOn
<1>13. CASE Sequential(c)
  <2>1. checkers(c)' = {} /\ SeesCurrent(h, c)
    BY <1>4, <1>13 DEF Sequential
  <2>2. i = Len(limiter[c]) /\ requests[h].tokens = current(c).tokens
    BY <1>3, <2>1 DEF SeesCurrent, at
  <2>3. count \in Nat \ {0} /\ count = current(c).tokens
    BY <1>1, <1>8, <1>10, <2>2 DEF old
  <2>4. Within(taken'[c] + usable(current(c)'.tokens), allowed(c)', current(c)'.lastRefill)
    <3>1. usable(count) = count /\ usable(count - 1) = count - 1
      BY <2>3 DEF usable
    <3>2. taken'[c] + usable(count - 1) = taken[c] + usable(count)
      BY <1>9, <1>10, <2>3, <3>1
    <3>3. Within(taken[c] + usable(count), allowed(c), current(c).lastRefill)
      BY <1>13, <2>3 DEF Sequential
    <3> QED BY <1>2, <1>8, <1>9, <2>2, <3>2, <3>3
  <2>5. overlaps[c] = 0 => \A j \in DOMAIN limiter'[c] : limiter'[c][j].tokens >= 0
    BY <1>2, <1>6, <1>13, <2>3 DEF Sequential
  <2>6. Sequential(c)'
    BY <1>9, <2>1, <2>4, <2>5 DEF Sequential
  <2> QED BY <1>11, <2>6 DEF LimitedAt
<1>14. Sequential(c) \/ Overlapped(c)
  BY <1>3 DEF LimitedAt
<1> QED BY <1>12, <1>13, <1>14

LEMMA RefillLimited ==
    ASSUME LimitInv, RequestsTyped, LimitersTyped, RequestsTyped', LimitersTyped',
           NEW h \in Callers, refillLimiter(h)
    PROVE  LimitInv'
<1> DEFINE c == Client[h]
           i == requests[h].held
           now == requests[h].now
<1>1. PICK counter \in Bucket, clock \in Bucket, n \in Int :
          /\ counter \in {requests[h].found, held(h)} /\ clock \in {requests[h].found, held(h)}
          /\ n <= counter.tokens + seconds(requests[h].now - clock.lastRefill)
          /\ n <= RateLimit
          /\ n = counter.tokens + seconds(requests[h].now - clock.lastRefill) \/ n = RateLimit
          /\ Valid([tokens |-> n, lastRefill |-> requests[h].now])
          /\ limiter' = [limiter EXCEPT ![Client[h]][requests[h].held] =
                 [tokens |-> n, lastRefill |-> requests[h].now]]
          /\ UNCHANGED <<taken, overlaps, ticks>>
          /\ \/ n <= 0 /\ requests' = [requests EXCEPT ![h] = idleRequest]
             \/ /\ n >= 1
                /\ requests' = [requests EXCEPT ![h] =
                       [pc |-> "take", op |-> requests[h].op, key |-> requests[h].key,
                        held |-> requests[h].held, tokens |-> n]]
  BY RefillParts
<1> DEFINE b == [tokens |-> n, lastRefill |-> now]
           t == [pc |-> "take", op |-> requests[h].op, key |-> requests[h].key,
                 held |-> i, tokens |-> n]
<1>2. PICK r : /\ requests' = [requests EXCEPT ![h] = r]
               /\ (r = idleRequest /\ n <= 0) \/ (r = t /\ n >= 1)
  BY <1>1
<1>3. /\ \/ r.pc = "idle" /\ n <= 0
         \/ r.pc = "take" /\ r.held = i /\ r.tokens = n /\ n >= 1
      /\ b.tokens = n /\ b.lastRefill = now
      /\ Valid(b) /\ limiter' = [limiter EXCEPT ![c][i] = b]
  BY <1>1, <1>2 DEF idleRequest
<1> HIDE DEF b, t
<1>4. c \in Clients /\ checking(h) /\ at(h, "refill") /\ timed(h) /\ holding(h) /\ LimitedAt(c)
  BY ClientOf DEF refillLimiter, checking, timed, holding, at, LimitInv
<1>5. /\ h \in checkers(c) /\ requests'[h] = r
      /\ \A g \in Callers : g # h => requests'[g] = requests[g]
      /\ r.pc = "idle" => checkers(c)' = checkers(c) \ {h}
      /\ r.pc = "take" => checkers(c)' = checkers(c)
  BY <1>2, <1>4, CheckersMove
<1>6. i \in DOMAIN limiter[c]
  BY <1>4, HeldLimiter
<1>7. /\ \A d \in Clients : d # c => limiter'[d] = limiter[d]
      /\ Len(limiter'[c]) = Len(limiter[c]) /\ DOMAIN limiter'[c] = DOMAIN limiter[c]
      /\ limiter'[c][i] = b
      /\ \A j \in DOMAIN limiter[c] : j # i => limiter'[c][j] = limiter[c][j]
  <2> HIDE DEF c, i
  <2> QED BY <1>3, <1>4, <1>6, BucketWritten
<1>8. /\ limiter[c] # <<>> /\ limiter'[c] # <<>>
      /\ current(c) = limiter[c][Len(limiter[c])]
      /\ Len(limiter[c]) \in DOMAIN limiter[c]
  <2>1. limiter[c] # <<>>
    BY <1>6
  <2> QED BY <1>4, <1>7, <2>1, KnownLimiter DEF current, latest
<1>9. \/ i = Len(limiter[c]) /\ current(c)' = b
      \/ i # Len(limiter[c]) /\ current(c)' = current(c)
  BY <1>7, <1>8 DEF current, latest
<1>10. allowed(c)' = allowed(c) /\ taken'[c] = taken[c] /\ overlaps'[c] = overlaps[c]
  BY <1>1 DEF allowed
<1>11. /\ taken[c] \in Nat /\ overlaps[c] \in Nat /\ allowed(c) \in Nat
       /\ RateLimit \in Nat \ {0} /\ now \in Nat
       /\ current(c).lastRefill \in Nat /\ current(c).tokens \in Int
  <2>1. now \in Nat
    BY <1>4, RequestParts DEF at, Holds
  <2> QED BY <1>4, <2>1, ViewTypes, TicksType
<1>12. SpentOrTaken(c)'
  <2>1. CASE i = Len(limiter[c])
    <3>1. CASE r.pc = "idle"
      BY <1>3, <1>9, <1>11, <2>1, <3>1 DEF SpentOrTaken
    <3>2. CASE r.pc = "take"
      BY <1>3, <1>5, <1>7, <2>1, <3>2 DEF SpentOrTaken
    <3> QED BY <1>3, <3>1, <3>2
  <2>2. CASE i # Len(limiter[c])
    <3>1. \/ current(c).tokens < RateLimit
          \/ \E g \in checkers(c) \ {h} :
                requests[g].pc = "take" /\ requests[g].held = Len(limiter[c])
      BY <1>4, <1>8 DEF LimitedAt, SpentOrTaken, at
    <3>2. \A g \in checkers(c) \ {h} : g \in checkers(c)' /\ requests'[g] = requests[g]
      BY <1>3, <1>5 DEF checkers
    <3> QED BY <1>7, <1>9, <2>2, <3>1, <3>2 DEF SpentOrTaken
  <2> QED BY <2>1, <2>2
<1> SUFFICES LimitedAt(c)'
  <2>1. \A d \in Clients : d # c => limiter'[d] = limiter[d]
    BY <1>7
  <2>2. UNCHANGED <<taken, overlaps>>
    BY <1>1
  <2> QED BY <1>2, <2>1, <2>2, OtherClients
<1>13. CASE Overlapped(c)
  <2>1. current(c)'.lastRefill \in {current(c).lastRefill, now}
    BY <1>3, <1>9
  <2>2. ASSUME NEW g \in checkers(c)', timed(g)'
        PROVE  g \in checkers(c) /\ timed(g) /\ requests'[g].now = requests[g].now
    <3>1. g # h /\ g \in Callers
      BY <1>3, <1>5, <2>2 DEF timed, at, checkers
    <3>2. requests'[g] = requests[g] /\ g \in checkers(c)
      BY <1>3, <1>5, <2>2, <3>1
    <3> QED BY <2>2, <3>2 DEF timed, at
  <2>3. Times(c)' \subseteq Times(c)
    BY <1>4, <1>5, <2>1, <2>2 DEF Times
  <2>4. taken'[c] + Cardinality(checkers(c)') <= taken[c] + Cardinality(checkers(c))
    <3>1. /\ Cardinality(checkers(c)) \in Nat
          /\ Cardinality(checkers(c) \ {h}) = Cardinality(checkers(c)) - 1
      BY <1>4, <1>5, ViewTypes, OneLess
    <3> QED BY <1>3, <1>5, <1>10, <1>11, <3>1
  <2> HIDE DEF c
  <2> QED BY <1>4, <1>8, <1>10, <1>12, <1>13, <2>3, <2>4, OverlapGoesOn
<1>14. CASE Sequential(c)
  <2> DEFINE v == current(c).tokens
             last == current(c).lastRefill
             k == seconds(now - last)
             a == allowed(c)
  <2>1. checkers(c) = {h} /\ SeesCurrent(h, c)
    BY <1>5, <1>14 DEF Sequential
  <2>2. i = Len(limiter[c]) /\ requests[h].found = current(c) /\ last <= now
    BY <1>4, <2>1 DEF SeesCurrent, at
  <2>3. held(h) = current(c) /\ current(c)' = b
    BY <1>8, <1>9, <2>2 DEF held
  <2>4. counter = current(c) /\ clock = current(c)
    BY <1>1, <2>2, <2>3
  <2>5. k \in Nat /\ TicksPerSecond * k <= now - last
    BY <1>11, <2>2, SecondsPassed
  <2>6. n <= v + k /\ (n = v + k \/ n = RateLimit)
    BY <1>1, <2>4
  <2>7. Within(taken[c] + usable(v), a, last)
    BY <1>14 DEF Sequential
  <2>8. v \in Int /\ last \in Nat /\ a \in Nat
    BY <1>11
  <2>9. overlaps[c] = 0 => v >= 0
    BY <1>8, <1>14 DEF Sequential
  <2> HIDE DEF k, v, last, a
  <2>10. /\ usable(v) \in Nat /\ usable(n) \in Nat /\ usable(n) <= usable(v) + k
         /\ taken[c] + usable(v) \in Int
    BY <1>11, <2>5, <2>6, <2>8 DEF usable
  <2>11. Within((taken[c] + usable(v)) + k, a, now)
    BY <1>11, <2>5, <2>7, <2>8, <2>10, WithinSeconds
  <2>12. /\ (taken[c] + usable(v)) + k \in Int /\ taken[c] + usable(n) \in Int
         /\ taken[c] + usable(n) <= (taken[c] + usable(v)) + k
         /\ a \in Int /\ a <= a /\ now \in Int /\ now <= now
    BY <1>11, <2>5, <2>8, <2>10
  <2>13. Within(taken[c] + usable(n), a, now)
    <3> DEFINE x == (taken[c] + usable(v)) + k
               y == taken[c] + usable(n)
    <3>1. Within(x, a, now) /\ x \in Int /\ y \in Int /\ y <= x
      BY <2>11, <2>12
    <3> HIDE DEF x, y, now
    <3>2. Within(y, a, now)
      BY <2>12, <3>1, WithinLess
    <3> QED BY <3>2 DEF y
  <2>14. Within(taken'[c] + usable(current(c)'.tokens), allowed(c)', current(c)'.lastRefill)
    BY <1>3, <1>10, <2>3, <2>13 DEF a
  <2>15. overlaps[c] = 0 => \A j \in DOMAIN limiter'[c] : limiter'[c][j].tokens >= 0
    <3>1. overlaps[c] = 0 => n >= 0
      BY <1>11, <2>5, <2>6, <2>8, <2>9
    <3> QED BY <1>3, <1>7, <1>14, <3>1 DEF Sequential
  <2>16. \A g \in checkers(c)' : g = h /\ r.pc = "take"
    BY <1>3, <1>5, <2>1
  <2>17. r.pc = "take" => SeesCurrent(h, c)'
    BY <1>3, <1>5, <1>7, <2>2, <2>3 DEF SeesCurrent, timed, at
  <2>18. Sequential(c)'
    BY <1>10, <2>14, <2>15, <2>16, <2>17 DEF Sequential
  <2> QED BY <1>12, <2>18 DEF LimitedAt
<1>15. Sequential(c) \/ Overlapped(c)
  BY <1>4 DEF LimitedAt
<1> QED BY <1>13, <1>14, <1>15

LEMMA OneMore ==
    ASSUME NEW X, IsFiniteSet(X), NEW x, x \notin X
    PROVE  Cardinality(X) \in Nat /\ Cardinality(X \cup {x}) = Cardinality(X) + 1
BY FS_AddElement, FS_CardinalityType

LEMMA OnlyOne ==
    ASSUME NEW X, NEW x \in X, \A y, z \in X : y = z
    PROVE  Cardinality(X) = 1
<1>1. X = {x}
  OBVIOUS
<1> QED BY <1>1, FS_Singleton

LEMMA ReceiveLimited ==
    ASSUME LimitInv, RequestsTyped, LimitersTyped, NEW h \in Callers, NEW op, NEW k,
           receive(h, op, k)
    PROVE  LimitInv'
<1> DEFINE c == Client[h]
           r == [pc |-> "lookup", op |-> op, key |-> k, now |-> ticks]
<1>1. /\ requests' = [requests EXCEPT ![h] = r] /\ UNCHANGED <<limiter, taken>>
      /\ overlaps' = IF \E g \in Callers : checking(g) /\ Client[g] = c
                     THEN [overlaps EXCEPT ![c] = @ + 1] ELSE overlaps
  BY DEF receive
<1>2. r.pc = "lookup" /\ r.now = ticks
  OBVIOUS
<1> HIDE DEF r
<1>3. c \in Clients /\ ~checking(h) /\ LimitedAt(c)
  BY ClientOf DEF receive, checking, at, LimitInv
<1>4. /\ requests'[h] = r /\ \A g \in Callers : g # h => requests'[g] = requests[g]
      /\ h \notin checkers(c) /\ checkers(c)' = checkers(c) \cup {h}
      /\ \A g \in checkers(c) : g # h /\ requests'[g] = requests[g]
  <2>1. requests'[h] = r /\ \A g \in Callers : g # h => requests'[g] = requests[g]
    BY <1>1 DEF RequestsTyped
  <2> QED BY <1>2, <1>3, <2>1 DEF checkers, checking
<1>5. current(c)' = current(c) /\ taken'[c] = taken[c] /\ limiter'[c] = limiter[c]
  BY <1>1 DEF current
<1>6. /\ taken[c] \in Nat /\ overlaps[c] \in Nat /\ allowed(c) \in Nat /\ ticks \in Nat
      /\ current(c).tokens \in Int /\ RateLimit \in Nat \ {0}
      /\ current(c).lastRefill \in Nat /\ current(c).lastRefill <= ticks
      /\ IsFiniteSet(checkers(c))
      /\ \A t \in Times(c) : t \in Nat /\ t <= ticks
  BY <1>3, ViewTypes, TicksType
<1>7. SpentOrTaken(c)'
  BY <1>3, <1>4, <1>5 DEF LimitedAt, SpentOrTaken
<1> SUFFICES LimitedAt(c)'
  <2>1. UNCHANGED overlaps \/ overlaps' = [overlaps EXCEPT ![c] = @ + 1]
    BY <1>1
  <2>2. requests' = [requests EXCEPT ![h] = r] /\ UNCHANGED taken
        /\ \A d \in Clients : d # c => limiter'[d] = limiter[d]
    BY <1>1
  <2> QED BY <2>1, <2>2, OtherClients
<1>8. CASE checkers(c) = {}
  <2>1. overlaps' = overlaps /\ allowed(c)' = allowed(c)
    BY <1>1, <1>8 DEF checkers, allowed
  <2>2. Sequential(c)
    BY <1>3, <1>8 DEF LimitedAt, Overlapped
  <2>3. checkers(c)' = {h}
    BY <1>4, <1>8
  <2>4. SeesCurrent(h, c)'
    BY <1>2, <1>4, <1>5, <1>6 DEF SeesCurrent, timed, at
  <2>5. Sequential(c)'
    BY <1>5, <2>1, <2>2, <2>3, <2>4 DEF Sequential
  <2> QED BY <1>7, <2>5 DEF LimitedAt
<1>9. CASE checkers(c) # {}
  <2> DEFINE n == Cardinality(checkers(c))
             a == allowed(c)
             more == RateLimit + 1
  <2>1. overlaps' = [overlaps EXCEPT ![c] = @ + 1] /\ overlaps'[c] = overlaps[c] + 1
    <3>1. \E g \in Callers : checking(g) /\ Client[g] = c
      BY <1>9 DEF checkers
    <3> QED BY <1>1, <1>3, <3>1 DEF LimitersTyped
  <2>2. n \in Nat /\ Cardinality(checkers(c)') = n + 1
    BY <1>4, <1>6, OneMore
  <2>3. allowed(c)' = a + more
    <3>1. \A o, m \in Nat : (o + 1) * m = o * m + m /\ o * m \in Nat
      OBVIOUS
    <3>2. (overlaps[c] + 1) * more = overlaps[c] * more + more /\ overlaps[c] * more \in Nat
      BY <1>6, <3>1
    <3> QED BY <1>6, <2>1, <3>2 DEF allowed
  <2>4. ASSUME NEW t \in Times(c)' PROVE t \in Times(c) \/ t = ticks
    <3>1. \A g \in checkers(c) : timed(g)' => timed(g)
      BY <1>4 DEF timed, at
    <3> QED BY <1>2, <1>4, <1>5, <2>4, <3>1 DEF Times
  <2>5. /\ current(c).lastRefill \in Times(c)
        /\ \A g \in checkers(c) : timed(g) => requests[g].now \in Times(c)
    BY DEF Times
  <2>6. ASSUME NEW t \in Times(c)'
        PROVE  Within(taken[c] + (n + 1) + RateLimit - 1, a + more, t)
    <3> DEFINE x == taken[c] + n + RateLimit - 1
               y == taken[c] + usable(current(c).tokens)
               z == taken[c] + (n + 1) + RateLimit - 1
               last == current(c).lastRefill
    <3>1. t \in Nat /\ t <= ticks
      BY <1>6, <2>4, <2>6
    <3>2. /\ x \in Int /\ z \in Int /\ z <= x + more /\ a \in Int /\ more \in Int /\ more >= 0
          /\ y \in Int /\ taken[c] <= y /\ taken[c] \in Int
      BY <1>6, <2>2 DEF usable
    <3>3. CASE Overlapped(c)
      <4>1. PICK s \in Times(c) : s \in Nat /\ s <= t
        BY <1>6, <2>4, <2>5, <2>6, <3>1
      <4>2. Within(x, a, s)
        BY <3>3 DEF Overlapped
      <4> HIDE DEF x, a, more, z
      <4>3. Within(x + more, a + more, s)
        <5>1. x \in Int /\ a \in Int /\ more \in Int /\ s \in Int
          BY <3>2, <4>1
        <5> QED BY <4>2, <5>1, WithinMoved
      <4>4. Within(z, a + more, t)
        <5>1. x + more \in Int /\ a + more \in Int /\ a + more <= a + more
          BY <3>2
        <5> QED BY <3>1, <3>2, <4>1, <4>3, <5>1, WithinLess
      <4> QED BY <4>4 DEF z
    <3>4. CASE Sequential(c)
      <4>1. PICK g \in checkers(c) : checkers(c) = {g}
        BY <1>9, <3>4 DEF Sequential
      <4>2. n = 1
        BY <4>1, FS_Singleton
      <4>3. last <= t
        <5>1. timed(g) => last <= requests[g].now
          BY <3>4, <4>1 DEF Sequential, SeesCurrent
        <5>2. t = last \/ (timed(g) /\ t = requests[g].now) \/ t = ticks
          BY <2>4, <2>6, <4>1 DEF Times
        <5> QED BY <1>6, <5>1, <5>2
      <4>4. Within(y, a, last) /\ last \in Nat
        BY <1>6, <3>4 DEF Sequential
      <4>5. z <= y + more
        BY <1>6, <3>2, <4>2
      <4> HIDE DEF y, a, more, z, last
      <4>6. Within(y + more, a + more, last)
        <5>1. y \in Int /\ a \in Int /\ more \in Int /\ last \in Int
          BY <3>2, <4>4
        <5> QED BY <4>4, <5>1, WithinMoved
      <4>7. Within(z, a + more, t)
        <5>1. y + more \in Int /\ a + more \in Int /\ a + more <= a + more
          BY <3>2
        <5> QED BY <3>1, <3>2, <4>3, <4>4, <4>5, <4>6, <5>1, WithinLess
      <4> QED BY <4>7 DEF z
    <3> QED BY <1>3, <3>3, <3>4 DEF LimitedAt
  <2>7. overlaps'[c] > 0 /\ checkers(c)' # {}
    BY <1>4, <1>6, <2>1
  <2> HIDE DEF n, a, more
  <2>8. Overlapped(c)'
    BY <1>5, <2>2, <2>3, <2>6, <2>7 DEF Overlapped
  <2> QED BY <1>7, <2>8 DEF LimitedAt
<1> QED BY <1>8, <1>9

-----------------------------------------------------------------------------
(* Rate limits: all steps together.                                        *)

LEMMA LimitInit == ServiceInit => LimitInv
<1> SUFFICES ASSUME ServiceInit, NEW c \in Clients PROVE LimitedAt(c)
  BY DEF LimitInv
<1>1. checkers(c) = {} /\ limiter[c] = <<>> /\ taken[c] = 0 /\ overlaps[c] = 0
  BY DEF ServiceInit, InitFront, idleRequest, checkers, checking
<1>2. current(c).tokens = RateLimit /\ current(c).lastRefill = 0
  BY <1>1 DEF current, latest, full
<1>3. taken[c] + usable(current(c).tokens) = RateLimit /\ allowed(c) = RateLimit
  <2>1. RateLimit \in Nat \ {0} /\ 0 * (RateLimit + 1) = 0
    BY TicksType
  <2> QED BY <1>1, <1>2, <2>1 DEF usable, allowed
<1>4. Within(RateLimit, RateLimit, 0)
  <2>1. TicksPerSecond * RateLimit \in Int
    BY TicksType
  <2> QED BY <2>1 DEF Within
<1>5. Sequential(c)
  BY <1>1, <1>2, <1>3, <1>4 DEF Sequential
<1> QED BY <1>1, <1>5 DEF LimitedAt, SpentOrTaken

LEMMA LimitStep ==
    ASSUME LimitInv, FrontInv, FrontInv', CallersWait, IInv, [ServiceNext]_allVars
    PROVE  LimitInv'
<1>1. RequestsTyped /\ LimitersTyped /\ RequestsTyped' /\ LimitersTyped'
  BY DEF FrontInv
<1>2. CASE SameAdmissions \/ limiterTick
  <2>1. /\ UNCHANGED <<limiter, taken, overlaps>>
        /\ \A h \in Callers : requests'[h] = requests[h] \/ (~checking(h) /\ ~checking(h)')
    BY <1>2 DEF SameAdmissions, limits, limiterTick
  <2>2. \A c \in Clients : SameView(c)
    BY <2>1 DEF SameView
  <2> QED BY <2>2, SameViewLimits DEF LimitInv
<1>3. ASSUME NEW h \in Callers, checkRateLimit(h) PROVE LimitInv'
  BY <1>1, <1>3, LookupLimited, InsertLimited, TakeLimited, RefillLimited DEF checkRateLimit
<1>4. ASSUME NEW h \in Callers, NEW op, NEW k, receive(h, op, k) PROVE LimitInv'
  BY <1>1, <1>4, ReceiveLimited
<1> QED BY <1>2, <1>3, <1>4, AdmissionsMove

LEMMA LimitsHold ==
    ASSUME LimitInv, FrontInv
    PROVE  RequestsAreLimited
<1> SUFFICES ASSUME NEW c \in Clients
             PROVE  /\ taken[c] <= RateLimit + ticks \div TicksPerSecond
                                     + overlaps[c] * (RateLimit + 1)
                    /\ overlaps[c] = 0 => \A i \in DOMAIN limiter[c] : limiter[c][i].tokens >= 0
  BY DEF RequestsAreLimited
<1> DEFINE last == current(c).lastRefill
           n == Cardinality(checkers(c))
<1>1. /\ taken[c] \in Nat /\ overlaps[c] \in Nat /\ allowed(c) \in Nat /\ ticks \in Nat
      /\ current(c).tokens \in Int /\ last \in Nat /\ last <= ticks /\ n \in Nat
      /\ RateLimit \in Nat \ {0}
  BY ViewTypes, TicksType DEF FrontInv
<1>2. LimitedAt(c)
  BY DEF LimitInv
<1>3. PICK x \in Int : Within(x, allowed(c), last) /\ taken[c] <= x
  <2>1. CASE Sequential(c)
    <3>1. /\ taken[c] + usable(current(c).tokens) \in Int
          /\ taken[c] <= taken[c] + usable(current(c).tokens)
      BY <1>1 DEF usable
    <3> QED BY <2>1, <3>1 DEF Sequential
  <2>2. CASE Overlapped(c)
    <3>1. taken[c] + n + RateLimit - 1 \in Int /\ taken[c] <= taken[c] + n + RateLimit - 1
      BY <1>1
    <3>2. Within(taken[c] + n + RateLimit - 1, allowed(c), last)
      BY <2>2 DEF Overlapped, Times
    <3> QED BY <3>1, <3>2
  <2> QED BY <1>2, <2>1, <2>2 DEF LimitedAt
<1> HIDE DEF last
<1>4. Within(taken[c], allowed(c), ticks)
  BY <1>1, <1>3, WithinLess
<1>5. taken[c] <= allowed(c) + ticks \div TicksPerSecond /\ ticks \div TicksPerSecond \in Nat
  <2>1. ticks \div TicksPerSecond \in Nat
    BY <1>1, SecondsOf
  <2>2. taken[c] \in Int /\ allowed(c) \in Int
    BY <1>1
  <2>3. taken[c] <= allowed(c) + ticks \div TicksPerSecond
    BY <1>1, <1>4, <2>2, WithinLimited
  <2> QED BY <2>1, <2>3
<1>6. overlaps[c] * (RateLimit + 1) \in Nat
  <2>1. \A o, m \in Nat : o * m \in Nat
    OBVIOUS
  <2> QED BY <1>1, <2>1
<1>7. taken[c] <= RateLimit + ticks \div TicksPerSecond + overlaps[c] * (RateLimit + 1)
  <2> DEFINE s == ticks \div TicksPerSecond
             p == overlaps[c] * (RateLimit + 1)
  <2>1. s \in Nat /\ p \in Nat /\ taken[c] <= (RateLimit + p) + s
    BY <1>5, <1>6 DEF allowed
  <2> HIDE DEF s, p
  <2>2. taken[c] <= RateLimit + s + p
    BY <1>1, <2>1
  <2> QED BY <2>2 DEF s, p
<1>8. overlaps[c] = 0 => \A i \in DOMAIN limiter[c] : limiter[c][i].tokens >= 0
  BY <1>1, <1>2 DEF LimitedAt, Sequential, Overlapped
<1> QED BY <1>7, <1>8

\* A client gets its capacity and a request for each full second, and no more
\* than one and the capacity again for each request that overlaps; and without
\* these nobody's counter is below zero. For any requests, interleavings,
\* readings of the clock and seconds (types.go checkRateLimit).
THEOREM RequestsAreLimitedHolds == ServiceSpec => []RequestsAreLimited
<1>1. LimitInv /\ FrontInv /\ FrontInv' /\ CallersWait /\ IInv /\ [ServiceNext]_allVars
          => LimitInv'
  BY LimitStep
<1>2. LimitInv /\ FrontInv => RequestsAreLimited
  BY LimitsHold
<1>3. ServiceInv => IInv
  BY DEF ServiceInv
<1> QED BY <1>1, <1>2, <1>3, LimitInit, ServiceInvHolds, FrontInvHolds, PTL DEF ServiceSpec
=============================================================================
