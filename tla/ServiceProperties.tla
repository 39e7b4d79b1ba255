------------------------- MODULE ServiceProperties -------------------------
(* Properties of Service. *)
EXTENDS Service, OrderProperties

\* An event handler or anyone of OrderProperties is at work on the order.
Held(o) == \/ Working(o)
           \/ \E c \in EventChains : callbacks[c].pc = "update" /\ callbacks[c].order = o

-----------------------------------------------------------------------------
(* The type of every variable.                                             *)

RequestType ==
    LET with(fields) == {r \in fields : (r.op = "price") = (r.key = Pair)} IN
    {idleRequest}
    \cup with([pc : {"lookup", "insert"}, op : Ops, key : Keys, now : 0..MaxTicks])
    \cup with([pc : {"admitted"}, op : Ops, key : Keys])
    \cup with([pc : {"read"}, op : {"get", "price"}, key : Keys])
    \cup with([pc : {"cancelling", "executing"}, op : {"cancel", "execute"}, key : Orders])

ServiceTypeOK ==
    /\ TypeOK
    /\ \A h \in Callers :
          LET r == requests[h] IN
          \/ r \in RequestType
          \/ r.pc \in {"refill", "take"} /\ r.held \in DOMAIN limiter[Client[h]]
          \/ r.pc = "fill" /\ r.read \in 0..changes[r.key]
          \/ r.pc \in {"forget", "respond"} /\ r.made \in 0..changes[r.key]
    /\ \A h \in Callers : calls[h].pc # "idle" <=> at(h, "executing")
    /\ \A h \in Callers : cancels[h].pc # "idle" <=> at(h, "cancelling")
    /\ \A c \in Clients : \A i \in DOMAIN limiter[c] :
          limiter[c][i].tokens \in Int /\ limiter[c][i].lastRefill \in 0..ticks
    /\ \A k \in Keys : cache[k] = NoResponse \/ cache[k].read \in 0..cache[k].filled
    /\ DOMAIN adapters \subseteq EventChains
    /\ \A c \in SwapChains : chainHTLCs[c].status \in HTLCStatus
    /\ wg \subseteq Goroutines /\ engineWg \subseteq EngineGoroutines
    /\ orchestrator \in {"new", "running", "failed", "stopped"}
    /\ main = "up" => ctx = "live"
    /\ \A c \in EventChains :
          \/ callbacks[c] \in {noEvents, waitingForEvent}
          \/ callbacks[c].pc = "update" /\ callbacks[c].row \in Row
          \/ callbacks[c].pc = "record" /\ callbacks[c].address \in Addresses
    /\ \A a \in DOMAIN htlcs : htlcs[a] \in Inserted

-----------------------------------------------------------------------------

\* A client gets its capacity and a request for each full second, and for each
\* request that came during another's admission no more than that one and the
\* capacity again. Without those its counter is never below zero: one that
\* leaves a second between requests is never refused (types.go checkRateLimit,
\* on maps and counters without a lock, with a clock that others may have
\* overtaken and refills that drop the fraction of a second).
RequestsAreLimited ==
    \A c \in Clients :
        /\ taken[c] <= RateLimit + ticks \div TicksPerSecond + overlaps[c] * (RateLimit + 1)
        /\ overlaps[c] = 0 => \A i \in DOMAIN limiter[c] : limiter[c][i].tokens >= 0

\* A cached response that does not show a change of which a client was told was
\* stored after that change was made, by a request that had read the row before
\* it: none that was stored before the change is left (routes.go cancelOrder and
\* executeOrder, which change, clear and respond, against getOrder).  Of changes
\* made by the worker on its own, the monitor or an event nobody is told, and
\* nobody clears the cache for them.
ConfirmedChangesAreCleared ==
    \A o \in Orders : cache[o] # NoResponse =>
        (cache[o].read < confirmed[o] => cache[o].filled >= confirmed[o])

\* The counters of active, completed and failed orders add up, and every row
\* that is expired was counted, whatever events are repeated or missing and
\* whichever update fails (orchestrator.go handlers and checkOrderTimeouts).
CountersMatch ==
    /\ stats.ActiveOrders = stats.TotalOrders - stats.CompletedOrders - stats.FailedOrders
    /\ Cardinality({o \in Orders : orders[o].status = "expired"}) <= stats.FailedOrders

\* A finished order that nobody works on is left alone by all of the service
\* but an executed event or a request to execute it
\* (orchestrator.go handleOrderExecuted, routes.go executeOrder).
FinishedStaysFinished ==
    [][\A o \in Orders : Finished(o) /\ ~Held(o) =>
          /\ orders'[o] \in {orders[o], older(orders[o])}
          /\ Held(o)' => \/ left'.executed < left.executed
                         \/ \E h \in Callers : calls'[h] # calls[h]]_allVars

\* A shutdown gets to its end, unless a handler waits for a request that the
\* worker left in the queue; and the orchestrator stops, if the process runs on
\* (main.go main, engine.go ExecuteOrderManually and executionWorker).
CallerIsLeft ==
    /\ "executionWorker" \notin engineWg
    /\ \E h \in Callers, i \in DOMAIN queue : calls[h].pc = "waiting" /\ queue[i].caller = h

ShutdownEnds ==
    /\ main = "cancelled" ~> ~running \/ CallerIsLeft
    /\ ctx = "cancelled" /\ orchestrator = "running"
           ~> ~running \/ orchestrator \in {"stopped", "failed"}
=============================================================================
