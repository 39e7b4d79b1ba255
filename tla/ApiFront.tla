------------------------------ MODULE ApiFront ------------------------------
(***************************************************************************)
(* The API in front of the order service (internal/api/routes.go and       *)
(* types.go): a request is admitted by the client's rate limiter, answered *)
(* from the response cache where it can be, and otherwise served by the    *)
(* handlers of OrderService.  Each request is served by a goroutine.       *)
(*                                                                         *)
(* The limiters and the cache are Go maps and structs without a lock, so   *)
(* every access is a step: a counter that others write may be read before  *)
(* or after (a register or memory), and two goroutines at one map of which *)
(* one writes end the process ("concurrent map writes").                   *)
(*                                                                         *)
(* Left out: requests that end before the limiter (no user address, a      *)
(* wrong format), reads that neither the cache nor a change depends on,    *)
(* response bodies.  A cached response is the version of the row it shows  *)
(* and the version the row had when it was stored.                         *)
(***************************************************************************)
EXTENDS OrderService

CONSTANTS
    Client,           \* Client[h]: whose requests goroutine h serves
    Owner,            \* Owner[o]: the user_address of an order
    Pair,             \* the key of a cached price
    RateLimit,        \* DefaultRateLimit
    TicksPerSecond, MaxTicks     \* clock of the limiters, and its bound

Clients == {Client[h] : h \in Callers}
Keys == Orders \cup {Pair}
Ops == {"look", "create", "get", "price", "cancel", "execute", "clear"}

ASSUME ApiAssumption ==
    /\ Callers = Cancellers
    /\ Pair \notin Orders
    /\ RateLimit \in Nat \ {0} /\ TicksPerSecond \in Nat \ {0} /\ MaxTicks \in Nat

VARIABLES
    requests,         \* what each goroutine does
    limiter,          \* the limiters made for a client: the last is in h.rateLimiter,
                      \* others are still held by who looked them up before
    cache,            \* h.cache
    taken,            \* requests of a client that were admitted
    overlaps,         \* its requests that came during the admission of another
    ticks,            \* the time of the limiters
    changes,          \* version: how often anyone has changed the row of an order
    confirmed         \* the last version that a response has confirmed

limits == <<limiter, taken, overlaps, ticks>>
cached == <<cache, confirmed>>
frontVars == <<requests, limits, cached>>

idleRequest == [pc |-> "idle"]
NoResponse == [read |-> NULL, filled |-> NULL]

InitFront ==
    /\ requests = [h \in Callers |-> idleRequest]
    /\ limiter = [c \in Clients |-> <<>>]
    /\ cache = [k \in Keys |-> NoResponse]
    /\ taken = [c \in Clients |-> 0]
    /\ overlaps = [c \in Clients |-> 0]
    /\ ticks = 0
    /\ changes = [k \in Keys |-> 0]
    /\ confirmed = [k \in Keys |-> 0]

at(h, pc) == requests[h].pc = pc
serving(h, op) == at(h, "admitted") /\ requests[h].op = op
key(h) == requests[h].key

goTo(h, pc) == requests' = [requests EXCEPT ![h] = [pc |-> pc, op |-> @.op, key |-> @.key]]
answered(h) == requests' = [requests EXCEPT ![h] = idleRequest]

-----------------------------------------------------------------------------
(* checkRateLimit                                                          *)

checking(h) == requests[h].pc \in {"lookup", "insert", "refill", "take"}

\* The clock is read first.
receive(h, op, k) ==
    /\ at(h, "idle")
    /\ requests' = [requests EXCEPT ![h] = [pc |-> "lookup", op |-> op, key |-> k, now |-> ticks]]
    /\ overlaps' = IF \E g \in Callers : checking(g) /\ Client[g] = Client[h]
                   THEN [overlaps EXCEPT ![Client[h]] = @ + 1] ELSE overlaps
    /\ UNCHANGED <<limiter, taken, ticks, cached, vars>>

lookupLimiter(h) ==
    LET known == limiter[Client[h]] IN
    /\ at(h, "lookup")
    /\ requests' = [requests EXCEPT ![h] =
           IF known = <<>> THEN [pc |-> "insert", op |-> @.op, key |-> @.key, now |-> @.now]
           ELSE [pc |-> "refill", op |-> @.op, key |-> @.key, now |-> @.now,
                 held |-> Len(known), found |-> known[Len(known)]]]
    /\ UNCHANGED <<limits, cached, vars>>

admitted(h, limiters) ==
    /\ limiter' = [limiter EXCEPT ![Client[h]] = limiters]
    /\ taken' = [taken EXCEPT ![Client[h]] = @ + 1]
    /\ goTo(h, "admitted")
    /\ UNCHANGED <<overlaps, ticks, cached, vars>>

insertLimiter(h) ==
    /\ at(h, "insert")
    /\ admitted(h, Append(limiter[Client[h]],
                          [tokens |-> RateLimit - 1, lastRefill |-> requests[h].now]))

\* the limiter this goroutine holds a pointer to
held(h) == limiter[Client[h]][requests[h].held]

\* int(elapsed.Seconds()), of either sign
seconds(elapsed) == IF elapsed >= 0 THEN elapsed \div TicksPerSecond
                    ELSE -((-elapsed) \div TicksPerSecond)

lastRefill_Kept(h) == held(h).lastRefill
lastRefill(h) == requests[h].now

\* Another goroutine may have filled it with a later reading of the clock.
refillLimiter(h) ==
    /\ at(h, "refill")
    /\ \E counter, clock \in {requests[h].found, held(h)} :
       LET filled == counter.tokens + seconds(requests[h].now - clock.lastRefill)
           tokens == IF filled > RateLimit THEN RateLimit ELSE filled
       IN
       /\ limiter' = [limiter EXCEPT ![Client[h]][requests[h].held] =
              [tokens |-> tokens, lastRefill |-> lastRefill(h)]]
       /\ IF tokens <= 0 THEN answered(h)
          ELSE requests' = [requests EXCEPT ![h] =
                   [pc |-> "take", op |-> @.op, key |-> @.key, held |-> @.held,
                    tokens |-> tokens]]
    /\ UNCHANGED <<taken, overlaps, ticks, cached, vars>>

takeToken(h) ==
    /\ at(h, "take")
    /\ \E seen \in {requests[h].tokens, held(h).tokens} :
          admitted(h, [limiter[Client[h]] EXCEPT ![requests[h].held].tokens = seen - 1])

checkRateLimit(h) ==
    lookupLimiter(h) \/ insertLimiter(h) \/ refillLimiter(h) \/ takeToken(h)

limiterTick ==
    /\ ticks < MaxTicks
    /\ ticks' = ticks + 1
    /\ UNCHANGED <<requests, limiter, taken, overlaps, cached, vars>>

-----------------------------------------------------------------------------
(* Requests that change nothing.                                           *)

\* getOrderStatus, getOrderHistory, listOrders
look(h) ==
    /\ serving(h, "look")
    /\ answered(h)
    /\ UNCHANGED <<limits, cached, vars>>

\* validateCreateOrder binds the request's body, and createOrder binds it again:
\* nothing is left to read, and the request is refused as malformed.
refuseCreate(h) ==
    /\ serving(h, "create")
    /\ answered(h)
    /\ UNCHANGED <<limits, cached, vars>>

-----------------------------------------------------------------------------
(* getOrder and getTWAPPrice                                               *)

\* A cached response is shown to the order's owner and refused to others.
getFromCache(h) ==
    /\ serving(h, "get") \/ serving(h, "price")
    /\ IF cache[key(h)] # NoResponse THEN answered(h) ELSE goTo(h, "read")
    /\ UNCHANGED <<limits, cached, vars>>

canAccessOrder(h) == orders[key(h)] # NoRow /\ Owner[key(h)] = Client[h]

fill(h) == requests' = [requests EXCEPT ![h] =
               [pc |-> "fill", op |-> @.op, key |-> @.key, read |-> changes[key(h)]]]

getOrder(h) ==
    /\ at(h, "read") /\ requests[h].op = "get"
    /\ \/ Fails /\ answered(h)
       \/ Succeeds /\ IF canAccessOrder(h) THEN fill(h) ELSE answered(h)
    /\ UNCHANGED <<orders, history, timeLeft, engineVars, serviceVars, limits, cached>>

\* The engine has a price, or not enough history.
getTWAPPrice(h) ==
    /\ at(h, "read") /\ requests[h].op = "price"
    /\ fill(h) \/ answered(h)
    /\ UNCHANGED <<limits, cached, vars>>

\* The TTL is ignored.
setCache(h) ==
    /\ at(h, "fill")
    /\ cache' = [cache EXCEPT ![key(h)] =
           [read |-> requests[h].read, filled |-> changes[key(h)]]]
    /\ answered(h)
    /\ UNCHANGED <<limits, confirmed, vars>>

-----------------------------------------------------------------------------
(* cancelOrder and executeOrder                                            *)

canModifyOrder(h) == canAccessOrder(h)

\* Ageing is no change.
changesAfter(k) ==
    IF k \in Orders /\ orders'[k] \notin {orders[k], older(orders[k])}
    THEN changes[k] + 1 ELSE changes[k]
countChanges == changes' = [k \in Keys |-> changesAfter(k)]

\* The version that the handler has made, or found in spite of an update that failed.
forget(h) == [pc |-> "forget", op |-> requests[h].op, key |-> key(h),
              made |-> changesAfter(key(h))]

startCancel(h) ==
    /\ serving(h, "cancel")
    /\ \/ /\ canModifyOrder(h)
          /\ cancelOrder(h, key(h))
          /\ goTo(h, "cancelling")
       \/ /\ \/ Fails
             \/ Succeeds /\ ~(canModifyOrder(h) /\ canCancelOrder(orders[key(h)].status))
          /\ answered(h)
          /\ UNCHANGED <<orders, history, timeLeft, engineVars, serviceVars>>
    /\ UNCHANGED <<limits, cached>>

finishCancel(h) ==
    /\ at(h, "cancelling")
    /\ writeCancelled(h)
    /\ IF failures' = failures THEN requests' = [requests EXCEPT ![h] = forget(h)]
       ELSE answered(h)
    /\ UNCHANGED <<limits, cached>>

startExecution(h) ==
    /\ serving(h, "execute")
    /\ \/ /\ canModifyOrder(h)
          /\ ExecuteOrderManually(h, key(h))
          /\ goTo(h, "executing")
       \/ /\ \/ Fails
             \/ Succeeds /\ ~canModifyOrder(h)
          /\ answered(h)
          /\ UNCHANGED <<orders, history, timeLeft, engineVars>>
    /\ UNCHANGED <<serviceVars, limits, cached>>

requestExecution(h) ==
    /\ at(h, "executing")
    /\ readHistory(h) \/ enqueueCall(h)
    /\ IF calls'[h] = idleCall THEN answered(h) ELSE UNCHANGED requests
    /\ UNCHANGED <<serviceVars, limits, cached>>

\* The worker's step of the engine, and what it lets a waiting handler do.
work ==
    /\ Worker
    /\ requests' = [h \in Callers |->
           IF calls[h].pc # "waiting" \/ calls'[h].pc = "waiting" THEN requests[h]
           ELSE IF worker.pc = "update" THEN forget(h) ELSE idleRequest]
    /\ UNCHANGED <<serviceVars, limits, cached>>

cleared(h) == requests' = [requests EXCEPT ![h] =
                  [pc |-> "respond", op |-> @.op, key |-> @.key, made |-> @.made]]

clearOrderCache_Kept(h) ==
    /\ at(h, "forget")
    /\ cleared(h)
    /\ UNCHANGED <<limits, cached, vars>>
clearOrderCache(h) ==
    /\ at(h, "forget")
    /\ cache' = [cache EXCEPT ![key(h)] = NoResponse]
    /\ cleared(h)
    /\ UNCHANGED <<limits, confirmed, vars>>

\* The client learns that its order was cancelled or executed.
respondSuccess(h) ==
    /\ at(h, "respond")
    /\ confirmed' = [confirmed EXCEPT ![key(h)] =
           IF requests[h].made > @ THEN requests[h].made ELSE @]
    /\ answered(h)
    /\ UNCHANGED <<limits, cache, vars>>

-----------------------------------------------------------------------------

\* Behind adminAuthMiddleware.
clearCache(h) ==
    /\ serving(h, "clear")
    /\ \E adminToken \in BOOLEAN :
          cache' = IF adminToken THEN [k \in Keys |-> NoResponse] ELSE cache
    /\ answered(h)
    /\ UNCHANGED <<limits, confirmed, vars>>

\* what goes on once a request has been received
serve(h) ==
    \/ checkRateLimit(h)
    \/ look(h) \/ refuseCreate(h) \/ clearCache(h)
    \/ getFromCache(h) \/ getOrder(h) \/ getTWAPPrice(h) \/ setCache(h)
    \/ startCancel(h) \/ finishCancel(h)
    \/ startExecution(h) \/ requestExecution(h)
    \/ clearOrderCache(h) \/ respondSuccess(h)

readsLimiters(h) == at(h, "lookup")
writesLimiters(h) == at(h, "insert")
readsCache(h) == serving(h, "get") \/ serving(h, "price")
writesCache(h) == at(h, "fill") \/ at(h, "forget")

\* Two goroutines are at one map, and one of them is about to write.
concurrentMapAccess ==
    \E g, h \in Callers : /\ g # h
                          /\ \/ writesLimiters(g) /\ (readsLimiters(h) \/ writesLimiters(h))
                             \/ writesCache(g) /\ (readsCache(h) \/ writesCache(h))
=============================================================================
