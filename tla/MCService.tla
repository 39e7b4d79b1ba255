----------------------------- MODULE MCService -----------------------------
(* An instance of Service and its properties for TLC. *)
EXTENDS ServiceProperties, TLC

CONSTANTS o1, h1, h2, u1, ethereum, cosmos, a1, a2

\* two intervals of 100 units, times out after a clock step
Terms1 == [o \in Orders |->
    [sourceAmount |-> 200, executionIntervals |-> 2, minFillSize |-> 1,
     maxSlippage |-> 100, targetAdapter |-> TRUE,
     timeoutHeight |-> 2000000, timeoutTicks |-> 1]]

OneClient == [h \in Callers |-> u1]
OneOwner == [o \in Orders |-> u1]
ByAddress == [a \in Addresses |-> o1]

nothing == [s \in Stimuli |-> 0]

\* One client's requests come fast and slowly.
Bursts == [nothing EXCEPT !.look = 3, !.create = 1, !.second = 4]
\* Responses are cached while the order changes.
Reads == [nothing EXCEPT !.row = 1, !.get = 2, !.cancel = 1]
Prices1 == [nothing EXCEPT !.price = 2, !.clear = 1]
Executions == [nothing EXCEPT !.row = 1, !.get = 1, !.execute = 1]
\* Events come while the order is cancelled, times out and is executed.
ChainEvents == [nothing EXCEPT !.start = 1, !.row = 1, !.tick = 1, !.created = 1, !.executed = 1,
                               !.completed = 1, !.claimed = 1]
Records == [nothing EXCEPT !.start = 1, !.row = 1, !.htlc = 2, !.registry = 1]
\* A swap, on adapters that come and go.
Swaps == [nothing EXCEPT !.swap = 1, !.registry = 1, !.hour = 5]
\* A signal during requests.
Stops == [nothing EXCEPT !.row = 1, !.execute = 1, !.signal = 1]
\* A signal while the orchestrator starts and works.
Ends == [nothing EXCEPT !.start = 1, !.row = 1, !.tick = 1, !.signal = 1]

AllLoads == {Bursts, Reads, Prices1, Executions, ChainEvents, Records, Swaps, Stops, Ends}
=============================================================================
