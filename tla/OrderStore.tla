----------------------------- MODULE OrderStore -----------------------------
(***************************************************************************)
(* The orchestrator's database as the Go service uses it: the orders table *)
(* and the execution history (internal/database/database.go), with the     *)
(* methods of a row that was read (internal/database/types.go).            *)
(*                                                                         *)
(* Every call is one SQL statement outside of any transaction, so a call   *)
(* is atomic and a sequence of calls is not: a handler that reads a row,   *)
(* changes it in memory and writes it back works on a copy that others may *)
(* have overtaken.  Any call may fail (lost connection, timeout).          *)
(*                                                                         *)
(* Definitions whose name has an underscore, f_Variant before f, are f     *)
(* with a slip in it: they are used nowhere, and putting one in the place  *)
(* of f makes a property of OrderProperties fail.                          *)
(*                                                                         *)
(* Left out: columns that never change after the insert and that nothing   *)
(* here decides on (addresses, tokens, chains, hashes, metadata).          *)
(***************************************************************************)
EXTENDS Integers, Sequences, FiniteSets, SequencesExt

CONSTANTS
    Orders,           \* order ids
    terms,            \* terms[o]: the immutable columns of order o
    Interval,         \* clock steps in WindowMinutes/ExecutionIntervals
    MaxFailures       \* bound: errors and crashes in a behaviour

\* The height that stands for the chain's in GetExecutableOrders.
currentHeight == 1000000
NULL == -1

Status == {"pending", "executing", "partially_filled", "completed",
           "cancelled", "expired", "refunded", "claimed"}

\* targetAdapter: an adapter is registered for the target chain, which is settled
\* when the service starts.  timeoutTicks counts clock steps from the insert to
\* TimeoutTimestamp, and is NULL when that lies beyond the horizon of the model.
Terms == [sourceAmount : Nat \ {0}, executionIntervals : 2..20,
          minFillSize : Nat \ {0}, maxSlippage : 1..1000, targetAdapter : BOOLEAN,
          timeoutHeight : Nat \ {0}, timeoutTicks : {NULL} \cup Nat]

\* lastExecution is the time since then, up to Interval: no code tells longer
\* times apart.  createdAt is the rank of the insert.
Row == [status : Status, executedAmount : Int, averagePrice : Int,
        lastExecution : {NULL} \cup (0..Interval), createdAt : Nat]

NoRow == [status |-> "none", executedAmount |-> 0, averagePrice |-> 0,
          lastExecution |-> NULL, createdAt |-> 0]

ASSUME OrdersAssumption == IsFiniteSet(Orders)
ASSUME TermsAssumption == terms \in [Orders -> Terms]
ASSUME IntervalAssumption == Interval \in Nat \ {0}
ASSUME FailureAssumption == MaxFailures \in Nat

VARIABLES
    orders,           \* the row of an order, NoRow before the insert
    history,          \* its execution records, in the order of their inserts
    timeLeft,         \* clock steps until its TimeoutTimestamp
    failures          \* errors of the database or an adapter and crashes so far

storeVars == <<orders, history, timeLeft, failures>>

InitStore ==
    /\ orders = [o \in Orders |-> NoRow]
    /\ history = [o \in Orders |-> <<>>]
    /\ timeLeft = [o \in Orders |-> terms[o].timeoutTicks]
    /\ failures = 0

Inserted == {o \in Orders : orders[o] # NoRow}

-----------------------------------------------------------------------------
(* Numbers.  Amounts are decimals in memory and whole in the DECIMAL(78,0) *)
(* columns; a decimal here is a fraction.  Prices and averages are whole   *)
(* multiples of a price unit, rounded down to it.                          *)

fraction(n, d) == [num |-> n, den |-> d]

\* PostgreSQL's rounding of n/d, half away from zero
rounded(n, d) == IF n >= 0 THEN (2 * n + d) \div (2 * d)
                 ELSE -((2 * (-n) + d) \div (2 * d))

\* n/d rounded down, for either sign of d
quotient(n, d) == IF d > 0 THEN n \div d ELSE (-n) \div (-d)

-----------------------------------------------------------------------------
(* Methods of an order that was read.                                      *)

IsTimedOut(o) == timeLeft[o] = 0

CanExecuteInterval_Always(row) == TRUE
CanExecuteInterval(row) == row.lastExecution \in {NULL, Interval}

GetRemainingAmount_Source(o, row) == terms[o].sourceAmount
GetRemainingAmount(o, row) == terms[o].sourceAmount - row.executedAmount

GetRemainingIntervals(o, executed) == terms[o].executionIntervals - executed

\* total and amount are numerators over one denominator.  The caller has added
\* amount to total before, so it counts twice in the divisor.
UpdateAveragePrice(average, total, amount, price) ==
    IF total = 0 THEN price
    ELSE IF total + amount = 0 THEN average
    ELSE quotient(average * total + price * amount, total + amount)

-----------------------------------------------------------------------------
(* Calls.                                                                  *)

\* The error path of any call.
Fails == /\ failures < MaxFailures
         /\ failures' = failures + 1

Succeeds == UNCHANGED failures

CreateOrder(o) ==
    /\ orders[o] = NoRow
    /\ orders' = [orders EXCEPT ![o] =
           [status |-> "pending", executedAmount |-> 0, averagePrice |-> 0,
            lastExecution |-> NULL, createdAt |-> Cardinality(Inserted) + 1]]
    /\ Succeeds
    /\ UNCHANGED <<history, timeLeft>>

\* All mutable columns are written, whatever the caller meant to change.
UpdateOrder(o, row) == orders' = [orders EXCEPT ![o] = row]

\* The listings of some orders by age, each with a copy of its row: there is
\* one, for no two rows have the same rank.
oldestFirst(some) ==
    {[i \in DOMAIN ids |-> [order |-> ids[i], row |-> orders[ids[i]]]] :
        ids \in {s \in [1..Cardinality(some) -> some] :
                    \A i, j \in DOMAIN s :
                        i < j => orders[s[i]].createdAt < orders[s[j]].createdAt}}

\* The orders the query lists.
executable_WithFinished(o) ==
    /\ orders[o].status # "none"
    /\ terms[o].timeoutHeight > currentHeight
    /\ CanExecuteInterval(orders[o])
executable(o) ==
    /\ orders[o].status \in {"pending", "executing"}
    /\ terms[o].timeoutHeight > currentHeight
    /\ CanExecuteInterval(orders[o])

GetExecutableOrders == oldestFirst({o \in Orders : executable(o)})

CreateExecutionRecord(o, record) ==
    history' = [history EXCEPT ![o] = Append(@, record)]

\* A row one clock step later.
older(row) == IF row.lastExecution \in 0..(Interval - 1)
              THEN [row EXCEPT !.lastExecution = @ + 1] ELSE row
=============================================================================
