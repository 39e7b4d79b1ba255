-------------------------- MODULE OrderBooksProofs --------------------------
(***************************************************************************)
(* Theorems about what the books of the order service claim: rows that     *)
(* were read long ago are written back by processor, worker, monitor and   *)
(* cancellations alike, and still no row claims more than was swapped for  *)
(* its order, or a completion that was not earned; and how often an order  *)
(* can be executed by all the requests there are for it.                   *)
(*                                                                         *)
(* The second half is about operation in which scans do not overlap: no    *)
(* order has two requests then (OneAtATime), so that intervals and pace    *)
(* are respected; and when nothing else comes between read and write       *)
(* either (Calm), row, records and swaps agree.                            *)
(***************************************************************************)
EXTENDS OrderServiceProofs, SumProofs

-----------------------------------------------------------------------------
(* Rounding.                                                               *)

LEMMA DivBounds ==
    ASSUME NEW k \in Int, NEW e \in Nat \ {0}
    PROVE  /\ k \div e \in Int
           /\ e * (k \div e) <= k
           /\ k < e * (k \div e) + e
OBVIOUS

\* n/d lies within a half of its rounding, and on the near side of it
LEMMA RoundedBounds ==
    ASSUME NEW n \in Int, NEW d \in Nat \ {0}
    PROVE  /\ rounded(n, d) \in Int
           /\ 2 * d * rounded(n, d) - d <= 2 * n
           /\ 2 * n <= 2 * d * rounded(n, d) + d
           /\ n >= 0 => rounded(n, d) >= 0 /\ 2 * n < 2 * d * rounded(n, d) + d
           /\ n < 0 => rounded(n, d) <= 0 /\ 2 * d * rounded(n, d) - d < 2 * n
<1> DEFINE e == 2 * d
           k == IF n >= 0 THEN 2 * n + d ELSE 2 * (-n) + d
           q == k \div e
<1>1. e \in Nat \ {0} /\ k \in Nat
  OBVIOUS
<1>2. q \in Int /\ e * q <= k /\ k < e * q + e
  <2> HIDE DEF e, k
  <2> QED BY <1>1, DivBounds
<1>3. q >= 0
  <2> HIDE DEF e, k, q
  <2> QED BY <1>1, <1>2
<1>4. CASE n >= 0
  <2>1. rounded(n, d) = q
    BY <1>4 DEF rounded
  <2> HIDE DEF q
  <2> QED BY <1>2, <1>3, <1>4, <2>1
<1>5. CASE n < 0
  <2>1. rounded(n, d) = -q
    BY <1>5 DEF rounded
  <2> HIDE DEF q
  <2>2. 2 * d * (-q) = -(e * q)
    BY <1>2
  <2> QED BY <1>2, <1>3, <1>5, <2>1, <2>2
<1> QED BY <1>4, <1>5

\* Adding n/d to a whole amount adds at most n/d rounded, and nothing when that
\* is not positive.
LEMMA RoundedSum ==
    ASSUME NEW a \in Int, NEW n \in Int, NEW d \in Nat \ {0}
    PROVE  rounded(a * d + n, d) <= a + (IF rounded(n, d) > 0 THEN rounded(n, d) ELSE 0)
<1> DEFINE t == a * d + n
           p == rounded(t, d)
           q == rounded(n, d)
           s == p - a
<1>1. t \in Int
  OBVIOUS
<1>2. /\ p \in Int /\ 2 * d * p - d <= 2 * t
      /\ t < 0 => 2 * d * p - d < 2 * t
  <2> HIDE DEF t
  <2> QED BY <1>1, RoundedBounds
<1>3. /\ q \in Int /\ 2 * n <= 2 * d * q + d
      /\ n >= 0 => q >= 0 /\ 2 * n < 2 * d * q + d
  BY RoundedBounds
<1>4. s \in Int /\ 2 * d * p = 2 * d * s + 2 * (a * d)
  <2> HIDE DEF p
  <2> QED BY <1>2
<1>5. 2 * d * s - d <= 2 * n
  <2> HIDE DEF p, s
  <2>1. a * d \in Int
    OBVIOUS
  <2>2. 2 * t = 2 * (a * d) + 2 * n
    BY <2>1
  <2>3. 2 * d * s \in Int /\ 2 * d * p \in Int
    BY <1>2, <1>4
  <2> HIDE DEF t
  <2> QED BY <1>1, <1>2, <1>4, <2>1, <2>2, <2>3
<1> HIDE DEF s
<1>6. CASE n >= 0
  <2>1. 2 * d * s - d < 2 * d * q + d
    <3> HIDE DEF q
    <3> QED BY <1>3, <1>4, <1>5, <1>6
  <2>2. s <= q
    <3> HIDE DEF q
    <3> SUFFICES ASSUME s >= q + 1 PROVE FALSE
      BY <1>3, <1>4
    <3>1. d * s >= d * (q + 1)
      BY <1>3, <1>4
    <3> QED BY <1>3, <1>4, <2>1, <3>1
  <2>3. p <= a + q
    <3> HIDE DEF p, q
    <3> QED BY <1>2, <1>3, <2>2 DEF s
  <2> HIDE DEF p, q, t
  <2>4. p <= a + (IF q > 0 THEN q ELSE 0)
    BY <1>3, <1>6, <2>3
  <2> QED BY <2>4 DEF p, q, t
<1>7. CASE n < 0
  <2>1. s <= 0
    <3> SUFFICES ASSUME s >= 1 PROVE FALSE
      BY <1>4
    <3>1. d * s >= d
      BY <1>4
    <3> QED BY <1>4, <1>5, <1>7, <3>1
  <2>2. p <= a
    <3> HIDE DEF p
    <3> QED BY <1>2, <2>1 DEF s
  <2> HIDE DEF p, q, t
  <2>3. p <= a + (IF q > 0 THEN q ELSE 0)
    BY <1>2, <1>3, <2>2
  <2> QED BY <2>3 DEF p, q, t
<1> QED BY <1>6, <1>7

\* If a whole amount and n/d reach a whole target, so do the amount and n/d rounded.
LEMMA RoundedReaches ==
    ASSUME NEW a \in Int, NEW n \in Int, NEW d \in Nat \ {0}, NEW target \in Int,
           a * d + n >= target * d
    PROVE  a + (IF rounded(n, d) > 0 THEN rounded(n, d) ELSE 0) >= target
<1> DEFINE q == rounded(n, d)
           gap == target - a
<1>1. /\ q \in Int /\ 2 * n <= 2 * d * q + d
      /\ n >= 0 => q >= 0 /\ 2 * n < 2 * d * q + d
  BY RoundedBounds
<1>2. gap \in Int /\ n >= gap * d
  OBVIOUS
<1>3. gap <= (IF q > 0 THEN q ELSE 0)
  <2> HIDE DEF gap, q
  <2>1. CASE n >= 0
    <3> SUFFICES ASSUME gap >= q + 1 PROVE FALSE
      BY <1>1, <1>2, <2>1
    <3>1. gap * d >= (q + 1) * d
      BY <1>1, <1>2
    <3> QED BY <1>1, <1>2, <2>1, <3>1
  <2>2. CASE n < 0
    <3> SUFFICES ASSUME gap >= 1 PROVE FALSE
      BY <1>1, <1>2
    <3>1. gap * d >= d
      BY <1>2
    <3> QED BY <1>2, <2>2, <3>1
  <2> QED BY <2>1, <2>2
<1> HIDE DEF q
<1> QED BY <1>1, <1>3 DEF q

-----------------------------------------------------------------------------
(* The invariant: every row, stored or held by some goroutine, is backed.  *)

Earned(o) == \/ Len(history[o]) >= terms[o].executionIntervals
             \/ swapped[o] >= terms[o].sourceAmount

\* what a row of the order may claim
Backed(o, row) == /\ row.executedAmount <= swapped[o]
                  /\ row.status = "completed" => Earned(o)

AllBacked(items) == \A i \in DOMAIN items : Backed(items[i].order, items[i].row)

RowsAreBacked ==
    /\ \A o \in Orders : Backed(o, orders[o])
    /\ AllBacked(processor.batch)
    /\ AllBacked(monitor)
    /\ worker.pc \in {"record", "update"} => Backed(worker.request.order, worker.row)
    /\ \A c \in Cancellers :
          cancels[c].pc = "update" => Backed(cancels[c].order, cancels[c].row)
    /\ processor.pc = "complete" => Earned(Head(processor.batch).order)

BooksInv == IInv /\ RowsAreBacked

-----------------------------------------------------------------------------
(* What was swapped and recorded only grows, so that claims stay backed.   *)

LEMMA BooksGrow ==
    ASSUME IInv, [Next]_vars, NEW o \in Orders
    PROVE  /\ swapped[o] \in Nat /\ swapped'[o] \in Nat /\ swapped'[o] >= swapped[o]
           /\ Len(history[o]) \in Nat /\ Len(history'[o]) \in Nat
           /\ Len(history'[o]) >= Len(history[o])
<1>1. IInv'
  BY NextIInv
<1>2. /\ swapped[o] \in Nat /\ swapped'[o] \in Nat
      /\ history[o] \in Seq(Record)
      /\ Len(history[o]) \in Nat /\ Len(history'[o]) \in Nat
  BY <1>1, LenProperties DEF IInv, TypeOK, StoreTypeOK, WorkerTypeOK
<1>3. swapped'[o] >= swapped[o]
  <2>1. CASE executeInterval /\ ~failExecution
    <3>1. PICK whole \in Int : swapped' = [swapped EXCEPT ![worker.request.order] =
                                               @ + (IF whole > 0 THEN whole ELSE 0)]
      BY <2>1, ExecutionStep
    <3>2. swapped \in [Orders -> Nat]
      BY DEF IInv, TypeOK, WorkerTypeOK
    <3> QED BY <1>2, <3>1, <3>2
  <2>2. CASE UNCHANGED swapped
    BY <1>2, <2>2
  <2>3. (executeInterval /\ ~failExecution) \/ UNCHANGED swapped
    BY DEF Next, Handlers, Caller, Processor, Worker, Monitor, vars, engineVars, createOrder,
       cancelOrder, writeCancelled, ExecuteOrderManually, readHistory, enqueueCall,
       processExecutableOrders, processOrder, completeOrder, enqueue, takeRequest,
       executeInterval, failExecution, recordExecution, updateOrder, checkOrderTimeouts,
       expireOrder, Tick, Restart
  <2> QED BY <2>1, <2>2, <2>3
<1>4. Len(history'[o]) >= Len(history[o])
  <2>1. CASE UNCHANGED history
    BY <1>2, <2>1
  <2>2. CASE recordExecution
    <3>1. PICK p, record : UNCHANGED history \/ history' = [history EXCEPT ![p] = Append(@, record)]
      BY <2>2 DEF recordExecution, CreateExecutionRecord
    <3>2. Len(Append(history[o], record)) = Len(history[o]) + 1
      BY <1>2
    <3>3. history \in [Orders -> Seq(Record)]
      BY DEF IInv, TypeOK, StoreTypeOK
    <3> QED BY <1>2, <3>1, <3>2, <3>3
  <2>3. recordExecution \/ UNCHANGED history
    BY DEF Next, Handlers, Caller, Processor, Worker, Monitor, vars, storeVars, createOrder,
       CreateOrder, cancelOrder, writeCancelled, ExecuteOrderManually, readHistory,
       enqueueCall, processExecutableOrders, processOrder, completeOrder, enqueue,
       takeRequest, executeInterval, updateOrder, checkOrderTimeouts, expireOrder, Tick,
       Restart
  <2> QED BY <2>1, <2>2, <2>3
<1> QED BY <1>2, <1>3, <1>4

\* what a row may claim after the step
BackedNext(o, row) ==
    /\ row.executedAmount <= swapped'[o]
    /\ row.status = "completed" => \/ Len(history'[o]) >= terms[o].executionIntervals
                                   \/ swapped'[o] >= terms[o].sourceAmount

AllBackedNext(items) == \A i \in DOMAIN items : BackedNext(items[i].order, items[i].row)

LEMMA EarnedStays ==
    ASSUME IInv, [Next]_vars, NEW o \in Orders, Earned(o)
    PROVE  \/ Len(history'[o]) >= terms[o].executionIntervals
           \/ swapped'[o] >= terms[o].sourceAmount
<1>1. terms[o].executionIntervals \in Nat /\ terms[o].sourceAmount \in Nat
  BY TermsType
<1> QED BY <1>1, BooksGrow DEF Earned

LEMMA BackedStays ==
    ASSUME IInv, [Next]_vars, NEW o \in Orders,
           NEW row, row.executedAmount \in Int, Backed(o, row)
    PROVE  BackedNext(o, row)
<1>1. row.executedAmount <= swapped'[o]
  BY BooksGrow DEF Backed
<1>2. row.status = "completed" => Earned(o)
  BY DEF Backed
<1> QED BY <1>1, <1>2, EarnedStays DEF BackedNext

LEMMA ListStaysBacked ==
    ASSUME IInv, [Next]_vars, NEW items \in Seq(Item), AllBacked(items)
    PROVE  AllBackedNext(items)
<1> SUFFICES ASSUME NEW i \in DOMAIN items PROVE BackedNext(items[i].order, items[i].row)
  BY DEF AllBackedNext
<1>1. items[i].order \in Orders /\ items[i].row.executedAmount \in Int
  <2>1. items[i] \in Item
    BY ElementOfSeq, LenProperties
  <2> QED BY <2>1 DEF Item, Row
<1> QED BY <1>1, BackedStays DEF AllBacked

-----------------------------------------------------------------------------
(* Lists of backed rows.                                                   *)

LEMMA OlderClaims ==
    ASSUME NEW row \in Row \cup {NoRow}
    PROVE  /\ older(row).executedAmount = row.executedAmount
           /\ older(row).status = row.status
BY DEF older, Row, NoRow

LEMMA ListingIsBacked ==
    ASSUME \A o \in Orders : Backed(o, orders[o]),
           NEW some \in SUBSET Orders, IsFiniteSet(some), NEW items \in oldestFirst(some)
    PROVE  AllBacked(items)
<1>1. Cardinality(some) \in Nat
  BY FS_CardinalityType
<1> PICK ids \in [1..Cardinality(some) -> some] :
        items = [i \in DOMAIN ids |-> [order |-> ids[i], row |-> orders[ids[i]]]]
  BY DEF oldestFirst
<1> QED BY <1>1 DEF AllBacked

LEMMA HeadAndTailBacked ==
    ASSUME NEW items \in Seq(Item), items # <<>>, AllBacked(items)
    PROVE  /\ Backed(Head(items).order, Head(items).row)
           /\ AllBacked(Tail(items))
<1>1. /\ Tail(items) \in Seq(Item) /\ Len(Tail(items)) = Len(items) - 1
      /\ \A i \in 1..Len(Tail(items)) : Tail(items)[i] = items[i + 1]
  BY HeadTailProperties
<1>2. /\ Len(items) \in Nat \ {0} /\ DOMAIN items = 1..Len(items)
      /\ DOMAIN Tail(items) = 1..Len(Tail(items))
  BY <1>1, EmptySeq, LenProperties
<1>3. Head(items) = items[1] /\ 1 \in DOMAIN items
  BY <1>2
<1>4. \A i \in DOMAIN Tail(items) : i + 1 \in DOMAIN items /\ Tail(items)[i] = items[i + 1]
  BY <1>1, <1>2
<1> QED BY <1>3, <1>4 DEF AllBacked

LEMMA AgedIsBacked ==
    ASSUME NEW items \in Seq(Item), AllBacked(items)
    PROVE  AllBacked(aged(items))
<1> SUFFICES ASSUME NEW i \in DOMAIN items
             PROVE  Backed(aged(items)[i].order, aged(items)[i].row)
  BY DEF AllBacked, aged
<1>1. items[i] \in Item
  BY ElementOfSeq, LenProperties
<1>2. aged(items)[i] = [items[i] EXCEPT !.row = older(items[i].row)]
  BY DEF aged
<1>3. aged(items)[i].order = items[i].order /\ aged(items)[i].row = older(items[i].row)
  BY <1>1, <1>2 DEF Item
<1> QED BY <1>1, <1>3, OlderClaims DEF Item, Backed, AllBacked

-----------------------------------------------------------------------------
(* Every variable that holds rows.                                         *)

\* A row of which only the status was changed.
LEMMA RewrittenIsBacked ==
    ASSUME NEW o, NEW row \in Row, NEW status \in Status, Backed(o, row),
           status = "completed" => Earned(o)
    PROVE  Backed(o, [row EXCEPT !.status = status])
BY DEF Backed, Row

LEMMA StoredStayBacked ==
    ASSUME BooksInv, Next, NEW o \in Orders
    PROVE  BackedNext(o, orders'[o])
<1> USE DEF BooksInv, IInv, TypeOK
<1>1. orders[o] \in Row \cup {NoRow} /\ orders'[o] \in Row \cup {NoRow}
         /\ orders \in [Orders -> Row \cup {NoRow}]
  BY NextIInv DEF StoreTypeOK
<1>2. orders'[o].executedAmount \in Int
  BY <1>1 DEF Row, NoRow
<1>3. Backed(o, orders[o])
  BY DEF RowsAreBacked
<1>4. ASSUME NEW p, NEW row, UpdateOrder(p, row), Backed(p, row)
      PROVE  Backed(o, orders'[o])
  BY <1>1, <1>3, <1>4 DEF UpdateOrder
<1>5. Backed(o, orders'[o])
  <2>1. ASSUME NEW p \in Orders, createOrder(p) PROVE Backed(o, orders'[o])
    <3>1. \/ orders'[o] = orders[o]
          \/ /\ orders'[o].executedAmount = 0
             /\ orders'[o].status = "pending"
      BY <1>1, <2>1 DEF createOrder, CreateOrder
    <3>2. swapped[o] \in Nat
      BY DEF WorkerTypeOK
    <3> QED BY <1>3, <3>1, <3>2 DEF Backed
  <2>2. ASSUME NEW c \in Cancellers, writeCancelled(c) PROVE Backed(o, orders'[o])
    <3>1. cancels[c].row \in Row /\ Backed(cancels[c].order, cancels[c].row)
      BY <2>2 DEF writeCancelled, HandlersTypeOK, CancelType, idleCancel, RowsAreBacked
    <3>2. Backed(cancels[c].order, [cancels[c].row EXCEPT !.status = "cancelled"])
      BY <3>1, RewrittenIsBacked DEF Status
    <3> QED BY <1>3, <1>4, <2>2, <3>2 DEF writeCancelled
  <2>3. CASE expireOrder
    <3>1. Head(monitor) \in Item /\ Backed(Head(monitor).order, Head(monitor).row)
      BY <2>3, HeadAndTail, HeadAndTailBacked DEF expireOrder, HandlersTypeOK, RowsAreBacked
    <3>2. Backed(Head(monitor).order, [Head(monitor).row EXCEPT !.status = "expired"])
      BY <3>1, RewrittenIsBacked DEF Status, Item
    <3> QED BY <1>3, <1>4, <2>3, <3>2 DEF expireOrder
  <2>4. CASE completeOrder
    <3> DEFINE item == Head(processor.batch)
    <3>1. processor.batch \in Seq(Item) /\ processor.batch # <<>>
      BY <2>4 DEF completeOrder, ProcessorTypeOK
    <3>2. item \in Item /\ Backed(item.order, item.row) /\ Earned(item.order)
      BY <2>4, <3>1, HeadAndTail, HeadAndTailBacked DEF completeOrder, RowsAreBacked
    <3>3. Backed(item.order, [item.row EXCEPT !.status = "completed"])
      BY <3>2, RewrittenIsBacked DEF Status, Item
    <3> QED BY <1>3, <1>4, <2>4, <3>3 DEF completeOrder
  <2>5. CASE updateOrder
    <3>1. Backed(worker.request.order, worker.row)
      BY <2>5 DEF updateOrder, RowsAreBacked
    <3> QED BY <1>3, <1>4, <2>5, <3>1 DEF updateOrder
  <2>6. CASE Tick
    BY <1>1, <1>3, <2>6, OlderClaims DEF Tick, Backed
  <2>7. CASE UNCHANGED orders
    BY <1>3, <2>7
  <2> QED BY <2>1, <2>2, <2>3, <2>4, <2>5, <2>6, <2>7 DEF Next, Handlers, Caller, Processor,
         Worker, Monitor, storeVars, cancelOrder, ExecuteOrderManually, readHistory,
         enqueueCall, processExecutableOrders, processOrder, enqueue, takeRequest,
         executeInterval, recordExecution, checkOrderTimeouts, Restart
<1> QED BY <1>2, <1>5, BackedStays

LEMMA BatchStaysBacked ==
    ASSUME BooksInv, Next
    PROVE  /\ AllBackedNext(processor'.batch)
           /\ processor'.pc = "complete" =>
                  LET o == Head(processor'.batch).order IN
                  \/ Len(history'[o]) >= terms[o].executionIntervals
                  \/ swapped'[o] >= terms[o].sourceAmount
<1> USE DEF BooksInv, IInv, TypeOK
<1>1. /\ processor.batch \in Seq(Item) /\ processor'.batch \in Seq(Item)
      /\ AllBacked(processor.batch) /\ ProcessorTypeOK'
  BY NextIInv DEF ProcessorTypeOK, RowsAreBacked
<1>2. AllBacked(<<>>)
  BY DEF AllBacked
<1>3. /\ AllBacked(processor'.batch)
      /\ processor'.pc = "complete" => Earned(Head(processor'.batch).order)
  <2>1. CASE UNCHANGED processor
    BY <1>1, <2>1 DEF RowsAreBacked
  <2>2. CASE nextOrder /\ processor.batch # <<>>
    <3>1. processor'.batch \in {<<>>, Tail(processor.batch)} /\ processor'.pc # "complete"
      BY <2>2 DEF nextOrder, idleProcessor
    <3> QED BY <1>1, <1>2, <2>2, <3>1, HeadAndTailBacked
  <2>3. CASE processExecutableOrders
    <3>1. PICK due \in GetExecutableOrders : processor' = [pc |-> "order", batch |-> due]
      BY <2>3 DEF processExecutableOrders
    <3>2. AllBacked(due)
      BY OrdersAssumption, FS_Subset, ListingIsBacked DEF GetExecutableOrders, RowsAreBacked
    <3> QED BY <3>1, <3>2
  <2>4. CASE processOrder /\ ~nextOrder
    <3>1. /\ processor'.batch = processor.batch
          /\ processor'.pc = "complete" =>
                 allExecuted(Head(processor.batch).order,
                             Len(history[Head(processor.batch).order]))
      BY <2>4 DEF processOrder, ProcessorTypeOK
    <3> QED BY <1>1, <3>1 DEF allExecuted, Earned
  <2>5. CASE Tick
    <3>1. processor'.batch = aged(processor.batch) /\ processor'.pc = processor.pc
      BY <2>5 DEF Tick, ProcessorTypeOK
    <3>2. AllBacked(processor'.batch)
      BY <1>1, <3>1, AgedIsBacked
    <3>3. processor.pc = "complete" =>
              Head(processor'.batch).order = Head(processor.batch).order
      BY <1>1, <3>1, AgedType DEF ProcessorTypeOK
    <3> QED BY <3>1, <3>2, <3>3 DEF RowsAreBacked
  <2>6. CASE Restart
    BY <1>2, <2>6 DEF Restart, idleProcessor
  <2>7. (processOrder \/ completeOrder \/ enqueue) => processor.batch # <<>>
    BY DEF processOrder, completeOrder, enqueue, ProcessorTypeOK
  <2> QED BY <2>1, <2>2, <2>3, <2>4, <2>5, <2>6, <2>7 DEF Next, Handlers, Caller, Processor,
         Worker, Monitor, engineVars, createOrder, cancelOrder, writeCancelled,
         ExecuteOrderManually, readHistory, enqueueCall, completeOrder, enqueue,
         takeRequest, executeInterval, recordExecution, updateOrder, checkOrderTimeouts,
         expireOrder
<1>4. AllBackedNext(processor'.batch)
  BY <1>1, <1>3, ListStaysBacked
<1>5. processor'.pc = "complete" => Head(processor'.batch).order \in Orders
  <2> SUFFICES ASSUME processor'.pc = "complete"
               PROVE  Head(processor'.batch) \in Item
    BY DEF Item
  <2> QED BY <1>1, HeadAndTail DEF ProcessorTypeOK
<1> QED BY <1>3, <1>4, <1>5, EarnedStays

LEMMA MonitorStaysBacked ==
    ASSUME BooksInv, Next
    PROVE  AllBackedNext(monitor')
<1> USE DEF BooksInv, IInv, TypeOK
<1>1. monitor \in Seq(Item) /\ monitor' \in Seq(Item) /\ AllBacked(monitor)
  BY NextIInv DEF HandlersTypeOK, RowsAreBacked
<1>2. AllBacked(monitor')
  <2>1. CASE UNCHANGED monitor
    BY <1>1, <2>1
  <2>2. CASE checkOrderTimeouts
    BY <2>2, OrdersAssumption, FS_Subset, ListingIsBacked DEF checkOrderTimeouts, RowsAreBacked
  <2>3. CASE expireOrder
    BY <1>1, <2>3, HeadAndTailBacked DEF expireOrder
  <2>4. CASE Tick
    BY <1>1, <2>4, AgedIsBacked DEF Tick
  <2>5. CASE Restart
    BY <2>5 DEF Restart, AllBacked
  <2> QED BY <2>1, <2>2, <2>3, <2>4, <2>5 DEF Next, Handlers, Monitor, serviceVars,
         createOrder, cancelOrder, writeCancelled
<1> QED BY <1>1, <1>2, ListStaysBacked

LEMMA CancelsStayBacked ==
    ASSUME BooksInv, Next, NEW c \in Cancellers, cancels'[c].pc = "update"
    PROVE  BackedNext(cancels'[c].order, cancels'[c].row)
<1> USE DEF BooksInv, IInv, TypeOK
<1>1. cancels'[c].order \in Orders /\ cancels'[c].row \in Row
  BY NextIInv DEF HandlersTypeOK, CancelType, idleCancel
<1>2. Backed(cancels'[c].order, cancels'[c].row)
  <2>1. CASE cancels'[c] = cancels[c]
    BY <2>1 DEF RowsAreBacked
  <2>2. ASSUME NEW d \in Cancellers, NEW o \in Orders, cancelOrder(d, o),
               cancels'[c] # cancels[c]
        PROVE  Backed(cancels'[c].order, cancels'[c].row)
    <3>1. cancels'[c] = [pc |-> "update", order |-> o, row |-> orders[o]]
      BY <2>2 DEF cancelOrder, HandlersTypeOK
    <3> QED BY <3>1 DEF RowsAreBacked
  <2>3. CASE Tick
    <3>1. /\ cancels[c] \in [pc : {"update"}, order : Orders, row : Row]
          /\ cancels'[c] = [cancels[c] EXCEPT !.row = older(cancels[c].row)]
      BY <2>3 DEF Tick, HandlersTypeOK, CancelType, idleCancel
    <3> QED BY <3>1, OlderClaims DEF RowsAreBacked, Backed
  <2>4. ASSUME NEW d \in Cancellers, writeCancelled(d) PROVE cancels'[c] = cancels[c]
    BY <2>4 DEF writeCancelled, HandlersTypeOK, idleCancel
  <2>5. ~Restart
    BY DEF Restart, idleCancel
  <2>6. UNCHANGED cancels => cancels'[c] = cancels[c]
    OBVIOUS
  <2> QED BY <2>1, <2>2, <2>3, <2>4, <2>5, <2>6 DEF Next, Handlers, Monitor, serviceVars,
         createOrder, checkOrderTimeouts, expireOrder
<1> QED BY <1>1, <1>2, BackedStays DEF Row

\* The execution: the row's claim grows by no more than the swap, and a row it
\* completes has its amount swapped.
LEMMA ExecutionIsBacked ==
    ASSUME BooksInv, executeInterval, ~failExecution
    PROVE  BackedNext(worker'.request.order, worker'.row)
<1> USE DEF BooksInv, IInv, TypeOK
<1> DEFINE r == worker.request
           o == r.order
<1>1. r \in Request /\ o \in Orders
  BY ExecutionStep DEF Request
<1>2. PICK amount \in [num : Int, den : Nat \ {0}], price \in Nat :
          LET whole == rounded(amount.num, amount.den) IN
          /\ whole \in Int
          /\ worker' = [pc |-> "record", request |-> r, amount |-> whole, price |-> price,
                        row |-> afterExecution(r, orders[o], amount, price)]
          /\ swapped' = [swapped EXCEPT ![o] = @ + (IF whole > 0 THEN whole ELSE 0)]
  BY ExecutionStep
<1> DEFINE row == orders[o]
           a == row.executedAmount
           n == amount.num
           d == amount.den
           gain == IF rounded(n, d) > 0 THEN rounded(n, d) ELSE 0
<1>3. /\ row \in Row \cup {NoRow} /\ a \in Int /\ a <= swapped[o]
      /\ n \in Int /\ d \in Nat \ {0}
      /\ swapped[o] \in Nat /\ terms[o].sourceAmount \in Nat
  BY <1>1, TermsType DEF StoreTypeOK, WorkerTypeOK, Row, NoRow, RowsAreBacked, Backed
<1>4. swapped'[o] = swapped[o] + gain /\ gain \in Nat
  BY <1>1, <1>2 DEF WorkerTypeOK
<1>5. worker'.request.order = o /\ worker'.row = afterExecution(r, row, amount, price)
  BY <1>2
<1>6. /\ worker'.row.executedAmount = rounded(a * d + n, d)
      /\ worker'.row.status = "completed" => a * d + n >= terms[o].sourceAmount * d
  BY <1>3, <1>5 DEF afterExecution, Row, NoRow
<1> HIDE DEF row, a, n, d
<1>7. rounded(a * d + n, d) \in Int /\ rounded(a * d + n, d) <= a + gain
  <2>1. a * d + n \in Int
    BY <1>3
  <2> QED BY <1>3, <2>1, RoundedSum, RoundedType
<1>8. a * d + n >= terms[o].sourceAmount * d => a + gain >= terms[o].sourceAmount
  BY <1>3, RoundedReaches
<1> HIDE DEF gain
<1>9. a + gain <= swapped'[o]
  BY <1>3, <1>4
<1>10. swapped'[o] \in Nat
  BY <1>3, <1>4
<1>11. worker'.row.executedAmount <= swapped'[o]
  BY <1>3, <1>4, <1>6, <1>7, <1>9, <1>10
<1>12. worker'.row.status = "completed" => swapped'[o] >= terms[o].sourceAmount
  BY <1>3, <1>4, <1>6, <1>8, <1>9, <1>10
<1> QED BY <1>5, <1>11, <1>12 DEF BackedNext

LEMMA WorkerStaysBacked ==
    ASSUME BooksInv, Next, worker'.pc \in {"record", "update"}
    PROVE  BackedNext(worker'.request.order, worker'.row)
<1> USE DEF BooksInv, IInv, TypeOK
<1>1. worker'.request.order \in Orders /\ worker'.row.executedAmount \in Int
  BY NextIInv DEF WorkerTypeOK, idleWorker, Request, Row
<1>2. CASE executeInterval /\ ~failExecution
  BY <1>2, ExecutionIsBacked
<1>3. CASE ~(executeInterval /\ ~failExecution)
  <2>1. Backed(worker'.request.order, worker'.row)
    <3>1. CASE UNCHANGED worker
      BY <3>1 DEF RowsAreBacked
    <3>2. CASE recordExecution
      BY <3>2 DEF recordExecution, RowsAreBacked, WorkerTypeOK, idleWorker
    <3>3. CASE Tick
      <4>1. /\ worker.pc \in {"record", "update"} /\ worker.row \in Row
            /\ worker'.request = worker.request /\ worker'.row = older(worker.row)
        BY <3>3 DEF Tick, WorkerTypeOK, idleWorker
      <4> QED BY <4>1, OlderClaims DEF RowsAreBacked, Backed
    <3>4. ~takeRequest /\ ~updateOrder /\ ~failExecution /\ ~Restart
      BY DEF takeRequest, updateOrder, failExecution, Restart, idleWorker
    <3> QED BY <1>3, <3>1, <3>2, <3>3, <3>4 DEF Next, Handlers, Caller, Processor, Worker,
           Monitor, engineVars, createOrder, cancelOrder, writeCancelled,
           ExecuteOrderManually, readHistory, enqueueCall, processExecutableOrders,
           processOrder, completeOrder, enqueue, executeInterval, checkOrderTimeouts,
           expireOrder
  <2> QED BY <1>1, <2>1, BackedStays
<1> QED BY <1>2, <1>3

-----------------------------------------------------------------------------

LEMMA InitBooksInv == Init => BooksInv
<1> SUFFICES ASSUME Init PROVE RowsAreBacked
  BY InitIInv DEF BooksInv
<1> QED BY DEF Init, InitStore, InitEngine, RowsAreBacked, AllBacked, Backed, NoRow,
       idleProcessor, idleWorker, idleCancel

LEMMA NextBooksInv == BooksInv /\ [Next]_vars => BooksInv'
<1>1. ASSUME BooksInv, Next PROVE RowsAreBacked'
  BY <1>1, StoredStayBacked, BatchStaysBacked, MonitorStaysBacked, WorkerStaysBacked,
     CancelsStayBacked DEF RowsAreBacked, AllBacked, AllBackedNext, Backed, BackedNext, Earned
<1>2. ASSUME BooksInv, UNCHANGED vars PROVE RowsAreBacked'
  BY <1>2 DEF BooksInv, RowsAreBacked, AllBacked, Backed, Earned, vars, storeVars,
     engineVars, serviceVars
<1> QED BY <1>1, <1>2, NextIInv DEF BooksInv

LEMMA AlwaysBooksInv == Spec => []BooksInv
BY InitBooksInv, NextBooksInv, PTL DEF Spec

\* However stale the rows that processor, worker, monitor and cancellations write
\* back, an order is completed only after its number of intervals was recorded or
\* its amount was swapped (engine.go processOrder and executeInterval).
THEOREM CompletedIsEarnedHolds == Spec => []CompletedIsEarned
<1>1. BooksInv => CompletedIsEarned
  BY DEF BooksInv, RowsAreBacked, Backed, Earned, CompletedIsEarned
<1> QED BY <1>1, AlwaysBooksInv, PTL

-----------------------------------------------------------------------------
(* The records: what they add up to, with what the worker is about to      *)
(* record, was swapped.                                                    *)

\* swapped, and not recorded yet
unrecorded(o) ==
    IF worker.pc = "record" /\ worker.request.order = o /\ worker.amount > 0
    THEN worker.amount ELSE 0

RecordsAreBacked == \A o \in Orders : recorded(o) + unrecorded(o) <= swapped[o]

LEMMA RecordedType ==
    ASSUME NEW o \in Orders, history[o] \in Seq(Record)
    PROVE  recorded(o) \in Int
<1> DEFINE h == history[o]
           f == [i \in DOMAIN h |-> h[i].amount]
<1>1. DOMAIN h = 1..Len(h) /\ IsFiniteSet(1..Len(h))
  BY LenProperties, FS_Interval
<1>2. \A i \in DOMAIN h : f[i] \in Int
  <2>1. \A i \in DOMAIN h : h[i] \in Record
    BY ElementOfSeq, LenProperties
  <2> QED BY <2>1 DEF Record
<1>3. recorded(o) = SumFunctionOnSet(f, 1..Len(h)) /\ DOMAIN f = DOMAIN h
  BY <1>1 DEF recorded, SumFunction
<1> HIDE DEF f, h
<1> QED BY <1>1, <1>2, <1>3, SumOfIntegers

\* One more record adds its amount.
LEMMA RecordAdds ==
    ASSUME NEW o \in Orders, history[o] \in Seq(Record), NEW record \in Record,
           history'[o] = Append(history[o], record)
    PROVE  recorded(o)' = recorded(o) + record.amount
<1> DEFINE h == history[o]
           k == history'[o]
           n == Len(h)
           f == [i \in DOMAIN h |-> h[i].amount]
           g == [i \in DOMAIN k |-> k[i].amount]
<1>1. /\ DOMAIN h = 1..n /\ n \in Nat
      /\ DOMAIN k = 1..(n + 1) /\ k[n + 1] = record /\ k \in Seq(Record)
      /\ \A i \in 1..n : k[i] = h[i] /\ i \in 1..(n + 1)
  <2>1. /\ Append(h, record) \in Seq(Record) /\ Len(Append(h, record)) = Len(h) + 1
        /\ \A i \in 1..Len(h) : Append(h, record)[i] = h[i]
        /\ Append(h, record)[Len(h) + 1] = record
    BY AppendProperties
  <2>2. DOMAIN h = 1..n /\ n \in Nat
    BY LenProperties
  <2>3. DOMAIN Append(h, record) = 1..(n + 1)
    BY <2>1, LenProperties
  <2>4. \A i \in 1..n : i \in 1..(n + 1)
    BY <2>2
  <2>5. k = Append(h, record)
    OBVIOUS
  <2> HIDE DEF h, k
  <2> QED BY <2>1, <2>2, <2>3, <2>4, <2>5
<1>2. \A i \in 1..(n + 1) : k[i].amount \in Int
  <2>1. \A i \in DOMAIN k : k[i] \in Record
    <3> HIDE DEF k
    <3> QED BY <1>1, ElementOfSeq, LenProperties
  <2> HIDE DEF k
  <2> QED BY <1>1, <2>1 DEF Record
<1>3. /\ recorded(o) = SumFunctionOnSet(f, 1..n)
      /\ recorded(o)' = SumFunctionOnSet(g, 1..(n + 1))
  <2>1. recorded(o) = SumFunctionOnSet(f, DOMAIN h)
    BY DEF recorded, SumFunction
  <2>2. recorded(o)' = SumFunctionOnSet(g, DOMAIN k)
    BY DEF recorded, SumFunction
  <2> QED BY <1>1, <2>1, <2>2
<1>4. /\ \A i \in 1..(n + 1) : g[i] \in Int
      /\ \A i \in 1..n : g[i] = f[i]
      /\ g[n + 1] = record.amount
  <2> HIDE DEF h, k, n
  <2>1. n + 1 \in 1..(n + 1)
    BY <1>1
  <2> QED BY <1>1, <1>2, <2>1
<1> HIDE DEF f, g, n
<1>5. SumFunctionOnSet(g, 1..(n + 1)) = SumFunctionOnSet(f, 1..n) + g[n + 1]
  BY <1>1, <1>4, SumOfAppended
<1> QED BY <1>3, <1>4, <1>5

LEMMA RecordsStayBacked ==
    ASSUME IInv, [Next]_vars, RecordsAreBacked
    PROVE  RecordsAreBacked'
<1> SUFFICES ASSUME NEW o \in Orders
             PROVE  recorded(o)' + unrecorded(o)' <= swapped'[o]
  BY DEF RecordsAreBacked
<1>1. IInv'
  BY NextIInv
<1>2. /\ StoreTypeOK /\ WorkerTypeOK /\ StoreTypeOK' /\ WorkerTypeOK'
      /\ history[o] \in Seq(Record) /\ history'[o] \in Seq(Record)
      /\ swapped[o] \in Nat /\ swapped'[o] \in Nat
  BY <1>1 DEF IInv, TypeOK, StoreTypeOK, WorkerTypeOK
<1>3. /\ recorded(o) \in Int
      /\ recorded(o) + unrecorded(o) <= swapped[o]
  BY <1>2, RecordedType DEF RecordsAreBacked
<1>4. unrecorded(o) \in Nat /\ unrecorded(o)' \in Nat
  BY <1>2 DEF unrecorded, WorkerTypeOK, idleWorker
<1>5. CASE executeInterval /\ ~failExecution
  <2>1. worker.pc = "get" /\ history' = history
    BY <1>5, ExecutionStep DEF executeInterval
  <2>2. PICK whole \in Int :
            /\ worker'.pc = "record" /\ worker'.request = worker.request
            /\ worker'.amount = whole
            /\ swapped' = [swapped EXCEPT ![worker.request.order] =
                               @ + (IF whole > 0 THEN whole ELSE 0)]
    BY <1>5, ExecutionStep
  <2>3. recorded(o)' = recorded(o) /\ unrecorded(o) = 0
    BY <2>1 DEF recorded, unrecorded
  <2>4. swapped'[o] = swapped[o] + unrecorded(o)'
    BY <1>2, <2>2 DEF unrecorded, WorkerTypeOK
  <2> QED BY <1>2, <1>3, <1>4, <2>3, <2>4
<1>6. CASE recordExecution
  <2> DEFINE record == [intervalNumber |-> worker.request.intervalNumber,
                        amount |-> worker.amount, price |-> worker.price]
  <2>1. /\ worker.pc = "record" /\ unrecorded(o)' = 0 /\ swapped' = swapped
        /\ record \in Record /\ worker.amount \in Int
    BY <1>2, <1>6 DEF recordExecution, unrecorded, WorkerTypeOK, idleWorker, Record, Request
  <2>2. CASE history'[o] = history[o]
    <3>1. recorded(o)' = recorded(o)
      BY <2>2 DEF recorded
    <3> QED BY <1>2, <1>3, <1>4, <2>1, <3>1
  <2>3. CASE worker.request.order = o /\ history'[o] = Append(history[o], record)
    <3>1. recorded(o)' = recorded(o) + record.amount
      BY <1>2, <2>1, <2>3, RecordAdds
    <3>2. record.amount = worker.amount /\ worker.amount <= unrecorded(o)
      BY <2>1, <2>3 DEF unrecorded
    <3> QED BY <1>2, <1>3, <1>4, <2>1, <3>1, <3>2
  <2> QED BY <1>2, <1>6, <2>2, <2>3 DEF recordExecution, CreateExecutionRecord, StoreTypeOK
<1>7. CASE UNCHANGED <<history, swapped>> /\ unrecorded(o)' \in {0, unrecorded(o)}
  <2>1. recorded(o)' = recorded(o)
    BY <1>7 DEF recorded
  <2> QED BY <1>2, <1>3, <1>4, <1>7, <2>1
<1>8. \/ executeInterval /\ ~failExecution
      \/ recordExecution
      \/ UNCHANGED <<history, swapped>> /\ worker'.pc # "record"
      \/ UNCHANGED <<history, swapped, worker>>
      \/ Tick
  <2>1. CASE Handlers
    <3>1. ASSUME NEW p \in Orders, createOrder(p) PROVE UNCHANGED <<history, swapped, worker>>
      BY <3>1 DEF createOrder, CreateOrder, engineVars
    <3>2. ASSUME NEW c \in Cancellers, (\E p \in Orders : cancelOrder(c, p)) \/ writeCancelled(c)
          PROVE  UNCHANGED <<history, swapped, worker>>
      BY <3>2 DEF cancelOrder, writeCancelled, storeVars, engineVars
    <3>3. ASSUME NEW c \in Callers, Caller(c) PROVE UNCHANGED <<history, swapped, worker>>
      BY <3>3 DEF Caller, ExecuteOrderManually, readHistory, enqueueCall, storeVars
    <3> QED BY <2>1, <3>1, <3>2, <3>3 DEF Handlers
  <2>2. CASE Processor \/ Monitor \/ UNCHANGED vars
    <3>1. Processor => UNCHANGED <<history, swapped, worker>>
      BY DEF Processor, storeVars, processExecutableOrders, processOrder, completeOrder, enqueue
    <3>2. Monitor => UNCHANGED <<history, swapped, worker>>
      BY DEF Monitor, storeVars, engineVars, checkOrderTimeouts, expireOrder
    <3>3. UNCHANGED vars => UNCHANGED <<history, swapped, worker>>
      BY DEF vars, storeVars, engineVars
    <3> QED BY <2>2, <3>1, <3>2, <3>3
  <2>3. CASE takeRequest \/ (executeInterval /\ failExecution) \/ updateOrder
    <3>1. executeInterval => UNCHANGED history
      BY DEF executeInterval
    <3>2. failExecution => UNCHANGED swapped /\ worker'.pc # "record"
      BY DEF failExecution, idleWorker
    <3>3. takeRequest => UNCHANGED <<history, swapped>> /\ worker'.pc # "record"
      BY DEF takeRequest, storeVars
    <3>4. updateOrder => UNCHANGED <<history, swapped>> /\ worker'.pc # "record"
      BY DEF updateOrder, idleWorker
    <3> QED BY <2>3, <3>1, <3>2, <3>3, <3>4
  <2>4. CASE Restart
    BY <2>4 DEF Restart, idleWorker
  <2> QED BY <2>1, <2>2, <2>3, <2>4 DEF Next, Worker
<1>9. CASE Tick
  <2>1. unrecorded(o)' = unrecorded(o)
    BY <1>2, <1>9 DEF Tick, unrecorded, WorkerTypeOK, idleWorker
  <2> QED BY <1>7, <1>9, <2>1 DEF Tick
<1>10. worker'.pc # "record" => unrecorded(o)' = 0
  BY DEF unrecorded
<1>11. worker' = worker => unrecorded(o)' = unrecorded(o)
  BY DEF unrecorded
<1> QED BY <1>5, <1>6, <1>7, <1>8, <1>9, <1>10, <1>11

LEMMA InitRecordsAreBacked == Init => RecordsAreBacked
<1> SUFFICES ASSUME Init, NEW o \in Orders PROVE recorded(o) + unrecorded(o) <= swapped[o]
  BY DEF RecordsAreBacked
<1>1. history[o] = <<>> /\ unrecorded(o) = 0 /\ swapped[o] = 0
  BY DEF Init, InitStore, InitEngine, idleWorker, unrecorded
<1>2. recorded(o) = 0
  <2> DEFINE f == [i \in DOMAIN history[o] |-> history[o][i].amount]
  <2>1. DOMAIN f = {} /\ recorded(o) = SumFunctionOnSet(f, DOMAIN f)
    BY <1>1 DEF recorded, SumFunction
  <2> HIDE DEF f
  <2> QED BY <2>1, SumOfNothing
<1> QED BY <1>1, <1>2

\* However stale the rows that are written back, and whichever records fail to be
\* written, neither the row nor the records of an order claim more than was
\* swapped for it (engine.go executeInterval, routes.go cancelOrder).
THEOREM BooksAreCoveredHolds == Spec => []BooksAreCovered
<1>1. BooksInv => \A o \in Orders : orders[o].executedAmount <= swapped[o]
  BY DEF BooksInv, RowsAreBacked, Backed
<1>2. IInv /\ RecordsAreBacked => \A o \in Orders : recorded(o) <= swapped[o]
  <2> SUFFICES ASSUME IInv, RecordsAreBacked, NEW o \in Orders
               PROVE  recorded(o) <= swapped[o]
    OBVIOUS
  <2>1. /\ WorkerTypeOK /\ history[o] \in Seq(Record) /\ swapped[o] \in Nat
        /\ recorded(o) + unrecorded(o) <= swapped[o]
    BY DEF IInv, TypeOK, StoreTypeOK, WorkerTypeOK, RecordsAreBacked
  <2>2. unrecorded(o) \in Nat /\ recorded(o) \in Int
    BY <2>1, RecordedType DEF unrecorded, WorkerTypeOK, idleWorker
  <2> QED BY <2>1, <2>2
<1>3. BooksInv /\ RecordsAreBacked => BooksAreCovered
  BY <1>1, <1>2 DEF BooksAreCovered, BooksInv
<1>4. IInv /\ RecordsAreBacked /\ [Next]_vars => RecordsAreBacked'
  BY RecordsStayBacked
<1> QED BY <1>3, <1>4, InitRecordsAreBacked, AlwaysBooksInv, AlwaysIInv, PTL DEF Spec

-----------------------------------------------------------------------------
(* How often an order can be executed: the requests that wait or are being *)
(* served while its last interval is recorded each execute it once more.   *)

\* requests for the order: in the queue,
Queued(o) == {i \in DOMAIN queue : queue[i].order = o}

\* held by callers that have not queued them yet,
Asking(o) == {c \in Callers : calls[c].pc = "enqueue" /\ calls[c].request.order = o}

one(holds) == IF holds THEN 1 ELSE 0

\* held by the processor, and by the worker that has not recorded them yet
AtProcessor(o) == one(processor.pc = "enqueue" /\ processor.request.order = o)
AtWorker(o) == one(worker.pc \in {"get", "record"} /\ worker.request.order = o)

Pending(o) == Cardinality(Queued(o)) + Cardinality(Asking(o)) + AtProcessor(o) + AtWorker(o)

Limit(o) == terms[o].executionIntervals + QueueCap + 1 + Cardinality(Callers)

RequestsAreCounted == \A o \in Orders : Len(history[o]) + Pending(o) <= Limit(o)

ExecutionsInv == IInv /\ RequestsAreCounted

-----------------------------------------------------------------------------
(* Counting.                                                               *)

LEMMA QueuedCount ==
    ASSUME IInv, NEW o \in Orders
    PROVE  /\ IsFiniteSet(Queued(o)) /\ Cardinality(Queued(o)) \in 0..QueueCap
           /\ Queued(o) \subseteq 1..Len(queue) /\ Len(queue) \in 0..QueueCap
           /\ DOMAIN queue = 1..Len(queue)
<1>1. Len(queue) \in 0..QueueCap /\ DOMAIN queue = 1..Len(queue)
  BY LenProperties, EngineAssumption DEF IInv, TypeOK, QueueTypeOK
<1>2. IsFiniteSet(1..Len(queue)) /\ Cardinality(1..Len(queue)) = Len(queue)
  <2>1. Len(queue) \in Nat
    BY <1>1, EngineAssumption
  <2>2. ASSUME NEW n \in Nat
        PROVE  IsFiniteSet(1..n) /\ Cardinality(1..n) = n
    <3>1. IsFiniteSet(1..n) /\ Cardinality(1..n) = IF 1 > n THEN 0 ELSE n - 1 + 1
      BY FS_Interval
    <3>2. (IF 1 > n THEN 0 ELSE n - 1 + 1) = n
      OBVIOUS
    <3> QED BY <3>1, <3>2
  <2> QED BY <2>1, <2>2
<1>3. Queued(o) \in SUBSET (1..Len(queue))
  BY <1>1 DEF Queued
<1>4. IsFiniteSet(Queued(o)) /\ Cardinality(Queued(o)) <= Len(queue)
  BY <1>2, <1>3, FS_Subset
<1>5. Cardinality(Queued(o)) \in Nat
  BY <1>4, FS_CardinalityType
<1> QED BY <1>1, <1>3, <1>4, <1>5, EngineAssumption

LEMMA AskingCount ==
    ASSUME NEW o
    PROVE  /\ IsFiniteSet(Asking(o)) /\ Cardinality(Asking(o)) \in 0..Cardinality(Callers)
           /\ Cardinality(Callers) \in Nat
<1>1. Cardinality(Callers) \in Nat
  BY EngineAssumption, FS_CardinalityType
<1>2. IsFiniteSet(Asking(o)) /\ Cardinality(Asking(o)) <= Cardinality(Callers)
  BY EngineAssumption, FS_Subset DEF Asking
<1>3. Cardinality(Asking(o)) \in Nat
  BY <1>2, FS_CardinalityType
<1> QED BY <1>1, <1>2, <1>3

LEMMA PendingType ==
    ASSUME IInv, NEW o \in Orders
    PROVE  /\ Pending(o) \in Nat /\ Pending(o) <= QueueCap + 2 + Cardinality(Callers)
           /\ AtProcessor(o) \in {0, 1} /\ AtWorker(o) \in {0, 1}
<1>1. AtProcessor(o) \in {0, 1} /\ AtWorker(o) \in {0, 1}
  BY DEF AtProcessor, AtWorker, one
<1> QED BY <1>1, QueuedCount, AskingCount, EngineAssumption DEF Pending

\* The queue with one more request, and without its first.
LEMMA AppendCount ==
    ASSUME IInv, IInv', NEW r \in Request, queue' = Append(queue, r), NEW o \in Orders
    PROVE  Cardinality(Queued(o)') = Cardinality(Queued(o)) + one(r.order = o)
<1>1. /\ Queued(o) \subseteq 1..Len(queue) /\ Len(queue) \in Nat
      /\ DOMAIN queue = 1..Len(queue) /\ IsFiniteSet(Queued(o))
      /\ Cardinality(Queued(o)) \in Nat
  BY QueuedCount
<1>2. /\ DOMAIN queue' = 1..(Len(queue) + 1)
      /\ \A i \in 1..Len(queue) : queue'[i] = queue[i]
      /\ queue'[Len(queue) + 1] = r
  BY <1>1, AppendProperties, LenProperties DEF IInv, TypeOK, QueueTypeOK
<1>3. /\ Len(queue) + 1 \notin Queued(o)
      /\ \A i : i \in 1..(Len(queue) + 1) <=> i \in 1..Len(queue) \/ i = Len(queue) + 1
  BY <1>1
<1>4. CASE r.order = o
  <2>1. Queued(o)' = Queued(o) \cup {Len(queue) + 1}
    BY <1>1, <1>2, <1>3, <1>4 DEF Queued
  <2>2. Cardinality(Queued(o)') = Cardinality(Queued(o)) + 1
    BY <1>1, <1>3, <2>1, FS_AddElement
  <2> QED BY <1>4, <2>2 DEF one
<1>5. CASE r.order # o
  <2>1. Queued(o)' = Queued(o)
    BY <1>1, <1>2, <1>3, <1>5 DEF Queued
  <2> QED BY <1>1, <1>5, <2>1 DEF one
<1> QED BY <1>4, <1>5

LEMMA TailCount ==
    ASSUME IInv, queue # <<>>, queue' = Tail(queue), NEW o \in Orders
    PROVE  Cardinality(Queued(o)') + one(Head(queue).order = o) <= Cardinality(Queued(o))
<1>1. /\ Queued(o) \subseteq 1..Len(queue) /\ Len(queue) \in Nat
      /\ DOMAIN queue = 1..Len(queue) /\ IsFiniteSet(Queued(o))
      /\ Cardinality(Queued(o)) \in Nat
  BY QueuedCount
<1>2. /\ Len(queue) >= 1 /\ Head(queue) = queue[1]
      /\ DOMAIN queue' = 1..(Len(queue) - 1)
      /\ \A i \in 1..(Len(queue) - 1) : queue'[i] = queue[i + 1]
  <2>1. /\ Tail(queue) \in Seq(Request) /\ Len(Tail(queue)) = Len(queue) - 1
        /\ \A i \in 1..Len(Tail(queue)) : Tail(queue)[i] = queue[i + 1]
    BY HeadTailProperties DEF IInv, TypeOK, QueueTypeOK
  <2>2. DOMAIN Tail(queue) = 1..(Len(queue) - 1)
    BY <2>1, LenProperties
  <2>3. Len(queue) # 0
    BY EmptySeq DEF IInv, TypeOK, QueueTypeOK
  <2> QED BY <1>1, <2>1, <2>2, <2>3
<1> DEFINE rest == Queued(o) \ {1}
           up == [i \in Queued(o)' |-> i + 1]
<1>3. /\ IsFiniteSet(rest)
      /\ Cardinality(rest) = IF 1 \in Queued(o) THEN Cardinality(Queued(o)) - 1
                             ELSE Cardinality(Queued(o))
  BY <1>1, FS_RemoveElement
<1>4. 1 \in Queued(o) <=> Head(queue).order = o
  BY <1>1, <1>2 DEF Queued
<1>5. Queued(o)' \subseteq 1..(Len(queue) - 1)
  BY <1>2 DEF Queued
<1>6. up \in [Queued(o)' -> rest]
  <2> SUFFICES ASSUME NEW i \in Queued(o)' PROVE i + 1 \in rest
    OBVIOUS
  <2>1. i \in 1..(Len(queue) - 1) /\ queue'[i].order = o
    BY <1>5 DEF Queued
  <2> QED BY <1>1, <1>2, <2>1 DEF Queued
<1>7. up \in Injection(Queued(o)', rest)
  BY <1>5, <1>6 DEF Injection, IsInjective
<1>8. IsFiniteSet(Queued(o)') /\ Cardinality(Queued(o)') <= Cardinality(rest)
  BY <1>3, <1>7, FS_Injection
<1>9. Cardinality(Queued(o)') \in Nat
  BY <1>8, FS_CardinalityType
<1> QED BY <1>1, <1>3, <1>4, <1>8, <1>9 DEF one

LEMMA AskingShrinks ==
    ASSUME NEW o, Asking(o)' \subseteq Asking(o)
    PROVE  /\ Cardinality(Asking(o)') <= Cardinality(Asking(o))
           /\ Cardinality(Asking(o)') \in Nat
<1>1. IsFiniteSet(Asking(o)') /\ Cardinality(Asking(o)') <= Cardinality(Asking(o))
  BY AskingCount, FS_Subset
<1> QED BY <1>1, FS_CardinalityType

Counted ==
    \A o \in Orders :
        /\ Pending(o) \in Nat /\ Pending(o) <= QueueCap + 2 + Cardinality(Callers)
        /\ Cardinality(Queued(o)) \in Nat /\ Cardinality(Asking(o)) \in Nat
        /\ AtProcessor(o) \in {0, 1} /\ AtWorker(o) \in {0, 1}

LEMMA CountedHolds == IInv => Counted
BY PendingType, QueuedCount, AskingCount, EngineAssumption DEF Counted

LEMMA CountedNext == IInv' => Counted'
BY CountedHolds, PTL

LEMMA CountsNext ==
    ASSUME IInv', NEW o \in Orders
    PROVE  /\ Pending(o)' \in Nat /\ Pending(o)' <= QueueCap + 2 + Cardinality(Callers)
           /\ Cardinality(Queued(o)') \in Nat /\ Cardinality(Asking(o)') \in Nat
           /\ AtProcessor(o)' \in {0, 1} /\ AtWorker(o)' \in {0, 1}
BY CountedNext DEF Counted

-----------------------------------------------------------------------------
(* Steps: a request is made while intervals remain, or the sum of records  *)
(* and requests does not grow.                                             *)

NoMore(o) == Len(history'[o]) + Pending(o)' <= Len(history[o]) + Pending(o)
StillDue(o) == Len(history'[o]) < terms[o].executionIntervals

LEMMA HandlersAreCounted ==
    ASSUME IInv, IInv', NEW o \in Orders, Handlers
    PROVE  NoMore(o) \/ StillDue(o)
<1>1. /\ Len(history[o]) \in Nat /\ Pending(o) \in Nat /\ Pending(o)' \in Nat
      /\ Cardinality(Queued(o)) \in Nat /\ Cardinality(Asking(o)) \in Nat
      /\ Cardinality(Queued(o)') \in Nat /\ Cardinality(Asking(o)') \in Nat
      /\ AtProcessor(o) \in {0, 1} /\ AtWorker(o) \in {0, 1}
      /\ HandlersTypeOK /\ StoreTypeOK
  BY HistoryType, PendingType, QueuedCount, AskingCount, CountsNext, EngineAssumption
     DEF IInv, TypeOK
<1>2. CASE UNCHANGED <<history, engineVars>>
  <2>1. Pending(o)' = Pending(o)
    BY <1>2 DEF engineVars, Pending, Queued, Asking, AtProcessor, AtWorker
  <2> QED BY <1>1, <1>2, <2>1 DEF NoMore
<1>3. ASSUME NEW c \in Callers, NEW p \in Orders, ExecuteOrderManually(c, p)
      PROVE  NoMore(o)
  <2>1. Asking(o)' = Asking(o)
    BY <1>1, <1>3 DEF ExecuteOrderManually, Asking, HandlersTypeOK
  <2>2. Pending(o)' = Pending(o)
    BY <1>3, <2>1 DEF ExecuteOrderManually, Pending, Queued, AtProcessor, AtWorker
  <2> QED BY <1>1, <1>3, <2>2 DEF NoMore, ExecuteOrderManually, storeVars
<1>4. ASSUME NEW c \in Callers, readHistory(c) PROVE NoMore(o) \/ StillDue(o)
  <2> DEFINE p == calls[c].order
             r == request(p, calls[c].row, Len(history[p]), NoPrice, c)
  <2>1. UNCHANGED <<history, queue, processor, worker>>
    BY <1>4 DEF readHistory
  <2>2. CASE Asking(o)' \subseteq Asking(o)
    <3>1. Pending(o)' <= Pending(o)
      BY <1>1, <2>1, <2>2, AskingShrinks DEF Pending, Queued, AtProcessor, AtWorker
    <3> QED BY <1>1, <2>1, <3>1 DEF NoMore
  <2>3. CASE ~(Asking(o)' \subseteq Asking(o))
    <3>1. p \in Orders
      BY <1>4, CallParts DEF readHistory, IInv, TypeOK
    <3>2. calls' # [calls EXCEPT ![c] = idleCall]
      BY <1>1, <2>3 DEF Asking, HandlersTypeOK, idleCall
    <3>3. /\ ~(Len(history[p]) >= terms[p].executionIntervals)
          /\ calls' = [calls EXCEPT ![c] = [pc |-> "enqueue", order |-> p, request |-> r]]
      BY <1>4, <3>2 DEF readHistory
    <3>4. r.order = p
      BY DEF request
    <3>5. p = o
      <4> HIDE DEF p, r
      <4> QED BY <1>1, <2>3, <3>3, <3>4 DEF Asking, HandlersTypeOK
    <3>6. Len(history[o]) < terms[o].executionIntervals
      <4>1. terms[o].executionIntervals \in Nat
        BY TermsType
      <4> QED BY <1>1, <3>3, <3>5, <4>1
    <3> QED BY <2>1, <3>6 DEF StillDue
  <2> QED BY <2>2, <2>3
<1>5. ASSUME NEW c \in Callers, enqueueCall(c) PROVE NoMore(o)
  <2> DEFINE r == calls[c].request
  <2>1. /\ r \in Request /\ calls[c].pc = "enqueue"
        /\ UNCHANGED <<history, processor, worker>>
    BY <1>5, CallParts DEF enqueueCall, IInv, TypeOK, storeVars
  <2>2. Asking(o)' = Asking(o) \ {c}
    BY <1>1, <1>5 DEF enqueueCall, Asking, HandlersTypeOK, idleCall
  <2>3. c \in Asking(o) <=> r.order = o
    BY <2>1 DEF Asking
  <2>4. Cardinality(Asking(o)') = Cardinality(Asking(o)) - one(r.order = o)
    <3>1. IsFiniteSet(Asking(o))
      BY AskingCount
    <3>2. CASE r.order = o
      <4>1. Cardinality(Asking(o) \ {c}) = Cardinality(Asking(o)) - 1
        BY <2>3, <3>1, <3>2, FS_RemoveElement
      <4> QED BY <2>2, <3>2, <4>1 DEF one
    <3>3. CASE r.order # o
      <4>1. Asking(o)' = Asking(o)
        BY <2>2, <2>3, <3>3
      <4> QED BY <1>1, <3>3, <4>1 DEF one
    <3> QED BY <3>2, <3>3
  <2>5. Cardinality(Queued(o)') <= Cardinality(Queued(o)) + one(r.order = o)
    <3>1. CASE queue' = Append(queue, r)
      BY <1>1, <2>1, <3>1, AppendCount DEF one
    <3>2. CASE UNCHANGED queue
      BY <1>1, <3>2 DEF Queued, one
    <3> QED BY <1>5, <3>1, <3>2 DEF enqueueCall
  <2>6. one(r.order = o) \in {0, 1}
    BY DEF one
  <2>7. UNCHANGED <<AtProcessor(o), AtWorker(o)>>
    BY <2>1 DEF AtProcessor, AtWorker
  <2>8. Pending(o)' <= Pending(o)
    <3> HIDE DEF r
    <3> QED BY <1>1, <2>4, <2>5, <2>6, <2>7 DEF Pending
  <2> QED BY <1>1, <2>1, <2>8 DEF NoMore
<1> QED BY <1>2, <1>3, <1>4, <1>5 DEF Handlers, Caller, createOrder, CreateOrder, cancelOrder,
       writeCancelled, storeVars

LEMMA ProcessorIsCounted ==
    ASSUME IInv, IInv', NEW o \in Orders, Processor
    PROVE  NoMore(o) \/ StillDue(o)
<1>1. /\ Len(history[o]) \in Nat /\ Pending(o) \in Nat /\ Pending(o)' \in Nat
      /\ Cardinality(Queued(o)) \in Nat /\ Cardinality(Asking(o)) \in Nat
      /\ Cardinality(Queued(o)') \in Nat
      /\ AtProcessor(o) \in {0, 1} /\ AtWorker(o) \in {0, 1}
      /\ ProcessorTypeOK
  BY HistoryType, PendingType, QueuedCount, AskingCount, CountsNext, EngineAssumption
     DEF IInv, TypeOK
<1>2. UNCHANGED <<history, worker, calls>>
  BY DEF Processor, processExecutableOrders, processOrder, completeOrder, enqueue, storeVars
<1>3. Asking(o)' = Asking(o) /\ AtWorker(o)' = AtWorker(o)
  BY <1>2 DEF Asking, AtWorker
<1>4. nextOrder => AtProcessor(o)' = 0
  BY DEF nextOrder, idleProcessor, AtProcessor, one
<1>5. CASE UNCHANGED queue /\ AtProcessor(o)' = 0
  <2>1. Queued(o)' = Queued(o)
    BY <1>5 DEF Queued
  <2>2. Pending(o)' <= Pending(o)
    BY <1>1, <1>3, <1>5, <2>1 DEF Pending
  <2> QED BY <1>1, <1>2, <2>2 DEF NoMore
<1>6. CASE processOrder /\ AtProcessor(o)' # 0
  <2> DEFINE p == Head(processor.batch).order
  <2>1. /\ AtProcessor(o)' # 0 => processor'.pc = "enqueue" /\ processor'.request.order = o
    BY DEF AtProcessor, one
  <2>2. processor.pc = "order" /\ processor.batch # <<>> /\ processor.batch \in Seq(Item)
    BY <1>1, <1>6 DEF processOrder, ProcessorTypeOK
  <2>3. /\ ~allExecuted(p, Len(history[p]))
        /\ processor'.request.order = p
    <3>1. ~nextOrder /\ processor' # [processor EXCEPT !.pc = "complete"]
      BY <1>1, <1>4, <1>6, <2>1, <2>2 DEF ProcessorTypeOK
    <3>2. PICK hint : LET r == request(p, Head(processor.batch).row, Len(history[p]), hint, NoCaller)
                      IN  /\ ~allExecuted(p, Len(history[p]))
                          /\ processor' = [pc |-> "enqueue", request |-> r,
                                           batch |-> processor.batch]
      BY <1>6, <3>1 DEF processOrder
    <3> QED BY <3>2 DEF request
  <2>4. Len(history[o]) < terms[o].executionIntervals
    <3>1. terms[o].executionIntervals \in Nat
      BY TermsType
    <3> QED BY <1>1, <1>6, <2>1, <2>3, <3>1 DEF allExecuted
  <2> QED BY <1>2, <2>4 DEF StillDue
<1>7. CASE enqueue
  <2> DEFINE r == processor.request
  <2>1. r \in Request /\ processor.pc = "enqueue" /\ AtProcessor(o)' = 0
    BY <1>1, <1>4, <1>7 DEF enqueue, ProcessorTypeOK
  <2>2. AtProcessor(o) = one(r.order = o) /\ one(r.order = o) \in {0, 1}
    BY <2>1 DEF AtProcessor, one
  <2>3. Cardinality(Queued(o)') <= Cardinality(Queued(o)) + one(r.order = o)
    <3>1. CASE queue' = Append(queue, r)
      BY <1>1, <2>1, <3>1, AppendCount DEF one
    <3>2. CASE UNCHANGED queue
      BY <1>1, <3>2 DEF Queued, one
    <3> QED BY <1>7, <3>1, <3>2 DEF enqueue
  <2>4. Pending(o)' <= Pending(o)
    <3> HIDE DEF r
    <3> QED BY <1>1, <1>3, <2>1, <2>2, <2>3 DEF Pending
  <2> QED BY <1>1, <1>2, <2>4 DEF NoMore
<1>8. processExecutableOrders => AtProcessor(o)' = 0
  BY DEF processExecutableOrders, AtProcessor, one
<1> QED BY <1>4, <1>5, <1>6, <1>7, <1>8 DEF Processor, processExecutableOrders, processOrder,
       completeOrder

LEMMA WorkerIsCounted ==
    ASSUME IInv, IInv', NEW o \in Orders, Worker
    PROVE  NoMore(o)
<1>1. /\ Len(history[o]) \in Nat /\ Pending(o) \in Nat /\ Pending(o)' \in Nat
      /\ Cardinality(Queued(o)) \in Nat /\ Cardinality(Asking(o)) \in Nat
      /\ Cardinality(Queued(o)') \in Nat /\ Cardinality(Asking(o)') \in Nat
      /\ AtProcessor(o) \in {0, 1} /\ AtWorker(o) \in {0, 1} /\ AtWorker(o)' \in {0, 1}
      /\ WorkerTypeOK /\ HandlersTypeOK /\ StoreTypeOK
  BY HistoryType, PendingType, QueuedCount, AskingCount, CountsNext, EngineAssumption
     DEF IInv, TypeOK
<1>2. UNCHANGED processor
  BY DEF Worker, takeRequest, executeInterval, recordExecution, updateOrder
<1>3. AtProcessor(o)' = AtProcessor(o)
  BY <1>2 DEF AtProcessor
<1>4. Asking(o)' \subseteq Asking(o)
  <2>1. \A c \in Callers : calls'[c] = calls[c] \/ calls'[c] = idleCall
    <3>1. UNCHANGED calls \/ respond(worker.request.caller)
      BY DEF Worker, takeRequest, executeInterval, failExecution, recordExecution, updateOrder
    <3> QED BY <1>1, <3>1, RespondType
  <2> QED BY <2>1 DEF Asking, idleCall
<1>5. Cardinality(Asking(o)') <= Cardinality(Asking(o))
  BY <1>4, AskingShrinks
<1>6. CASE takeRequest
  <2>1. /\ AtWorker(o) = 0 /\ AtWorker(o)' = one(Head(queue).order = o)
        /\ one(Head(queue).order = o) \in {0, 1}
    BY <1>6 DEF takeRequest, AtWorker, one
  <2>2. Cardinality(Queued(o)') + one(Head(queue).order = o) <= Cardinality(Queued(o))
    BY <1>6, TailCount DEF takeRequest
  <2>3. Pending(o)' <= Pending(o)
    BY <1>1, <1>3, <1>5, <2>1, <2>2 DEF Pending
  <2> QED BY <1>1, <1>6, <2>3 DEF NoMore, takeRequest, storeVars
<1>7. CASE UNCHANGED queue
  <2>1. Queued(o)' = Queued(o)
    BY <1>7 DEF Queued
  <2>2. CASE UNCHANGED history /\ AtWorker(o)' <= AtWorker(o)
    <3>1. Pending(o)' <= Pending(o)
      BY <1>1, <1>3, <1>5, <2>1, <2>2 DEF Pending
    <3> QED BY <1>1, <2>2, <3>1 DEF NoMore
  <2>3. CASE executeInterval
    <3>1. CASE failExecution
      <4>1. AtWorker(o)' = 0
        BY <3>1 DEF failExecution, idleWorker, AtWorker, one
      <4> QED BY <1>1, <2>2, <2>3, <4>1 DEF executeInterval
    <3>2. CASE ~failExecution
      <4>1. worker.pc = "get" /\ worker'.pc = "record" /\ worker'.request = worker.request
        BY <2>3, <3>2, ExecutionStep
      <4>2. AtWorker(o)' = AtWorker(o)
        BY <4>1 DEF AtWorker
      <4> QED BY <1>1, <2>2, <2>3, <4>2 DEF executeInterval
    <3> QED BY <3>1, <3>2
  <2>4. CASE recordExecution
    <3>1. /\ worker.pc = "record" /\ AtWorker(o)' = 0
          /\ AtWorker(o) = one(worker.request.order = o)
      BY <1>1, <2>4 DEF recordExecution, WorkerTypeOK, idleWorker, AtWorker, one
    <3>2. Len(history'[o]) <= Len(history[o]) + one(worker.request.order = o)
             /\ Len(history'[o]) \in Nat
      <4>1. PICK p, record : /\ p = worker.request.order
                             /\ \/ UNCHANGED history
                                \/ history' = [history EXCEPT ![p] = Append(@, record)]
        BY <2>4 DEF recordExecution, CreateExecutionRecord
      <4>2. Len(Append(history[o], record)) = Len(history[o]) + 1
        BY <1>1, HistoryType
      <4>3. Len(history'[o]) <= Len(history[o]) + one(p = o)
        BY <1>1, <4>1, <4>2 DEF StoreTypeOK, one
      <4>4. StoreTypeOK'
        BY DEF IInv, TypeOK
      <4>5. Len(history'[o]) \in Nat
        BY <4>4, LenProperties DEF StoreTypeOK
      <4> QED BY <4>1, <4>3, <4>5
    <3>3. one(worker.request.order = o) \in {0, 1}
      BY DEF one
    <3>4. Pending(o)' + one(worker.request.order = o) <= Pending(o)
      BY <1>1, <1>3, <1>5, <2>1, <3>1, <3>3 DEF Pending
    <3> QED BY <1>1, <3>2, <3>3, <3>4 DEF NoMore
  <2>5. CASE updateOrder
    <3>1. AtWorker(o)' = 0
      BY <2>5 DEF updateOrder, idleWorker, AtWorker, one
    <3> QED BY <1>1, <2>2, <2>5, <3>1 DEF updateOrder
  <2>6. ~takeRequest
    <3> SUFFICES ASSUME takeRequest PROVE FALSE
      OBVIOUS
    <3>1. Len(Tail(queue)) = Len(queue) - 1 /\ Len(queue) \in Nat
      BY HeadTailProperties, LenProperties DEF takeRequest, IInv, TypeOK, QueueTypeOK
    <3> QED BY <1>7, <3>1 DEF takeRequest
  <2> QED BY <2>3, <2>4, <2>5, <2>6 DEF Worker
<1> QED BY <1>6, <1>7 DEF Worker, executeInterval, recordExecution, updateOrder

LEMMA RestIsCounted ==
    ASSUME IInv, IInv', NEW o \in Orders, Monitor \/ Tick \/ Restart \/ UNCHANGED vars
    PROVE  NoMore(o)
<1>1. /\ Len(history[o]) \in Nat /\ Pending(o) \in Nat /\ Pending(o)' \in Nat
      /\ ProcessorTypeOK /\ WorkerTypeOK
  BY HistoryType, PendingType, CountsNext DEF IInv, TypeOK
<1>2. UNCHANGED history
  BY DEF Monitor, checkOrderTimeouts, expireOrder, Tick, Restart, vars, storeVars
<1>3. CASE UNCHANGED engineVars
  <2>1. Pending(o)' = Pending(o)
    BY <1>3 DEF engineVars, Pending, Queued, Asking, AtProcessor, AtWorker
  <2> QED BY <1>1, <1>2, <2>1 DEF NoMore
<1>4. CASE Tick
  <2>1. /\ UNCHANGED <<queue, calls>>
        /\ processor'.pc = processor.pc /\ worker'.pc = worker.pc
        /\ processor.pc = "enqueue" => processor'.request = processor.request
        /\ worker.pc # "idle" => worker'.request = worker.request
    BY <1>1, <1>4 DEF Tick, ProcessorTypeOK, WorkerTypeOK, idleWorker
  <2>2. AtProcessor(o)' = AtProcessor(o) /\ AtWorker(o)' = AtWorker(o)
    BY <2>1 DEF AtProcessor, AtWorker, one
  <2>3. Pending(o)' = Pending(o)
    BY <2>1, <2>2 DEF Pending, Queued, Asking
  <2> QED BY <1>1, <1>2, <2>3 DEF NoMore
<1>5. CASE Restart
  <2>1. Queued(o)' = {} /\ Asking(o)' = {}
    BY <1>5 DEF Restart, Queued, Asking, idleCall
  <2>2. AtProcessor(o)' = 0 /\ AtWorker(o)' = 0
    BY <1>5 DEF Restart, idleProcessor, idleWorker, AtProcessor, AtWorker, one
  <2>3. Pending(o)' = 0
    BY <2>1, <2>2, FS_EmptySet DEF Pending
  <2> QED BY <1>1, <1>2, <2>3 DEF NoMore
<1> QED BY <1>3, <1>4, <1>5 DEF Monitor, checkOrderTimeouts, expireOrder, vars

-----------------------------------------------------------------------------

LEMMA InitExecutionsInv == Init => ExecutionsInv
<1> SUFFICES ASSUME Init, NEW o \in Orders PROVE Len(history[o]) + Pending(o) <= Limit(o)
  BY InitIInv DEF ExecutionsInv, RequestsAreCounted
<1>1. IInv
  BY InitIInv
<1>2. Len(history[o]) = 0
  BY DEF Init, InitStore
<1>3. terms[o].executionIntervals \in Nat /\ terms[o].executionIntervals >= 2
  BY TermsType
<1>4. /\ Pending(o) \in Nat /\ Pending(o) <= QueueCap + 2 + Cardinality(Callers)
      /\ Cardinality(Callers) \in Nat /\ QueueCap \in Nat
  BY <1>1, PendingType, AskingCount, EngineAssumption
<1> QED BY <1>2, <1>3, <1>4 DEF Limit

LEMMA LimitType ==
    ASSUME NEW o \in Orders
    PROVE  Limit(o) \in Nat
<1> DEFINE callers == Cardinality(Callers)
           intervals == terms[o].executionIntervals
<1>1. callers \in Nat /\ intervals \in Nat /\ QueueCap \in Nat
  BY AskingCount, TermsType, EngineAssumption
<1>2. Limit(o) = intervals + QueueCap + 1 + callers
  BY DEF Limit
<1> HIDE DEF callers, intervals
<1> QED BY <1>1, <1>2

LEMMA NextExecutionsInv == ExecutionsInv /\ [Next]_vars => ExecutionsInv'
<1> SUFFICES ASSUME ExecutionsInv, [Next]_vars, NEW o \in Orders
             PROVE  Len(history'[o]) + Pending(o)' <= Limit(o)
  BY NextIInv DEF ExecutionsInv, RequestsAreCounted, Limit
<1>1. IInv /\ IInv'
  BY NextIInv DEF ExecutionsInv
<1>2. NoMore(o) \/ StillDue(o)
  BY <1>1, HandlersAreCounted, ProcessorIsCounted, WorkerIsCounted, RestIsCounted DEF Next
<1>3. /\ Len(history[o]) \in Nat /\ Len(history'[o]) \in Nat
      /\ Pending(o) \in Nat /\ Pending(o)' \in Nat
      /\ Pending(o)' <= QueueCap + 2 + Cardinality(Callers)
      /\ Cardinality(Callers) \in Nat /\ QueueCap \in Nat
      /\ terms[o].executionIntervals \in Nat
  <2>1. StoreTypeOK /\ history'[o] \in Seq(Record)
    BY <1>1 DEF IInv, TypeOK, StoreTypeOK
  <2>2. Len(history[o]) \in Nat /\ Len(history'[o]) \in Nat
    BY <2>1, LenProperties, HistoryType
  <2>3. /\ Pending(o) \in Nat /\ Pending(o)' \in Nat
        /\ Pending(o)' <= QueueCap + 2 + Cardinality(Callers)
    BY <1>1, PendingType, CountsNext
  <2>4. /\ Cardinality(Callers) \in Nat /\ QueueCap \in Nat
        /\ terms[o].executionIntervals \in Nat
    BY AskingCount, TermsType, EngineAssumption
  <2> QED BY <2>2, <2>3, <2>4
<1>4. CASE NoMore(o)
  <2>1. Len(history[o]) + Pending(o) <= Limit(o)
    BY DEF ExecutionsInv, RequestsAreCounted
  <2>2. Limit(o) \in Nat
    BY LimitType
  <2> QED BY <1>3, <1>4, <2>1, <2>2 DEF NoMore
<1>5. CASE StillDue(o)
  <2> DEFINE pending == Pending(o)'
             recorded_ == Len(history'[o])
             callers == Cardinality(Callers)
             intervals == terms[o].executionIntervals
  <2>1. recorded_ < intervals
    BY <1>5 DEF StillDue
  <2>2. /\ pending \in Nat /\ recorded_ \in Nat /\ callers \in Nat /\ intervals \in Nat
        /\ QueueCap \in Nat /\ pending <= QueueCap + 2 + callers
    BY <1>3
  <2>3. Limit(o) = intervals + QueueCap + 1 + callers
    BY DEF Limit
  <2> HIDE DEF pending, recorded_, callers, intervals
  <2>4. recorded_ + pending <= intervals + QueueCap + 1 + callers
    BY <2>1, <2>2
  <2> QED BY <2>3, <2>4 DEF pending, recorded_
<1> QED BY <1>2, <1>4, <1>5

\* Requests that overtake each other execute an order's intervals too often, but
\* no more often than the queue, the worker, the processor and the callers can
\* hold requests, whatever their numbers (engine.go processOrder,
\* ExecuteOrderManually and executeInterval).
THEOREM ExecutionsAreBoundedHolds == Spec => []ExecutionsAreBounded
<1>1. ExecutionsInv => ExecutionsAreBounded
  <2> SUFFICES ASSUME ExecutionsInv, NEW o \in Orders
               PROVE  Len(history[o]) <= Limit(o)
    BY DEF ExecutionsAreBounded, Limit
  <2>1. /\ Len(history[o]) \in Nat /\ Pending(o) \in Nat
        /\ Len(history[o]) + Pending(o) <= Limit(o)
    BY HistoryType, PendingType DEF ExecutionsInv, IInv, TypeOK, RequestsAreCounted
  <2>2. Limit(o) \in Nat
    BY LimitType
  <2> QED BY <2>1, <2>2
<1> QED BY <1>1, InitExecutionsInv, NextExecutionsInv, PTL DEF Spec

-----------------------------------------------------------------------------
(* While a scan starts only when the work of the last one is done and      *)
(* nobody calls ExecuteOrderManually, an order is in one place only.       *)

Distinct(items) == \A i, j \in DOMAIN items : items[i].order = items[j].order => i = j

\* The orders in hand of the worker.
atWorker == IF worker.pc = "idle" THEN {} ELSE {worker.request.order}

OneAtATime ==
    /\ Distinct(processor.batch) /\ Distinct(queue)
    /\ listed(processor.batch) \cap listed(queue) = {}
    /\ atWorker \cap (listed(processor.batch) \cup listed(queue)) = {}

LEMMA NothingListed == Distinct(<<>>) /\ listed(<<>>) = {}
BY DEF Distinct, listed

LEMMA DistinctTail ==
    ASSUME NEW S, NEW s \in Seq(S), s # <<>>, Distinct(s)
    PROVE  /\ Distinct(Tail(s))
           /\ listed(s) = {Head(s).order} \cup listed(Tail(s))
           /\ Head(s).order \notin listed(Tail(s))
<1> DEFINE n == Len(s)
           t == Tail(s)
<1>1. /\ n \in Nat /\ n # 0 /\ DOMAIN s = 1..n
      /\ DOMAIN t = 1..(n - 1) /\ Head(s) = s[1]
      /\ \A i \in 1..(n - 1) : t[i] = s[i + 1]
  <2>1. t \in Seq(S) /\ Len(t) = n - 1 /\ \A i \in 1..Len(t) : t[i] = s[i + 1]
    BY HeadTailProperties
  <2>2. DOMAIN t = 1..Len(t) /\ DOMAIN s = 1..n /\ n \in Nat /\ n # 0
    BY <2>1, LenProperties, EmptySeq
  <2> QED BY <2>1, <2>2
<1> HIDE DEF t, n
<1>2. \A i \in DOMAIN t : i \in Nat /\ i + 1 \in DOMAIN s /\ t[i] = s[i + 1] /\ i + 1 # 1
  BY <1>1
<1>3. Distinct(t)
  <2> SUFFICES ASSUME NEW i \in DOMAIN t, NEW j \in DOMAIN t, t[i].order = t[j].order
               PROVE  i = j
    BY DEF Distinct
  <2>1. i + 1 = j + 1
    BY <1>2 DEF Distinct
  <2> QED BY <1>2, <2>1
<1>4. listed(s) = {Head(s).order} \cup listed(t)
  <2>1. \A i \in DOMAIN s : i = 1 \/ (i - 1 \in DOMAIN t /\ t[i - 1] = s[i])
    BY <1>1
  <2>2. 1 \in DOMAIN s
    BY <1>1
  <2>3. \A x \in listed(s) : x = Head(s).order \/ x \in listed(t)
    BY <1>1, <2>1 DEF listed
  <2>4. Head(s).order \in listed(s)
    BY <1>1, <2>2 DEF listed
  <2>5. \A x \in listed(t) : x \in listed(s)
    BY <1>2 DEF listed
  <2> QED BY <2>3, <2>4, <2>5
<1>5. Head(s).order \notin listed(t)
  <2>1. 1 \in DOMAIN s
    BY <1>1
  <2> QED BY <1>1, <1>2, <2>1 DEF listed, Distinct
<1> QED BY <1>3, <1>4, <1>5 DEF t

LEMMA DistinctAppend ==
    ASSUME NEW S, NEW s \in Seq(S), Distinct(s), NEW e \in S, e.order \notin listed(s)
    PROVE  Distinct(Append(s, e)) /\ listed(Append(s, e)) = listed(s) \cup {e.order}
<1> DEFINE n == Len(s)
           t == Append(s, e)
<1>1. /\ n \in Nat /\ DOMAIN s = 1..n /\ DOMAIN t = 1..(n + 1)
      /\ \A i \in 1..n : t[i] = s[i]
      /\ t[n + 1] = e
  <2>1. t \in Seq(S) /\ Len(t) = n + 1 /\ t[n + 1] = e /\ \A i \in 1..n : t[i] = s[i]
    BY AppendProperties
  <2>2. DOMAIN t = 1..Len(t) /\ DOMAIN s = 1..n /\ n \in Nat
    <3> HIDE DEF t
    <3> QED BY <2>1, LenProperties
  <2> QED BY <2>1, <2>2
<1> HIDE DEF t, n
<1>2. \A i \in DOMAIN t : i = n + 1 \/ i \in DOMAIN s
  BY <1>1
<1>3. \A i \in DOMAIN s : i \in DOMAIN t /\ t[i] = s[i] /\ s[i].order # e.order
  BY <1>1 DEF listed
<1>4. n + 1 \in DOMAIN t
  BY <1>1
<1>5. Distinct(t)
  BY <1>1, <1>2, <1>3 DEF Distinct
<1>6. listed(t) = listed(s) \cup {e.order}
  BY <1>1, <1>2, <1>3, <1>4 DEF listed
<1> QED BY <1>5, <1>6 DEF t

LEMMA DistinctAged ==
    ASSUME NEW items \in Seq(Item), Distinct(items)
    PROVE  Distinct(aged(items)) /\ listed(aged(items)) = listed(items)
<1>1. \A i \in DOMAIN items : aged(items)[i].order = items[i].order
  <2> TAKE i \in DOMAIN items
  <2>1. items[i] \in Item
    BY ElementOfSeq, LenProperties
  <2> QED BY <2>1 DEF aged, Item
<1>2. DOMAIN aged(items) = DOMAIN items
  BY DEF aged
<1> QED BY <1>1, <1>2, AgedType DEF Distinct

LEMMA ListingIsDistinct ==
    ASSUME StoreTypeOK, NEW some \in SUBSET Inserted, NEW items \in oldestFirst(some)
    PROVE  Distinct(items)
<1>1. IsFiniteSet(some)
  BY OrdersAssumption, FS_Subset DEF Inserted
<1>2. Cardinality(some) \in Nat
  BY <1>1, FS_CardinalityType
<1>3. PICK ids \in [1..Cardinality(some) -> some] :
          /\ items = [i \in DOMAIN ids |-> [order |-> ids[i], row |-> orders[ids[i]]]]
          /\ \A i, j \in DOMAIN ids : i < j => orders[ids[i]].createdAt < orders[ids[j]].createdAt
  BY DEF oldestFirst
<1>4. DOMAIN items = 1..Cardinality(some) /\ DOMAIN ids = 1..Cardinality(some)
  BY <1>3
<1>5. \A i \in DOMAIN ids : items[i].order = ids[i] /\ orders[ids[i]].createdAt \in Nat
  <2> TAKE i \in DOMAIN ids
  <2>1. ids[i] \in Inserted
    BY <1>4
  <2>2. orders[ids[i]] \in Row
    BY <2>1, InsertedHaveRows
  <2> QED BY <1>3, <2>2 DEF Row
<1>6. \A i, j \in DOMAIN ids : i \in Nat /\ j \in Nat /\ (i < j \/ j < i \/ i = j)
  BY <1>2, <1>4
<1>7. \A i, j \in DOMAIN ids : ids[i] = ids[j] => i = j
  <2>1. \A i, j \in DOMAIN ids : i < j => ids[i] # ids[j]
    BY <1>3, <1>5
  <2> QED BY <1>6, <2>1
<1> QED BY <1>3, <1>4, <1>5, <1>7 DEF Distinct

\* A step of the processor leaves what comes after the first order of its batch.
LEMMA NextBatch ==
    ASSUME ProcessorTypeOK, processor.batch # <<>>, nextOrder
    PROVE  processor'.batch = Tail(processor.batch) /\ processor'.pc # "enqueue"
<1>1. CASE Tail(processor.batch) = <<>>
  BY <1>1 DEF nextOrder, idleProcessor
<1>2. CASE Tail(processor.batch) # <<>>
  BY <1>2 DEF nextOrder
<1> QED BY <1>1, <1>2

LEMMA BusyProcessor ==
    ASSUME ProcessorTypeOK, processor.pc # "idle"
    PROVE  processor.batch \in Seq(Item) /\ processor.batch # <<>>
BY DEF ProcessorTypeOK

\* The batch shrinks, the queue and the worker stay as they are.
LEMMA BatchShrinks ==
    ASSUME IInv, OneAtATime, processor.pc # "idle", nextOrder, UNCHANGED <<queue, worker>>
    PROVE  OneAtATime' /\ processor'.pc # "enqueue"
           /\ listed(processor'.batch) \subseteq listed(processor.batch)
<1>1. ProcessorTypeOK
  BY DEF IInv, TypeOK
<1>2. processor.batch \in Seq(Item) /\ processor.batch # <<>>
  BY <1>1, BusyProcessor
<1>3. processor'.batch = Tail(processor.batch) /\ processor'.pc # "enqueue"
  BY <1>1, <1>2, NextBatch
<1>4. /\ Distinct(Tail(processor.batch))
      /\ listed(Tail(processor.batch)) \subseteq listed(processor.batch)
  BY <1>2, DistinctTail DEF OneAtATime
<1>5. atWorker' = atWorker
  BY DEF atWorker
<1>6. /\ Distinct(processor'.batch) /\ Distinct(queue')
      /\ listed(processor'.batch) \subseteq listed(processor.batch)
      /\ listed(queue') = listed(queue)
  BY <1>3, <1>4 DEF OneAtATime
<1>7. OneAtATime'
  BY <1>5, <1>6 DEF OneAtATime
<1> QED BY <1>3, <1>6, <1>7

LEMMA OneAtATimeStep ==
    ASSUME IInv, OneAtATime, Next, ~Overlap, Callers = {}
    PROVE  OneAtATime'
<1>1. ProcessorTypeOK /\ QueueTypeOK /\ WorkerTypeOK /\ StoreTypeOK
  BY DEF IInv, TypeOK
<1>2. CASE UNCHANGED <<processor, queue, worker>>
  <2>1. atWorker' = atWorker
    BY <1>2 DEF atWorker
  <2> QED BY <1>2, <2>1 DEF OneAtATime, Distinct, listed
<1>3. CASE processExecutableOrders
  <2>1. PICK items \in GetExecutableOrders : processor' = [pc |-> "order", batch |-> items]
    BY <1>3 DEF processExecutableOrders
  <2>2. {o \in Orders : executable(o)} \subseteq Inserted
    BY NoRowIsNoRow DEF executable, Inserted
  <2>3. Distinct(items)
    BY <1>1, <2>1, <2>2, ListingIsDistinct DEF GetExecutableOrders
  <2>4. queue' = <<>> /\ worker'.pc = "idle" /\ processor'.batch = items
    BY <1>3, <2>1 DEF processExecutableOrders
  <2>5. Distinct(queue') /\ listed(queue') = {} /\ atWorker' = {} /\ Distinct(processor'.batch)
    BY <2>3, <2>4, NothingListed DEF atWorker
  <2> QED BY <2>5 DEF OneAtATime
<1>4. CASE processOrder
  <2>1. processor.pc # "idle" /\ UNCHANGED <<queue, worker>>
    BY <1>4 DEF processOrder
  <2>2. CASE nextOrder
    BY <2>1, <2>2, BatchShrinks
  <2>3. CASE ~nextOrder
    <3>1. processor'.batch = processor.batch
      BY <1>1, <1>4, <2>3 DEF processOrder, ProcessorTypeOK
    <3>2. atWorker' = atWorker /\ queue' = queue
      BY <2>1 DEF atWorker
    <3> QED BY <3>1, <3>2 DEF OneAtATime, Distinct, listed
  <2> QED BY <2>2, <2>3
<1>5. CASE completeOrder
  BY <1>5, BatchShrinks DEF completeOrder
<1>6. CASE enqueue
  <2> DEFINE r == processor.request
             b == processor.batch
  <2>1. processor.pc = "enqueue" /\ nextOrder /\ worker' = worker
    BY <1>6 DEF enqueue
  <2>2. b \in Seq(Item) /\ b # <<>> /\ r \in Request /\ r.order = Head(b).order
        /\ queue \in Seq(Request)
    BY <1>1, <2>1, BusyProcessor DEF ProcessorTypeOK, QueueTypeOK, IInv, ProcessorAtHead
  <2>3. processor'.batch = Tail(b)
    BY <1>1, <2>1, <2>2, NextBatch
  <2>4. /\ Distinct(Tail(b)) /\ listed(b) = {r.order} \cup listed(Tail(b))
        /\ r.order \notin listed(Tail(b))
    BY <2>2, DistinctTail DEF OneAtATime
  <2>5. Distinct(Append(queue, r)) /\ listed(Append(queue, r)) = listed(queue) \cup {r.order}
    <3>1. r.order \notin listed(queue)
      BY <2>4 DEF OneAtATime
    <3> QED BY <2>2, <3>1, DistinctAppend DEF OneAtATime
  <2>6. queue' \in {queue, Append(queue, r)}
    BY <1>6 DEF enqueue
  <2>7. Distinct(queue') /\ listed(queue') \subseteq listed(queue) \cup {r.order}
    BY <2>5, <2>6 DEF OneAtATime
  <2>8. Distinct(processor'.batch) /\ listed(processor'.batch) = listed(Tail(b))
    BY <2>3, <2>4
  <2>9. atWorker' = atWorker
    BY <2>1 DEF atWorker
  <2> QED BY <2>4, <2>7, <2>8, <2>9 DEF OneAtATime
<1>7. CASE takeRequest
  <2>1. /\ queue # <<>> /\ queue \in Seq(Request)
        /\ worker' = [pc |-> "get", request |-> Head(queue)]
        /\ queue' = Tail(queue) /\ processor' = processor
    BY <1>1, <1>7 DEF takeRequest, QueueTypeOK
  <2>2. /\ Distinct(Tail(queue)) /\ listed(queue) = {Head(queue).order} \cup listed(Tail(queue))
        /\ Head(queue).order \notin listed(Tail(queue))
    BY <2>1, DistinctTail DEF OneAtATime
  <2>3. atWorker' = {Head(queue).order}
    BY <2>1 DEF atWorker
  <2>4. /\ Distinct(queue') /\ listed(queue') = listed(Tail(queue))
        /\ Distinct(processor'.batch) /\ listed(processor'.batch) = listed(processor.batch)
    BY <2>1, <2>2 DEF OneAtATime
  <2> QED BY <2>2, <2>3, <2>4 DEF OneAtATime
<1>8. CASE executeInterval \/ recordExecution \/ updateOrder
  <2>1. UNCHANGED <<processor, queue>>
    BY <1>8 DEF executeInterval, recordExecution, updateOrder
  <2>2. atWorker' \subseteq atWorker
    <3>1. CASE executeInterval /\ ~failExecution
      BY <3>1, ExecutionStep DEF atWorker
    <3>2. CASE (executeInterval /\ failExecution) \/ updateOrder
      BY <3>2 DEF failExecution, updateOrder, atWorker, idleWorker
    <3>3. CASE recordExecution
      BY <1>1, <3>3 DEF recordExecution, atWorker, WorkerTypeOK, idleWorker
    <3> QED BY <1>8, <3>1, <3>2, <3>3
  <2> QED BY <2>1, <2>2 DEF OneAtATime, Distinct, listed
<1>9. CASE Tick
  <2>1. processor.batch \in Seq(Item) /\ Distinct(processor.batch)
    BY <1>1 DEF ProcessorTypeOK, OneAtATime
  <2>2. processor'.batch = aged(processor.batch) /\ queue' = queue
    BY <1>1, <1>9 DEF Tick, ProcessorTypeOK
  <2>3. Distinct(processor'.batch) /\ listed(processor'.batch) = listed(processor.batch)
    BY <2>1, <2>2, DistinctAged
  <2>4. atWorker' = atWorker
    BY <1>1, <1>9 DEF Tick, atWorker, WorkerTypeOK, idleWorker
  <2>5. Distinct(queue') /\ listed(queue') = listed(queue)
    BY <2>2 DEF OneAtATime
  <2> QED BY <2>3, <2>4, <2>5 DEF OneAtATime
<1>10. CASE Restart
  <2>1. processor'.batch = <<>> /\ queue' = <<>> /\ worker'.pc = "idle"
    BY <1>10 DEF Restart, idleProcessor, idleWorker
  <2>2. /\ Distinct(queue') /\ listed(queue') = {} /\ atWorker' = {}
        /\ Distinct(processor'.batch) /\ listed(processor'.batch) = {}
    BY <2>1, NothingListed DEF atWorker
  <2> QED BY <2>2 DEF OneAtATime
<1>11. CASE Handlers \/ Monitor
  <2>1. UNCHANGED <<processor, queue, worker>>
    BY <1>11 DEF Handlers, Monitor, createOrder, cancelOrder, writeCancelled,
       checkOrderTimeouts, expireOrder, engineVars
  <2> QED BY <1>2, <2>1
<1> QED BY <1>3, <1>4, <1>5, <1>6, <1>7, <1>8, <1>9, <1>10, <1>11 DEF Next, Processor, Worker

LEMMA InitOneAtATime == Init => OneAtATime
<1> SUFFICES ASSUME Init PROVE OneAtATime
  OBVIOUS
<1>1. processor.batch = <<>> /\ queue = <<>> /\ worker.pc = "idle"
  BY DEF Init, InitEngine, idleProcessor, idleWorker
<1> QED BY <1>1, NothingListed DEF OneAtATime, atWorker

\* orders with a request on its way to a record
due == listed(queue)
           \cup (IF processor.pc = "enqueue" THEN {processor.request.order} ELSE {})
           \cup (IF worker.pc \in {"get", "record"} THEN {worker.request.order} ELSE {})

\* A request exists only while its order has intervals left.
IntervalsRemain ==
    /\ \A o \in Orders : Len(history[o]) <= terms[o].executionIntervals
    /\ \A o \in due : Len(history[o]) < terms[o].executionIntervals

LEMMA IntervalsType ==
    ASSUME NEW o \in Orders
    PROVE  terms[o].executionIntervals \in Nat /\ terms[o].executionIntervals >= 2
<1>1. \A k \in 2..20 : k \in Nat /\ k >= 2
  OBVIOUS
<1> QED BY <1>1, TermsType

LEMMA DueAreOrders ==
    ASSUME ProcessorTypeOK, QueueTypeOK, WorkerTypeOK
    PROVE  due \subseteq Orders
<1>1. ASSUME NEW i \in DOMAIN queue PROVE queue[i].order \in Orders
  <2>1. queue[i] \in Request
    BY ElementOfSeq, LenProperties DEF QueueTypeOK
  <2> QED BY <2>1 DEF Request
<1>2. processor.pc = "enqueue" => processor.request.order \in Orders
  BY DEF ProcessorTypeOK, Request
<1>3. worker.pc \in {"get", "record"} => worker.request.order \in Orders
  BY DEF WorkerTypeOK, idleWorker, Request
<1> QED BY <1>1, <1>2, <1>3 DEF due, listed

LEMMA WorkerKeepsIntervals ==
    ASSUME IInv, OneAtATime, IntervalsRemain, Next, recordExecution
    PROVE  IntervalsRemain'
<1> DEFINE o == worker.request.order
<1>1. ProcessorTypeOK /\ QueueTypeOK /\ WorkerTypeOK /\ StoreTypeOK /\ ProcessorAtHead
  BY DEF IInv, TypeOK
<1>2. /\ worker.pc = "record" /\ o \in Orders /\ worker'.pc = "update"
      /\ UNCHANGED <<processor, queue>>
  BY <1>1 DEF recordExecution, WorkerTypeOK, idleWorker, Request
<1>3. /\ o \notin listed(queue)
      /\ processor.pc = "enqueue" => processor.request.order # o
  <2>1. o \in atWorker
    BY <1>2 DEF atWorker
  <2>2. processor.pc = "enqueue" => processor.request.order \in listed(processor.batch)
    BY <1>1, BusyProcessor, HeadAndTail DEF ProcessorAtHead
  <2> QED BY <2>1, <2>2 DEF OneAtATime
<1>4. due' \subseteq due \ {o}
  BY <1>2, <1>3 DEF due, listed
<1>5. Len(history[o]) < terms[o].executionIntervals /\ Len(history[o]) \in Nat
      /\ terms[o].executionIntervals \in Nat
  <2>1. o \in due
    BY <1>2 DEF due
  <2>2. Len(history[o]) < terms[o].executionIntervals
    BY <2>1 DEF IntervalsRemain
  <2>3. Len(history[o]) \in Nat
    BY <1>1, <1>2, HistoryType
  <2>4. terms[o].executionIntervals \in Nat
    BY <1>2, IntervalsType
  <2> QED BY <2>2, <2>3, <2>4
<1>6. \A p \in Orders : p # o => history'[p] = history[p]
  BY <1>1 DEF recordExecution, CreateExecutionRecord, StoreTypeOK
<1>7. Len(history'[o]) <= Len(history[o]) + 1
  <2>1. CASE history' = history
    BY <1>5, <2>1
  <2>2. CASE history' # history
    <3> DEFINE record == [intervalNumber |-> worker.request.intervalNumber,
                          amount |-> worker.amount, price |-> worker.price]
    <3>1. history' = [history EXCEPT ![o] = Append(@, record)]
      BY <2>2 DEF recordExecution, CreateExecutionRecord
    <3>2. history'[o] = Append(history[o], record)
      BY <1>1, <1>2, <3>1 DEF StoreTypeOK
    <3>3. history[o] \in Seq(Record)
      BY <1>1, <1>2, HistoryType
    <3>4. record \in Record
      BY <1>1, <1>2 DEF WorkerTypeOK, idleWorker, Record, Request
    <3> HIDE DEF record
    <3> QED BY <1>5, <3>2, <3>3, <3>4, AppendProperties
  <2> QED BY <2>1, <2>2
<1>8. Len(history'[o]) <= terms[o].executionIntervals
  <2>1. Len(history'[o]) \in Int
    <3>1. StoreTypeOK'
      BY NextIInv DEF IInv, TypeOK
    <3> QED BY <1>2, <3>1, LenProperties DEF StoreTypeOK
  <2> QED BY <1>5, <1>7, <2>1
<1>9. \A p \in Orders : Len(history'[p]) <= terms[p].executionIntervals
  <2> TAKE p \in Orders
  <2>1. CASE p = o
    BY <1>8, <2>1
  <2>2. CASE p # o
    BY <1>6, <2>2 DEF IntervalsRemain
  <2> QED BY <2>1, <2>2
<1>10. \A p \in due' : Len(history'[p]) < terms[p].executionIntervals
  <2> TAKE p \in due'
  <2>1. p \in due /\ p # o
    BY <1>4
  <2>2. p \in Orders
    BY <1>1, <2>1, DueAreOrders
  <2>3. history'[p] = history[p]
    BY <1>6, <2>1, <2>2
  <2> QED BY <2>1, <2>3 DEF IntervalsRemain
<1> QED BY <1>9, <1>10 DEF IntervalsRemain

\* The request that processOrder goes on with.
LEMMA EnqueuedRequest ==
    ASSUME ProcessorTypeOK, processOrder, processor'.pc = "enqueue"
    PROVE  LET o == Head(processor.batch).order
           IN  /\ ~allExecuted(o, Len(history[o]))
               /\ processor'.batch = processor.batch
               /\ \E hint \in Prices \cup {NoPrice} :
                    LET r == request(o, Head(processor.batch).row, Len(history[o]),
                                     hint, NoCaller)
                    IN  processor'.request = r /\ ~belowMinimum(o, r.target)
<1> DEFINE o == Head(processor.batch).order
           row == Head(processor.batch).row
<1>1. processor.pc = "order"
  BY DEF processOrder
<1>2. processor.batch # <<>>
  BY <1>1, BusyProcessor
<1>3. ~nextOrder
  BY <1>2, NextBatch
<1>4. processor'.pc # "complete"
  OBVIOUS
<1>5. IF allExecuted(o, Len(history[o]))
      THEN processor' = [processor EXCEPT !.pc = "complete"]
      ELSE \E hint \in Prices \cup {NoPrice} :
           LET r == request(o, row, Len(history[o]), hint, NoCaller) IN
           IF belowMinimum(o, r.target) THEN nextOrder
           ELSE processor' = [pc |-> "enqueue", request |-> r, batch |-> processor.batch]
  BY <1>3 DEF processOrder
<1>6. ~allExecuted(o, Len(history[o]))
  <2>1. "pc" \in DOMAIN processor
    BY DEF ProcessorTypeOK
  <2> QED BY <1>4, <1>5, <2>1
<1>7. PICK hint \in Prices \cup {NoPrice} :
           LET r == request(o, row, Len(history[o]), hint, NoCaller) IN
           IF belowMinimum(o, r.target) THEN nextOrder
           ELSE processor' = [pc |-> "enqueue", request |-> r, batch |-> processor.batch]
  BY <1>5, <1>6
<1>8. LET r == request(o, row, Len(history[o]), hint, NoCaller) IN
      ~belowMinimum(o, r.target)
      /\ processor' = [pc |-> "enqueue", request |-> r, batch |-> processor.batch]
  BY <1>3, <1>7
<1> QED BY <1>6, <1>8

LEMMA IntervalsRemainStep ==
    ASSUME IInv, OneAtATime, IntervalsRemain, Next, Callers = {}
    PROVE  IntervalsRemain'
<1>1. ProcessorTypeOK /\ QueueTypeOK /\ WorkerTypeOK /\ StoreTypeOK /\ ProcessorAtHead
  BY DEF IInv, TypeOK
<1>2. ASSUME UNCHANGED history, due' \subseteq due PROVE IntervalsRemain'
  BY <1>2 DEF IntervalsRemain
<1>3. CASE UNCHANGED <<history, queue, worker>> /\ processor'.pc # "enqueue"
  <2>1. due' \subseteq due
    BY <1>3 DEF due
  <2> QED BY <1>2, <1>3, <2>1
<1>4. CASE UNCHANGED <<history, processor, queue, worker>>
  <2>1. due' = due
    BY <1>4 DEF due
  <2> QED BY <1>2, <1>4, <2>1
<1>5. CASE processOrder
  <2> DEFINE o == Head(processor.batch).order
  <2>1. processor.pc = "order" /\ UNCHANGED <<history, queue, worker>>
    BY <1>5 DEF processOrder
  <2>2. CASE processor'.pc # "enqueue"
    BY <1>3, <2>1, <2>2
  <2>3. CASE processor'.pc = "enqueue"
    <3>1. ~allExecuted(o, Len(history[o]))
          /\ \E hint \in Prices \cup {NoPrice} :
                processor'.request = request(o, Head(processor.batch).row,
                                             Len(history[o]), hint, NoCaller)
      BY <1>1, <1>5, <2>3, EnqueuedRequest
    <3>2. o \in Orders /\ Len(history[o]) \in Nat /\ terms[o].executionIntervals \in Nat
      <4>1. processor.batch \in Seq(Item) /\ processor.batch # <<>>
        BY <1>1, <2>1, BusyProcessor
      <4>2. Head(processor.batch) \in Item
        BY <4>1, HeadAndTail
      <4>3. o \in Orders
        BY <4>2 DEF Item
      <4>4. Len(history[o]) \in Nat
        BY <1>1, <4>3, HistoryType
      <4>5. terms[o].executionIntervals \in Nat
        BY <4>3, IntervalsType
      <4> QED BY <4>3, <4>4, <4>5
    <3>3. Len(history[o]) < terms[o].executionIntervals
      BY <3>1, <3>2 DEF allExecuted
    <3>4. processor'.request.order = o
      BY <3>1 DEF request
    <3>5. due' \subseteq due \cup {o}
      BY <2>1, <2>3, <3>4 DEF due
    <3> QED BY <2>1, <3>3, <3>5 DEF IntervalsRemain
  <2> QED BY <2>2, <2>3
<1>6. CASE processExecutableOrders \/ completeOrder
  <2>1. UNCHANGED <<history, queue, worker>> /\ processor'.pc # "enqueue"
    <3>1. CASE processExecutableOrders
      BY <3>1 DEF processExecutableOrders
    <3>2. CASE completeOrder
      BY <1>1, <3>2, BusyProcessor, NextBatch DEF completeOrder
    <3> QED BY <1>6, <3>1, <3>2
  <2> QED BY <1>3, <2>1
<1>7. CASE enqueue
  <2> DEFINE r == processor.request
  <2>1. processor.pc = "enqueue" /\ UNCHANGED <<history, worker>> /\ processor'.pc # "enqueue"
        /\ queue' \in {queue, Append(queue, r)}
    BY <1>1, <1>7, BusyProcessor, NextBatch DEF enqueue, storeVars
  <2>2. listed(queue') \subseteq listed(queue) \cup {r.order}
    <3>1. queue \in Seq(Request) /\ r \in Request
      BY <1>1, <2>1 DEF QueueTypeOK, ProcessorTypeOK
    <3>2. r.order \notin listed(queue)
      <4>1. r.order \in listed(processor.batch)
        BY <1>1, <2>1, BusyProcessor, HeadAndTail DEF ProcessorAtHead
      <4> QED BY <4>1 DEF OneAtATime
    <3>3. listed(Append(queue, r)) = listed(queue) \cup {r.order}
      BY <3>1, <3>2, DistinctAppend DEF OneAtATime
    <3> QED BY <2>1, <3>3
  <2>3. due' \subseteq due
    BY <2>1, <2>2 DEF due
  <2> QED BY <1>2, <2>1, <2>3
<1>8. CASE takeRequest
  <2>1. /\ queue # <<>> /\ queue \in Seq(Request) /\ UNCHANGED <<history, processor>>
        /\ worker' = [pc |-> "get", request |-> Head(queue)] /\ queue' = Tail(queue)
    BY <1>1, <1>8 DEF takeRequest, QueueTypeOK, storeVars
  <2>2. listed(queue) = {Head(queue).order} \cup listed(Tail(queue))
    BY <2>1, DistinctTail DEF OneAtATime
  <2>3. worker'.pc = "get" /\ worker'.request.order = Head(queue).order
        /\ listed(queue') = listed(Tail(queue))
    BY <2>1
  <2>4. due' \subseteq due
    BY <2>1, <2>2, <2>3 DEF due
  <2> QED BY <1>2, <2>1, <2>4
<1>9. CASE executeInterval \/ updateOrder
  <2>1. UNCHANGED <<history, processor, queue>>
    BY <1>9 DEF executeInterval, updateOrder
  <2>2. \/ worker'.pc = "idle"
        \/ worker.pc = "get" /\ worker'.pc = "record" /\ worker'.request = worker.request
    <3>1. CASE executeInterval /\ ~failExecution
      BY <3>1, ExecutionStep
    <3>2. CASE (executeInterval /\ failExecution) \/ updateOrder
      BY <3>2 DEF failExecution, updateOrder, idleWorker
    <3> QED BY <1>9, <3>1, <3>2
  <2>3. due' \subseteq due
    BY <2>1, <2>2 DEF due
  <2> QED BY <1>2, <2>1, <2>3
<1>10. CASE recordExecution
  BY <1>10, WorkerKeepsIntervals
<1>11. CASE Tick
  <2>1. /\ UNCHANGED <<history, queue>>
        /\ processor'.pc = processor.pc
        /\ processor.pc = "enqueue" => processor'.request = processor.request
        /\ worker'.pc = worker.pc
        /\ worker.pc # "idle" => worker'.request = worker.request
    BY <1>1, <1>11 DEF Tick, ProcessorTypeOK, WorkerTypeOK, idleWorker
  <2>2. due' \subseteq due
    BY <2>1 DEF due
  <2> QED BY <1>2, <2>1, <2>2
<1>12. CASE Restart
  <2>1. queue' = <<>> /\ worker'.pc = "idle" /\ processor'.pc = "idle" /\ history' = history
    BY <1>12 DEF Restart, idleProcessor, idleWorker
  <2>2. due' = {}
    BY <2>1, NothingListed DEF due
  <2> QED BY <1>2, <2>1, <2>2
<1>13. CASE Handlers \/ Monitor
  <2>1. UNCHANGED <<history, processor, queue, worker>>
    BY <1>13 DEF Handlers, Monitor, createOrder, CreateOrder, cancelOrder, writeCancelled,
       checkOrderTimeouts, expireOrder, engineVars, storeVars
  <2> QED BY <1>4, <2>1
<1> QED BY <1>5, <1>6, <1>7, <1>8, <1>9, <1>10, <1>11, <1>12, <1>13 DEF Next, Processor, Worker

LEMMA InitIntervalsRemain == Init => IntervalsRemain
<1> SUFFICES ASSUME Init PROVE IntervalsRemain
  OBVIOUS
<1>1. processor.pc = "idle" /\ queue = <<>> /\ worker.pc = "idle"
      /\ history = [o \in Orders |-> <<>>]
  BY DEF Init, InitEngine, InitStore, idleProcessor, idleWorker
<1>2. due = {}
  BY <1>1, NothingListed DEF due
<1>3. \A o \in Orders : Len(history[o]) <= terms[o].executionIntervals
  <2> TAKE o \in Orders
  <2>1. history[o] = <<>> /\ terms[o].executionIntervals \in 2..20
    BY <1>1, TermsType
  <2> QED BY <2>1
<1> QED BY <1>2, <1>3 DEF IntervalsRemain

\* While scans do not overlap and nobody executes by hand, an order is executed in
\* its number of intervals at most, whatever fails, is cancelled, expires or is
\* restarted (engine.go processOrder, executionWorker).
THEOREM IntervalsRespectedHolds ==
    ASSUME ~Overlap, Callers = {}
    PROVE  Spec => []IntervalsRespected
<1> DEFINE I == IInv /\ OneAtATime /\ IntervalsRemain
<1>1. Init => I
  BY InitIInv, InitOneAtATime, InitIntervalsRemain
<1>2. ASSUME I, [Next]_vars PROVE I'
  <2>1. IInv'
    BY <1>2, NextIInv
  <2>2. CASE Next
    BY <1>2, <2>1, <2>2, OneAtATimeStep, IntervalsRemainStep
  <2>3. CASE UNCHANGED vars
    <3>1. UNCHANGED <<history, processor, queue, worker>>
      BY <2>3 DEF vars, storeVars, engineVars
    <3>2. atWorker' = atWorker /\ due' = due
      BY <3>1 DEF atWorker, due
    <3> QED BY <1>2, <2>1, <3>1, <3>2 DEF OneAtATime, IntervalsRemain, Distinct, listed
  <2> QED BY <1>2, <2>2, <2>3
<1>3. I => IntervalsRespected
  BY DEF IntervalsRemain, IntervalsRespected
<1> QED BY <1>1, <1>2, <1>3, PTL DEF Spec

-----------------------------------------------------------------------------
(* Pace.                                                                   *)

isDue(row) == row.lastExecution \in {NULL, Interval}
AllDue(items) == \A i \in DOMAIN items : isDue(items[i].row)

\* The orders in hand of the processor or the worker.
inHand == listed(processor.batch) \cup listed(queue) \cup atWorker

\* From its listing to the update after its swap, an order stays due, and so do the
\* rows that wait to be written back.
OrdersAreDue ==
    /\ \A o \in inHand : isDue(orders[o])
    /\ AllDue(processor.batch) /\ AllDue(monitor)

LEMMA DueStaysDue ==
    ASSUME NEW row \in Row \cup {NoRow}, isDue(row)
    PROVE  isDue(older(row))
<1>1. row.lastExecution \notin 0..(Interval - 1)
  BY IntervalAssumption DEF isDue, NULL
<1> QED BY <1>1 DEF older

LEMMA DueTail ==
    ASSUME NEW items \in Seq(Item), items # <<>>, AllDue(items)
    PROVE  isDue(Head(items).row) /\ AllDue(Tail(items))
<1>1. /\ Tail(items) \in Seq(Item) /\ Len(Tail(items)) = Len(items) - 1
      /\ \A i \in 1 .. Len(Tail(items)) : Tail(items)[i] = items[i+1]
  BY HeadTailProperties
<1>2. Len(items) \in Nat \ {0} /\ DOMAIN items = 1..Len(items)
         /\ DOMAIN Tail(items) = 1..Len(Tail(items))
  BY <1>1, EmptySeq, LenProperties
<1>3. Head(items) = items[1] /\ 1 \in DOMAIN items
  BY <1>2
<1>4. \A i \in DOMAIN Tail(items) : i + 1 \in DOMAIN items /\ Tail(items)[i] = items[i+1]
  BY <1>1, <1>2
<1> QED BY <1>3, <1>4 DEF AllDue

LEMMA DueAged ==
    ASSUME NEW items \in Seq(Item), AllDue(items)
    PROVE  AllDue(aged(items))
<1>1. DOMAIN aged(items) = DOMAIN items
  BY DEF aged
<1>2. ASSUME NEW i \in DOMAIN items PROVE isDue(aged(items)[i].row)
  <2>1. items[i] \in Item
    BY ElementOfSeq, LenProperties
  <2>2. aged(items)[i].row = older(items[i].row)
    BY <2>1 DEF aged, Item
  <2> QED BY <2>1, <2>2, DueStaysDue DEF AllDue, Item
<1> QED BY <1>1, <1>2 DEF AllDue

LEMMA DueListing ==
    ASSUME StoreTypeOK, NEW some \in SUBSET {o \in Orders : executable(o)},
           NEW items \in oldestFirst(some)
    PROVE  AllDue(items) /\ \A o \in listed(items) : isDue(orders[o])
<1>1. PICK ids \in [1..Cardinality(some) -> some] :
          items = [i \in DOMAIN ids |-> [order |-> ids[i], row |-> orders[ids[i]]]]
  BY DEF oldestFirst
<1>2. DOMAIN items = DOMAIN ids /\ \A i \in DOMAIN ids : ids[i] \in some
  BY <1>1
<1>3. \A i \in DOMAIN ids : items[i].order = ids[i] /\ items[i].row = orders[ids[i]]
  BY <1>1
<1>4. \A o \in some : isDue(orders[o])
  BY DEF executable, CanExecuteInterval, isDue
<1> QED BY <1>2, <1>3, <1>4 DEF AllDue, listed

LEMMA InHandAreOrders ==
    ASSUME ProcessorTypeOK, QueueTypeOK, WorkerTypeOK
    PROVE  inHand \subseteq Orders
<1>1. ASSUME NEW i \in DOMAIN queue PROVE queue[i].order \in Orders
  <2>1. queue[i] \in Request
    BY ElementOfSeq, LenProperties DEF QueueTypeOK
  <2> QED BY <2>1 DEF Request
<1>2. ASSUME NEW i \in DOMAIN processor.batch PROVE processor.batch[i].order \in Orders
  <2>1. processor.batch \in Seq(Item)
    BY DEF ProcessorTypeOK
  <2>2. processor.batch[i] \in Item
    BY <2>1, ElementOfSeq, LenProperties
  <2> QED BY <2>2 DEF Item
<1>3. worker.pc # "idle" => worker.request.order \in Orders
  BY DEF WorkerTypeOK, idleWorker, Request
<1> QED BY <1>1, <1>2, <1>3 DEF inHand, atWorker, listed

\* Apart from a scan, no step puts an order in hand.
LEMMA InHandShrinks ==
    ASSUME IInv, OneAtATime, Next, ~processExecutableOrders, Callers = {}
    PROVE  /\ inHand' \subseteq inHand
           /\ \/ processor'.batch \in {processor.batch, aged(processor.batch), <<>>}
              \/ processor.batch # <<>> /\ processor'.batch = Tail(processor.batch)
<1>1. ProcessorTypeOK /\ QueueTypeOK /\ WorkerTypeOK /\ ProcessorAtHead
  BY DEF IInv, TypeOK
<1>2. CASE UNCHANGED <<processor, queue, worker>>
  <2>1. atWorker' = atWorker
    BY <1>2 DEF atWorker
  <2> QED BY <1>2, <2>1 DEF inHand
<1>3. CASE processOrder \/ completeOrder
  <2>1. processor.pc # "idle" /\ UNCHANGED <<queue, worker>>
    BY <1>3 DEF processOrder, completeOrder
  <2>2. processor.batch \in Seq(Item) /\ processor.batch # <<>> /\ atWorker' = atWorker
    BY <1>1, <2>1, BusyProcessor DEF atWorker
  <2>3. CASE nextOrder
    <3>1. processor'.batch = Tail(processor.batch)
      BY <1>1, <2>2, <2>3, NextBatch
    <3>2. listed(processor'.batch) \subseteq listed(processor.batch)
      BY <2>1, <2>3, BatchShrinks
    <3> QED BY <2>1, <2>2, <3>1, <3>2 DEF inHand
  <2>4. CASE ~nextOrder
    <3>1. processor'.batch = processor.batch
      BY <1>1, <1>3, <2>4 DEF processOrder, completeOrder, ProcessorTypeOK
    <3> QED BY <2>1, <2>2, <3>1 DEF inHand
  <2> QED BY <2>3, <2>4
<1>4. CASE enqueue
  <2> DEFINE r == processor.request
  <2>1. processor.pc = "enqueue" /\ nextOrder /\ worker' = worker
        /\ queue' \in {queue, Append(queue, r)}
    BY <1>4 DEF enqueue
  <2>2. processor.batch \in Seq(Item) /\ processor.batch # <<>> /\ atWorker' = atWorker
        /\ queue \in Seq(Request) /\ r \in Request /\ r.order \in listed(processor.batch)
    BY <1>1, <2>1, BusyProcessor, HeadAndTail DEF atWorker, QueueTypeOK, ProcessorTypeOK,
       ProcessorAtHead
  <2>3. processor'.batch = Tail(processor.batch)
        /\ listed(Tail(processor.batch)) \subseteq listed(processor.batch)
    BY <1>1, <2>1, <2>2, NextBatch, HeadAndTail
  <2>4. listed(queue') \subseteq listed(queue) \cup {r.order}
    <3>1. r.order \notin listed(queue)
      BY <2>2 DEF OneAtATime
    <3>2. listed(Append(queue, r)) = listed(queue) \cup {r.order}
      BY <2>2, <3>1, DistinctAppend DEF OneAtATime
    <3> QED BY <2>1, <3>2
  <2> QED BY <2>2, <2>3, <2>4 DEF inHand
<1>5. CASE takeRequest
  <2>1. /\ queue # <<>> /\ queue \in Seq(Request)
        /\ worker' = [pc |-> "get", request |-> Head(queue)]
        /\ queue' = Tail(queue) /\ processor' = processor
    BY <1>1, <1>5 DEF takeRequest, QueueTypeOK
  <2>2. listed(queue) = {Head(queue).order} \cup listed(Tail(queue))
    BY <2>1, DistinctTail DEF OneAtATime
  <2>3. atWorker' = {Head(queue).order} /\ listed(queue') = listed(Tail(queue))
        /\ listed(processor'.batch) = listed(processor.batch)
    BY <2>1 DEF atWorker
  <2> QED BY <2>1, <2>2, <2>3 DEF inHand
<1>6. CASE executeInterval \/ recordExecution \/ updateOrder
  <2>1. UNCHANGED <<processor, queue>>
    BY <1>6 DEF executeInterval, recordExecution, updateOrder
  <2>2. atWorker' \subseteq atWorker
    <3>1. CASE executeInterval /\ ~failExecution
      BY <3>1, ExecutionStep DEF atWorker
    <3>2. CASE (executeInterval /\ failExecution) \/ updateOrder
      BY <3>2 DEF failExecution, updateOrder, atWorker, idleWorker
    <3>3. CASE recordExecution
      BY <1>1, <3>3 DEF recordExecution, atWorker, WorkerTypeOK, idleWorker
    <3> QED BY <1>6, <3>1, <3>2, <3>3
  <2> QED BY <2>1, <2>2 DEF inHand
<1>7. CASE Tick
  <2>1. processor.batch \in Seq(Item)
    BY <1>1 DEF ProcessorTypeOK
  <2>2. processor'.batch = aged(processor.batch) /\ queue' = queue
    BY <1>1, <1>7 DEF Tick, ProcessorTypeOK
  <2>3. listed(processor'.batch) = listed(processor.batch)
    BY <2>1, <2>2, AgedType
  <2>4. atWorker' = atWorker
    BY <1>1, <1>7 DEF Tick, atWorker, WorkerTypeOK, idleWorker
  <2> QED BY <2>2, <2>3, <2>4 DEF inHand
<1>8. CASE Restart
  <2>1. processor'.batch = <<>> /\ queue' = <<>> /\ worker'.pc = "idle"
    BY <1>8 DEF Restart, idleProcessor, idleWorker
  <2>2. inHand' = {}
    BY <2>1, NothingListed DEF inHand, atWorker
  <2> QED BY <2>1, <2>2
<1>9. CASE Handlers \/ Monitor
  <2>1. UNCHANGED <<processor, queue, worker>>
    BY <1>9 DEF Handlers, Monitor, createOrder, cancelOrder, writeCancelled,
       checkOrderTimeouts, expireOrder, engineVars
  <2> QED BY <1>2, <2>1
<1> QED BY <1>3, <1>4, <1>5, <1>6, <1>7, <1>8, <1>9 DEF Next, Processor, Worker

\* Who writes a row writes one that is due, but for the worker at the end.
LEMMA RowsStayDue ==
    ASSUME IInv, OrdersAreDue, Next, Cancellers = {}, NEW o \in Orders, isDue(orders[o])
    PROVE  isDue(orders'[o]) \/ (updateOrder /\ o \in atWorker)
<1>1. StoreTypeOK /\ ProcessorTypeOK /\ WorkerTypeOK /\ HandlersTypeOK
  BY DEF IInv, TypeOK
<1>2. orders \in [Orders -> Row \cup {NoRow}]
  BY <1>1 DEF StoreTypeOK
<1>3. CASE \E p \in Orders : createOrder(p)
  BY <1>2, <1>3 DEF createOrder, CreateOrder, isDue
<1>4. CASE completeOrder
  <2>1. processor.batch \in Seq(Item) /\ processor.batch # <<>>
    BY <1>1, <1>4, BusyProcessor DEF completeOrder
  <2>2. isDue(Head(processor.batch).row) /\ Head(processor.batch).row \in Row
    BY <2>1, DueTail, HeadAndTail DEF OrdersAreDue, Item
  <2>3. isDue([Head(processor.batch).row EXCEPT !.status = "completed"])
    BY <2>2 DEF isDue, Row
  <2> QED BY <1>2, <1>4, <2>3 DEF completeOrder, UpdateOrder
<1>5. CASE expireOrder
  <2>1. monitor \in Seq(Item) /\ monitor # <<>>
    BY <1>1, <1>5 DEF expireOrder, HandlersTypeOK
  <2>2. isDue(Head(monitor).row) /\ Head(monitor).row \in Row
    BY <2>1, DueTail, HeadAndTail DEF OrdersAreDue, Item
  <2>3. isDue([Head(monitor).row EXCEPT !.status = "expired"])
    BY <2>2 DEF isDue, Row
  <2> QED BY <1>2, <1>5, <2>3 DEF expireOrder, UpdateOrder
<1>6. CASE updateOrder
  BY <1>2, <1>6 DEF updateOrder, UpdateOrder, atWorker
<1>7. CASE Tick
  BY <1>2, <1>7, DueStaysDue DEF Tick
<1>8. CASE UNCHANGED orders
  BY <1>8
<1>9. CASE processExecutableOrders \/ processOrder \/ enqueue
  <2>1. UNCHANGED orders
    BY <1>9 DEF processExecutableOrders, processOrder, enqueue, storeVars
  <2> QED BY <1>8, <2>1
<1>10. CASE takeRequest \/ executeInterval \/ recordExecution
  <2>1. UNCHANGED orders
    BY <1>10 DEF takeRequest, executeInterval, recordExecution, storeVars
  <2> QED BY <1>8, <2>1
<1>11. CASE checkOrderTimeouts \/ Restart \/ \E c \in Callers : Caller(c)
  <2>1. UNCHANGED orders
    BY <1>11 DEF checkOrderTimeouts, Restart, Caller, ExecuteOrderManually, readHistory,
       enqueueCall, storeVars
  <2> QED BY <1>8, <2>1
<1> QED BY <1>3, <1>4, <1>5, <1>6, <1>7, <1>9, <1>10, <1>11
     DEF Next, Handlers, Processor, Worker, Monitor

LEMMA MonitorStaysDue ==
    ASSUME IInv, AllDue(monitor), Next
    PROVE  AllDue(monitor')
<1>1. monitor \in Seq(Item) /\ StoreTypeOK
  BY DEF IInv, TypeOK, HandlersTypeOK
<1>2. CASE checkOrderTimeouts
  <2>1. PICK items \in oldestFirst({o \in Orders : executable(o) /\ IsTimedOut(o)}) :
            monitor' = items
    BY <1>2 DEF checkOrderTimeouts
  <2> DEFINE some == {o \in Orders : executable(o) /\ IsTimedOut(o)}
  <2>2. some \in SUBSET {o \in Orders : executable(o)}
    OBVIOUS
  <2>3. monitor' \in oldestFirst(some)
    BY <2>1
  <2> HIDE DEF some
  <2> QED BY <1>1, <2>2, <2>3, DueListing
<1>3. CASE expireOrder
  BY <1>1, <1>3, DueTail DEF expireOrder
<1>4. CASE Tick
  BY <1>1, <1>4, DueAged DEF Tick
<1>5. CASE Restart
  BY <1>5 DEF Restart, AllDue
<1>6. CASE UNCHANGED monitor
  BY <1>6
<1>7. CASE Handlers \/ ((Processor \/ Worker) /\ UNCHANGED serviceVars)
  <2>1. UNCHANGED monitor
    BY <1>7 DEF Handlers, createOrder, cancelOrder, writeCancelled, serviceVars
  <2> QED BY <1>6, <2>1
<1>8. \/ Handlers \/ ((Processor \/ Worker) /\ UNCHANGED serviceVars)
      \/ checkOrderTimeouts \/ expireOrder \/ Tick \/ Restart
  BY DEF Next, Monitor
<1> QED BY <1>2, <1>3, <1>4, <1>5, <1>7, <1>8

LEMMA OrdersAreDueStep ==
    ASSUME IInv, OneAtATime, OrdersAreDue, Next, ~Overlap, Callers = {}, Cancellers = {}
    PROVE  OrdersAreDue'
<1>1. ProcessorTypeOK /\ QueueTypeOK /\ WorkerTypeOK /\ StoreTypeOK
  BY DEF IInv, TypeOK
<1>2. AllDue(monitor')
  <2>1. AllDue(monitor)
    BY DEF OrdersAreDue
  <2> QED BY <2>1, MonitorStaysDue
<1>3. inHand \subseteq Orders
  BY <1>1, InHandAreOrders
<1>4. CASE processExecutableOrders
  <2>1. PICK items \in GetExecutableOrders : processor' = [pc |-> "order", batch |-> items]
    BY <1>4 DEF processExecutableOrders
  <2>2. AllDue(items) /\ \A o \in listed(items) : isDue(orders[o])
    BY <1>1, <2>1, DueListing DEF GetExecutableOrders
  <2>3. queue' = <<>> /\ worker'.pc = "idle" /\ orders' = orders /\ processor'.batch = items
    BY <1>4, <2>1 DEF processExecutableOrders
  <2>4. inHand' = listed(items)
    BY <2>3, NothingListed DEF inHand, atWorker
  <2> QED BY <1>2, <2>2, <2>3, <2>4 DEF OrdersAreDue
<1>5. CASE ~processExecutableOrders
  <2>1. AllDue(processor'.batch)
    <3>1. processor.batch \in Seq(Item) /\ AllDue(processor.batch) /\ AllDue(<<>>)
      BY <1>1 DEF ProcessorTypeOK, OrdersAreDue, AllDue
    <3> QED BY <1>5, <3>1, InHandShrinks, DueTail, DueAged
  <2>2. \A o \in inHand' : isDue(orders'[o])
    <3> SUFFICES ASSUME NEW o \in inHand' PROVE isDue(orders'[o])
      OBVIOUS
    <3>1. o \in inHand /\ o \in Orders
      BY <1>3, <1>5, InHandShrinks
    <3>2. isDue(orders[o])
      BY <3>1 DEF OrdersAreDue
    <3>3. updateOrder => o \notin atWorker
      <4> SUFFICES ASSUME updateOrder, o \in atWorker PROVE FALSE
        OBVIOUS
      <4>1. UNCHANGED <<processor, queue>> /\ worker'.pc = "idle"
        BY DEF updateOrder, idleWorker
      <4>2. o \in listed(processor.batch) \cup listed(queue)
        BY <4>1 DEF inHand, atWorker
      <4> QED BY <4>2 DEF OneAtATime
    <3> QED BY <3>1, <3>2, <3>3, RowsStayDue
  <2> QED BY <1>2, <2>1, <2>2 DEF OrdersAreDue
<1> QED BY <1>4, <1>5

\* While scans do not overlap, and nobody executes or cancels by hand, a swap is made
\* only for an order whose row says that its next execution is due, whatever fails,
\* expires or is restarted (engine.go processExecutableOrders, executeInterval).
THEOREM SwapsArePacedHolds ==
    ASSUME ~Overlap, Callers = {}, Cancellers = {}
    PROVE  Spec => SwapsArePaced
<1> DEFINE I == IInv /\ OneAtATime /\ OrdersAreDue
           Paced == \A o \in Orders : swapped'[o] # swapped[o] => isDue(orders[o])
<1>1. Init => I
  <2> SUFFICES ASSUME Init PROVE OrdersAreDue
    BY InitIInv, InitOneAtATime
  <2>1. processor.batch = <<>> /\ queue = <<>> /\ worker.pc = "idle" /\ monitor = <<>>
    BY DEF Init, InitEngine, idleProcessor, idleWorker
  <2> QED BY <2>1, NothingListed DEF OrdersAreDue, AllDue, inHand, atWorker
<1>2. ASSUME I, [Next]_vars PROVE I'
  <2>1. IInv'
    BY <1>2, NextIInv
  <2>2. CASE Next
    BY <1>2, <2>1, <2>2, OneAtATimeStep, OrdersAreDueStep
  <2>3. CASE UNCHANGED vars
    <3>1. UNCHANGED <<orders, processor, queue, worker, monitor>>
      BY <2>3 DEF vars, storeVars, engineVars, serviceVars
    <3>2. atWorker' = atWorker /\ inHand' = inHand
      BY <3>1 DEF atWorker, inHand
    <3> QED BY <1>2, <2>1, <3>1, <3>2 DEF OneAtATime, OrdersAreDue, Distinct, listed
  <2> QED BY <1>2, <2>2, <2>3
<1>3. ASSUME I, [Next]_vars PROVE Paced
  <2> SUFFICES ASSUME NEW o \in Orders, swapped'[o] # swapped[o] PROVE isDue(orders[o])
    OBVIOUS
  <2>1. executeInterval /\ ~failExecution
    BY <1>3 DEF Next, Handlers, createOrder, CreateOrder, Caller, ExecuteOrderManually,
       readHistory, enqueueCall, cancelOrder, writeCancelled, Processor, Worker,
       processExecutableOrders, processOrder, completeOrder, enqueue, takeRequest,
       executeInterval, failExecution, recordExecution, updateOrder, Monitor,
       checkOrderTimeouts, expireOrder, Tick, Restart, engineVars, vars
  <2>2. worker.pc = "get" /\ swapped \in [Orders -> Nat]
        /\ \E k : swapped' = [swapped EXCEPT ![worker.request.order] = k]
    BY <1>3, <2>1, ExecutionStep DEF IInv, TypeOK, WorkerTypeOK
  <2>3. o = worker.request.order
    BY <2>2
  <2>4. o \in inHand
    BY <2>2, <2>3 DEF inHand, atWorker
  <2> QED BY <1>3, <2>4 DEF OrdersAreDue
<1>4. ASSUME I, [Next]_vars PROVE [Paced]_vars
  BY <1>3, <1>4
<1>5. [Paced]_vars => [\A o \in Orders : swapped'[o] # swapped[o] =>
                          orders[o].lastExecution \in {NULL, Interval}]_vars
  BY DEF isDue
<1> QED BY <1>1, <1>2, <1>4, <1>5, PTL DEF Spec, SwapsArePaced

-----------------------------------------------------------------------------
(* The books of an order while nothing overlaps, fails, cancels, times out *)
(* or is executed by hand.                                                 *)

Calm == /\ ~Overlap /\ Callers = {} /\ Cancellers = {} /\ MaxFailures = 0
        /\ \A o \in Orders : terms[o].timeoutTicks = NULL

\* The worker has swapped for the order and not yet written its row.
Held(o) == worker.pc \in {"record", "update"} /\ worker.request.order = o

\* shares that were swapped, be they recorded or not
shares(o) == Len(history[o]) + (IF worker.pc = "record" /\ worker.request.order = o THEN 1 ELSE 0)

\* the order's amount, 0.98% of it, and a unit for each interval
WithinDeviation(o, amount) ==
    amount * 5000 <= terms[o].sourceAmount * 5049 + 5000 * terms[o].executionIntervals

OrderMatches(o) ==
    /\ ~Held(o) => orders[o].executedAmount = swapped[o]
    /\ Held(o) => worker.row.executedAmount = swapped[o]
    /\ recorded(o) + unrecorded(o) = swapped[o]
    /\ shares(o) < terms[o].executionIntervals => swapped[o] <= terms[o].sourceAmount
    /\ WithinDeviation(o, swapped[o])

RowsMatch(items) == \A i \in DOMAIN items :
                        items[i].row.executedAmount = swapped[items[i].order]

elements(s) == {s[i] : i \in DOMAIN s}

\* requests on their way to a swap
asked == elements(queue)
             \cup (IF processor.pc = "enqueue" THEN {processor.request} ELSE {})
             \cup (IF worker.pc = "get" THEN {worker.request} ELSE {})

\* What a request asks for is an equal share of what remains.
IsShare(r) == /\ r.target.num = terms[r.order].sourceAmount - swapped[r.order]
              /\ r.target.den = terms[r.order].executionIntervals - Len(history[r.order])

NothingTimesOut == monitor = <<>> /\ \A o \in Orders : timeLeft[o] = NULL

BooksMatch ==
    /\ NothingTimesOut
    /\ \A o \in Orders : OrderMatches(o)
    /\ worker.pc = "record" => worker.amount >= 0
    /\ RowsMatch(processor.batch)
    /\ \A r \in asked : IsShare(r)

CalmInv == IInv /\ OneAtATime /\ IntervalsRemain /\ BooksMatch

LEMMA NothingFails ==
    ASSUME StoreTypeOK, MaxFailures = 0
    PROVE  ~Fails
<1>1. failures = 0
  BY DEF StoreTypeOK
<1> QED BY <1>1 DEF Fails

\* A whole amount adds itself to what n/d is rounded to.
LEMMA RoundedShift ==
    ASSUME NEW a \in Nat, NEW n \in Nat, NEW d \in Nat \ {0}
    PROVE  rounded(a * d + n, d) = a + rounded(n, d)
<1> DEFINE t == a * d + n
           p == rounded(t, d)
           q == rounded(n, d)
           s == p - a
<1>1. t \in Nat /\ a * d \in Nat
  OBVIOUS
<1>2. p \in Int /\ 2 * d * p - d <= 2 * t /\ 2 * t < 2 * d * p + d
  <2> HIDE DEF t
  <2> QED BY <1>1, RoundedBounds
<1>3. q \in Int /\ 2 * d * q - d <= 2 * n /\ 2 * n < 2 * d * q + d
  BY RoundedBounds
<1>4. s \in Int /\ 2 * d * p = 2 * d * s + 2 * (a * d)
  <2> HIDE DEF p
  <2> QED BY <1>2
<1>5. 2 * t = 2 * (a * d) + 2 * n
  BY <1>1
<1>6. 2 * d * s - d <= 2 * n /\ 2 * n < 2 * d * s + d
  <2>1. 2 * d * s \in Int /\ 2 * d * p \in Int /\ 2 * t \in Int
    <3> HIDE DEF t, p, s
    <3> QED BY <1>1, <1>2, <1>4
  <2> HIDE DEF t, p, s
  <2> QED BY <1>1, <1>2, <1>4, <1>5, <2>1
<1> HIDE DEF s, q
<1>7. s <= q
  <2> SUFFICES ASSUME s >= q + 1 PROVE FALSE
    BY <1>3, <1>4
  <2>1. d * s >= d * (q + 1)
    BY <1>3, <1>4
  <2> QED BY <1>3, <1>4, <1>6, <2>1
<1>8. q <= s
  <2> SUFFICES ASSUME q >= s + 1 PROVE FALSE
    BY <1>3, <1>4
  <2>1. d * q >= d * (s + 1)
    BY <1>3, <1>4
  <2> QED BY <1>3, <1>4, <1>6, <2>1
<1>9. s = q
  BY <1>3, <1>4, <1>7, <1>8
<1>10. p = a + q
  <2> HIDE DEF p
  <2> QED BY <1>2, <1>3, <1>9 DEF s
<1> QED BY <1>10 DEF q

swapOfShare(rem, k, m) == rounded(rem * (4950 + m), k * 5000)

\* The swap of a share of what remains exceeds it only when it is the last one,
\* and then by 0.98% and a rounding.
LEMMA ShareBounds ==
    ASSUME NEW rem \in Nat, NEW k \in Nat \ {0}, NEW m \in Nat, m <= 99
    PROVE  /\ swapOfShare(rem, k, m) \in Nat
           /\ k >= 2 => swapOfShare(rem, k, m) <= rem
           /\ 10000 * swapOfShare(rem, k, m) <= 10098 * rem + 5000
<1> DEFINE n == rem * (4950 + m)
           d == k * 5000
           w == rounded(n, d)
<1>1. n \in Nat /\ n <= 5049 * rem
  <2>1. 4950 + m \in Nat /\ 4950 + m <= 5049
    OBVIOUS
  <2>2. \A c \in Nat : c <= 5049 => rem * c \in Nat /\ rem * c <= 5049 * rem
    OBVIOUS
  <2> QED BY <2>1, <2>2
<1>2. d \in Nat \ {0}
  OBVIOUS
<1>3. w \in Int /\ w >= 0 /\ 2 * d * w - d <= 2 * n
  <2> HIDE DEF n, d
  <2> QED BY <1>1, <1>2, RoundedBounds
<1>4. k * (10000 * w - 5000) <= 10098 * rem
  <2>1. 2 * d * w - d = k * (10000 * w - 5000)
    <3> HIDE DEF w
    <3> QED BY <1>3
  <2>2. k * (10000 * w - 5000) \in Int
    <3> HIDE DEF w
    <3> QED BY <1>3
  <2> HIDE DEF w, n, d
  <2> QED BY <1>1, <1>3, <2>1, <2>2
<1> HIDE DEF w
<1>5. 10000 * w <= 10098 * rem + 5000
  <2> SUFFICES ASSUME 10000 * w - 5000 > 10098 * rem PROVE FALSE
    BY <1>3
  <2>1. k * (10000 * w - 5000) >= 10000 * w - 5000
    BY <1>3
  <2> QED BY <1>3, <1>4, <2>1
<1>6. ASSUME k >= 2 PROVE w <= rem
  <2> SUFFICES ASSUME w >= rem + 1 PROVE FALSE
    BY <1>3
  <2>1. 10000 * w - 5000 >= 10000 * rem + 5000
    BY <1>3
  <2>2. k * (10000 * w - 5000) >= 2 * (10000 * w - 5000)
    BY <1>3, <1>6, <2>1
  <2> QED BY <1>3, <1>4, <2>1, <2>2
<1>7. w \in Nat
  BY <1>3
<1> QED BY <1>5, <1>6, <1>7 DEF w, swapOfShare

-----------------------------------------------------------------------------
(* Who changes what.                                                       *)

LEMMA SwapsAndRecords ==
    ASSUME Next
    PROVE  /\ UNCHANGED swapped \/ (executeInterval /\ ~failExecution)
           /\ UNCHANGED history \/ recordExecution
<1>1. UNCHANGED swapped \/ (executeInterval /\ ~failExecution)
  BY DEF Next, Handlers, Caller, Processor, Worker, Monitor, engineVars, createOrder,
     cancelOrder, writeCancelled, ExecuteOrderManually, readHistory, enqueueCall,
     processExecutableOrders, processOrder, completeOrder, enqueue, takeRequest,
     executeInterval, failExecution, recordExecution, updateOrder, checkOrderTimeouts,
     expireOrder, Tick, Restart
<1>2. UNCHANGED history \/ recordExecution
  BY DEF Next, Handlers, Caller, Processor, Worker, Monitor, storeVars, createOrder,
     CreateOrder, cancelOrder, writeCancelled, ExecuteOrderManually, readHistory,
     enqueueCall, processExecutableOrders, processOrder, completeOrder, enqueue,
     takeRequest, executeInterval, updateOrder, checkOrderTimeouts, expireOrder, Tick,
     Restart
<1> QED BY <1>1, <1>2

LEMMA NothingTimesOutStep ==
    ASSUME IInv, NothingTimesOut, Next
    PROVE  NothingTimesOut' /\ ~checkOrderTimeouts /\ ~expireOrder
<1>1. StoreTypeOK /\ monitor = <<>> /\ monitor \in Seq(Item)
      /\ \A o \in Orders : timeLeft[o] = NULL
  BY DEF IInv, TypeOK, HandlersTypeOK, NothingTimesOut
<1>2. ~expireOrder
  BY <1>1 DEF expireOrder
<1>3. ~checkOrderTimeouts
  <2> SUFFICES ASSUME checkOrderTimeouts PROVE FALSE
    OBVIOUS
  <2> DEFINE some == {o \in Orders : executable(o) /\ IsTimedOut(o)}
  <2>1. some = {} /\ some \in SUBSET Inserted
    BY <1>1 DEF IsTimedOut, NULL
  <2>2. PICK items \in oldestFirst(some) : items # <<>>
    BY DEF checkOrderTimeouts
  <2> HIDE DEF some
  <2>3. items \in Seq(Item) /\ listed(items) \subseteq some
    BY <1>1, <2>1, <2>2, OldestFirst
  <2>4. Head(items).order \in listed(items)
    BY <2>2, <2>3, HeadAndTail
  <2> QED BY <2>1, <2>3, <2>4
<1>4. CASE Tick
  <2>1. monitor' = <<>>
    BY <1>1, <1>4, AgedType DEF Tick
  <2>2. \A o \in Orders : timeLeft'[o] = NULL
    BY <1>1, <1>4 DEF Tick, NULL
  <2> QED BY <1>2, <1>3, <2>1, <2>2 DEF NothingTimesOut
<1>5. CASE ~Tick
  <2>1. monitor' = <<>> /\ timeLeft' = timeLeft
    BY <1>1, <1>2, <1>3, <1>5 DEF Next, Handlers, Caller, Processor, Worker, Monitor,
       storeVars, serviceVars, createOrder, CreateOrder, cancelOrder, writeCancelled,
       ExecuteOrderManually, readHistory, enqueueCall, processExecutableOrders,
       processOrder, completeOrder, enqueue, takeRequest, executeInterval,
       recordExecution, updateOrder, Restart
  <2> QED BY <1>1, <1>2, <1>3, <2>1 DEF NothingTimesOut
<1> QED BY <1>4, <1>5

\* The swap of a share, and the row that the worker is going to write.
LEMMA ShareIsSwapped ==
    ASSUME Calm, CalmInv, executeInterval, ~failExecution
    PROVE  LET o == worker.request.order
               whole == worker'.amount
           IN  /\ worker.pc = "get" /\ o \in Orders /\ UNCHANGED <<orders, history>>
               /\ worker'.pc = "record" /\ worker'.request = worker.request
               /\ whole \in Nat
               /\ worker'.row.executedAmount = swapped[o] + whole
               /\ swapped' = [swapped EXCEPT ![o] = @ + whole]
               /\ Len(history[o]) + 1 < terms[o].executionIntervals
                     => swapped[o] + whole <= terms[o].sourceAmount
               /\ WithinDeviation(o, swapped[o] + whole)
<1> DEFINE r == worker.request
           o == r.order
<1>1. StoreTypeOK /\ WorkerTypeOK /\ IInv
  BY DEF CalmInv, IInv, TypeOK
<1>2. worker.pc = "get" /\ r \in Request /\ o \in Orders /\ UNCHANGED <<orders, history>>
  BY <1>1 DEF executeInterval, WorkerTypeOK, idleWorker, Request
<1> DEFINE intervals == terms[o].executionIntervals
           source == terms[o].sourceAmount
           done == Len(history[o])
           rem == source - swapped[o]
           k == intervals - done
<1>3. intervals \in Nat /\ source \in Nat /\ done \in Nat /\ swapped[o] \in Nat
  <2>1. intervals \in Nat /\ source \in Nat
    BY <1>2, IntervalsType, TermsType
  <2>2. done \in Nat
    BY <1>1, <1>2, HistoryType
  <2>3. swapped[o] \in Nat
    BY <1>1, <1>2 DEF WorkerTypeOK
  <2> QED BY <2>1, <2>2, <2>3
<1>4. done < intervals
  <2>1. o \in due
    BY <1>2 DEF due
  <2> QED BY <2>1 DEF CalmInv, IntervalsRemain
<1>5. swapped[o] <= source /\ orders[o].executedAmount = swapped[o]
  <2>1. shares(o) = done
    BY <1>2, <1>3 DEF shares
  <2>2. ~Held(o) /\ OrderMatches(o)
    BY <1>2 DEF Held, CalmInv, BooksMatch
  <2>3. ~Held(o) => orders[o].executedAmount = swapped[o]
    BY <2>2 DEF OrderMatches
  <2>4. shares(o) < terms[o].executionIntervals => swapped[o] <= terms[o].sourceAmount
    BY <2>2 DEF OrderMatches
  <2> QED BY <1>4, <2>1, <2>2, <2>3, <2>4
<1>6. r.target.num = rem /\ r.target.den = k
  <2>1. r \in asked
    BY <1>2 DEF asked
  <2> QED BY <2>1 DEF CalmInv, BooksMatch, IsShare
<1>7. rem \in Nat /\ k \in Nat \ {0} /\ (done + 1 < intervals => k >= 2)
  <2> HIDE DEF intervals, source, done
  <2> QED BY <1>3, <1>4, <1>5
<1>8. PICK market \in Prices \cup {r.priceHint}, m \in Moments, later \in {0, 1} :
          LET amount == swappedAmount(r.target, m)
              whole == rounded(amount.num, amount.den)
              price == executionPrice(market, (m + later) % 100)
          IN
          /\ worker' = [pc |-> "record", request |-> r,
                        amount |-> whole, price |-> price,
                        row |-> afterExecution(r, orders[r.order], amount, price)]
          /\ swapped' = [swapped EXCEPT ![r.order] =
                             @ + (IF whole > 0 THEN whole ELSE 0)]
  BY DEF executeInterval
<1> DEFINE amount == swappedAmount(r.target, m)
           whole == swapOfShare(rem, k, m)
           price == executionPrice(market, (m + later) % 100)
           row == afterExecution(r, orders[o], amount, price)
<1>9. amount.num = rem * (4950 + m) /\ amount.den = k * 5000
  BY <1>6 DEF swappedAmount
<1>10. /\ worker'.pc = "record" /\ worker'.request = r /\ worker'.amount = whole
       /\ worker'.row = row
       /\ swapped' = [swapped EXCEPT ![o] = @ + (IF whole > 0 THEN whole ELSE 0)]
  BY <1>8, <1>9 DEF swapOfShare
<1>11. m \in Nat /\ m <= 99
  BY EngineAssumption
<1>12. whole \in Nat /\ (k >= 2 => whole <= rem) /\ 10000 * whole <= 10098 * rem + 5000
  <2> HIDE DEF rem, k
  <2>1. rem \in Nat /\ k \in Nat \ {0}
    BY <1>7
  <2>2. /\ swapOfShare(rem, k, m) \in Nat
        /\ k >= 2 => swapOfShare(rem, k, m) <= rem
        /\ 10000 * swapOfShare(rem, k, m) <= 10098 * rem + 5000
    BY <1>11, <2>1, ShareBounds
  <2> QED BY <2>2
<1>13. row.executedAmount = rounded(orders[o].executedAmount * amount.den + amount.num, amount.den)
  <2>1. orders[o] \in Row \cup {NoRow}
    BY <1>1, <1>2 DEF StoreTypeOK
  <2>2. "executedAmount" \in DOMAIN orders[o]
    BY <2>1 DEF Row, NoRow
  <2> HIDE DEF amount, price
  <2> QED BY <2>2 DEF afterExecution
<1> HIDE DEF row, amount, price
<1>14. row.executedAmount = swapped[o] + whole
  <2> DEFINE n == rem * (4950 + m)
             d == k * 5000
             s == swapped[o]
  <2>1. row.executedAmount = rounded(s * d + n, d)
    BY <1>5, <1>9, <1>13
  <2>2. n \in Nat /\ d \in Nat \ {0} /\ s \in Nat
    <3> HIDE DEF rem, k
    <3> QED BY <1>3, <1>7, <1>11
  <2>3. rounded(s * d + n, d) = s + rounded(n, d)
    <3> HIDE DEF n, d, s
    <3> QED BY <2>2, RoundedShift
  <2>4. whole = rounded(n, d)
    BY DEF swapOfShare
  <2> HIDE DEF n, d
  <2> QED BY <2>1, <2>3, <2>4
<1> HIDE DEF whole
<1>15. swapped' = [swapped EXCEPT ![o] = @ + whole]
  <2>1. (IF whole > 0 THEN whole ELSE 0) = whole
    BY <1>12
  <2> QED BY <1>10, <2>1
<1>16. done + 1 < intervals => swapped[o] + whole <= source
  <2>1. rem = source - swapped[o]
    OBVIOUS
  <2> HIDE DEF rem, k, whole, source, done, intervals
  <2> QED BY <1>3, <1>7, <1>12, <2>1
<1>17. WithinDeviation(o, swapped[o] + whole)
  <2>1. rem = source - swapped[o] /\ intervals >= 2
    BY <1>2, IntervalsType
  <2> DEFINE s == swapped[o]
  <2> HIDE DEF rem, k, whole, source, intervals, done, s
  <2>2. 10000 * (s + whole) <= 10098 * source + 5000
    BY <1>3, <1>12, <2>1 DEF s
  <2>3. (s + whole) * 5000 <= source * 5049 + 5000 * intervals
    BY <1>3, <1>12, <2>1, <2>2 DEF s
  <2> QED BY <2>3 DEF s, source, intervals, WithinDeviation
<1>18. worker'.row.executedAmount = swapped[o] + whole
  BY <1>10, <1>14
<1>19. whole \in Nat
  BY <1>12
<1>20. worker'.pc = "record" /\ worker'.request = worker.request /\ worker'.amount = whole
  BY <1>10
<1>21. whole = worker'.amount
  BY <1>20
<1> HIDE DEF k, rem
<1> QED BY <1>2, <1>15, <1>16, <1>17, <1>18, <1>19, <1>20, <1>21

LEMMA MatchingTail ==
    ASSUME NEW items \in Seq(Item), items # <<>>, RowsMatch(items)
    PROVE  /\ Head(items).row.executedAmount = swapped[Head(items).order]
           /\ RowsMatch(Tail(items))
<1>1. /\ Tail(items) \in Seq(Item) /\ Len(Tail(items)) = Len(items) - 1
      /\ \A i \in 1 .. Len(Tail(items)) : Tail(items)[i] = items[i+1]
  BY HeadTailProperties
<1>2. Len(items) \in Nat \ {0} /\ DOMAIN items = 1..Len(items)
         /\ DOMAIN Tail(items) = 1..Len(Tail(items))
  BY <1>1, EmptySeq, LenProperties
<1>3. Head(items) = items[1] /\ 1 \in DOMAIN items
  BY <1>2
<1>4. \A i \in DOMAIN Tail(items) : i + 1 \in DOMAIN items /\ Tail(items)[i] = items[i+1]
  BY <1>1, <1>2
<1> QED BY <1>3, <1>4 DEF RowsMatch

LEMMA MatchingAged ==
    ASSUME NEW items \in Seq(Item), RowsMatch(items)
    PROVE  RowsMatch(aged(items))
<1>1. DOMAIN aged(items) = DOMAIN items
  BY DEF aged
<1>2. ASSUME NEW i \in DOMAIN items
      PROVE  aged(items)[i].row.executedAmount = swapped[aged(items)[i].order]
  <2>1. items[i] \in Item
    BY ElementOfSeq, LenProperties
  <2>2. aged(items)[i].row = older(items[i].row) /\ aged(items)[i].order = items[i].order
    BY <2>1 DEF aged, Item
  <2> QED BY <2>1, <2>2, OlderClaims DEF RowsMatch, Item
<1> QED BY <1>1, <1>2 DEF RowsMatch

-----------------------------------------------------------------------------
(* The books of one order through every step.                              *)

LEMMA OrderStaysMatched ==
    ASSUME NEW o \in Orders, OrderMatches(o),
           swapped'[o] = swapped[o], history'[o] = history[o],
           Held(o)' <=> Held(o), unrecorded(o)' = unrecorded(o), shares(o)' = shares(o),
           Held(o) => worker'.row.executedAmount = worker.row.executedAmount,
           ~Held(o) => orders'[o].executedAmount \in {orders[o].executedAmount, swapped[o]}
    PROVE  OrderMatches(o)'
<1>1. recorded(o)' = recorded(o)
  BY DEF recorded
<1>2. ~Held(o)' => orders'[o].executedAmount = swapped'[o]
  BY DEF OrderMatches
<1>3. Held(o)' => worker'.row.executedAmount = swapped'[o]
  BY DEF OrderMatches
<1>4. recorded(o)' + unrecorded(o)' = swapped'[o]
  BY <1>1 DEF OrderMatches
<1>5. shares(o)' < terms[o].executionIntervals => swapped'[o] <= terms[o].sourceAmount
  BY DEF OrderMatches
<1>6. WithinDeviation(o, swapped'[o])
  BY DEF OrderMatches
<1> QED BY <1>2, <1>3, <1>4, <1>5, <1>6 DEF OrderMatches

LEMMA SwapKeepsBooks ==
    ASSUME Calm, CalmInv, executeInterval, ~failExecution, NEW p \in Orders
    PROVE  OrderMatches(p)'
<1> DEFINE o == worker.request.order
           whole == worker'.amount
<1>1. StoreTypeOK /\ WorkerTypeOK /\ OrderMatches(p) /\ swapped[p] \in Nat
  BY DEF CalmInv, IInv, TypeOK, BooksMatch, WorkerTypeOK
<1>2. /\ worker.pc = "get" /\ o \in Orders /\ UNCHANGED <<orders, history>>
      /\ worker'.pc = "record" /\ worker'.request = worker.request
      /\ whole \in Nat
      /\ worker'.row.executedAmount = swapped[o] + whole
      /\ swapped' = [swapped EXCEPT ![o] = @ + whole]
      /\ Len(history[o]) + 1 < terms[o].executionIntervals
            => swapped[o] + whole <= terms[o].sourceAmount
      /\ WithinDeviation(o, swapped[o] + whole)
  BY ShareIsSwapped
<1>3. CASE p # o
  <2>1. swapped'[p] = swapped[p] /\ history'[p] = history[p] /\ orders'[p] = orders[p]
    BY <1>1, <1>2, <1>3 DEF WorkerTypeOK
  <2>2. ~Held(p) /\ ~Held(p)' /\ unrecorded(p)' = unrecorded(p) /\ shares(p)' = shares(p)
    BY <1>2, <1>3 DEF Held, unrecorded, shares
  <2> QED BY <1>1, <2>1, <2>2, OrderStaysMatched
<1>4. CASE p = o
  <2>1. Held(p)' /\ ~Held(p)
    BY <1>2, <1>4 DEF Held
  <2>2. swapped'[p] = swapped[p] + whole
    BY <1>1, <1>2, <1>4 DEF WorkerTypeOK
  <2>3. worker'.row.executedAmount = swapped'[p]
    BY <1>2, <1>4, <2>2
  <2>4. recorded(p)' + unrecorded(p)' = swapped'[p]
    <3>1. recorded(p)' = recorded(p)
      BY <1>2 DEF recorded
    <3>2. unrecorded(p) = 0 /\ unrecorded(p)' = whole
      BY <1>2, <1>4 DEF unrecorded
    <3>3. recorded(p) \in Int
      BY <1>1, RecordedType DEF StoreTypeOK
    <3>4. recorded(p) + 0 = swapped[p]
      BY <1>1, <3>2 DEF OrderMatches
    <3> HIDE DEF whole
    <3> QED BY <1>1, <2>2, <3>1, <3>2, <3>3, <3>4
  <2>5. shares(p)' < terms[p].executionIntervals => swapped'[p] <= terms[p].sourceAmount
    <3>1. shares(p)' = Len(history[p]) + 1
      BY <1>2, <1>4 DEF shares
    <3> QED BY <1>2, <1>4, <2>2, <3>1
  <2>6. WithinDeviation(p, swapped'[p])
    BY <1>2, <1>4, <2>2
  <2> QED BY <2>1, <2>3, <2>4, <2>5, <2>6 DEF OrderMatches
<1> QED BY <1>3, <1>4

LEMMA RecordKeepsBooks ==
    ASSUME Calm, CalmInv, recordExecution, NEW p \in Orders
    PROVE  OrderMatches(p)'
<1> DEFINE o == worker.request.order
           record == [intervalNumber |-> worker.request.intervalNumber,
                      amount |-> worker.amount, price |-> worker.price]
<1>1. StoreTypeOK /\ WorkerTypeOK /\ OrderMatches(p)
  BY DEF CalmInv, IInv, TypeOK, BooksMatch
<1>2. /\ worker.pc = "record" /\ o \in Orders /\ UNCHANGED <<orders, swapped>>
      /\ history' = [history EXCEPT ![o] = Append(@, record)]
      /\ worker' = [worker EXCEPT !.pc = "update"]
  <2>1. ~Fails
    BY <1>1, NothingFails DEF Calm
  <2> QED BY <1>1, <2>1 DEF recordExecution, CreateExecutionRecord, WorkerTypeOK,
             idleWorker, Request
<1>3. /\ worker'.pc = "update" /\ worker'.request = worker.request
      /\ worker'.row = worker.row
  BY <1>1, <1>2 DEF WorkerTypeOK, idleWorker
<1>4. worker.amount \in Nat /\ record \in Record
  <2>1. worker.amount >= 0 /\ worker.amount \in Int
    BY <1>1, <1>2 DEF CalmInv, BooksMatch, WorkerTypeOK, idleWorker
  <2>2. record \in Record
    BY <1>1, <1>2 DEF WorkerTypeOK, idleWorker, Record, Request
  <2> QED BY <2>1, <2>2
<1>5. Held(p)' <=> Held(p)
  BY <1>2, <1>3 DEF Held
<1>6. CASE p # o
  <2>1. swapped'[p] = swapped[p] /\ history'[p] = history[p] /\ orders'[p] = orders[p]
    BY <1>1, <1>2, <1>6 DEF StoreTypeOK
  <2>2. ~Held(p) /\ unrecorded(p)' = unrecorded(p) /\ shares(p)' = shares(p)
    BY <1>3, <1>6, <2>1 DEF Held, unrecorded, shares
  <2> QED BY <1>1, <1>5, <2>1, <2>2, OrderStaysMatched
<1>7. CASE p = o
  <2>1. history'[p] = Append(history[p], record) /\ history[p] \in Seq(Record)
    BY <1>1, <1>2, <1>7 DEF StoreTypeOK
  <2>2. Held(p) /\ Held(p)' /\ worker'.row.executedAmount = swapped'[p]
    BY <1>1, <1>2, <1>3, <1>5, <1>7 DEF Held, OrderMatches
  <2>3. recorded(p)' + unrecorded(p)' = swapped'[p]
    <3>1. recorded(p)' = recorded(p) + worker.amount
      <4>1. recorded(p)' = recorded(p) + record.amount
        <5> HIDE DEF record
        <5> QED BY <1>4, <2>1, RecordAdds
      <4> QED BY <4>1
    <3>2. unrecorded(p) = worker.amount /\ unrecorded(p)' = 0
      BY <1>2, <1>3, <1>4, <1>7 DEF unrecorded
    <3>3. recorded(p) \in Int
      BY <2>1, RecordedType
    <3>4. recorded(p) + unrecorded(p) = swapped[p]
      BY <1>1 DEF OrderMatches
    <3>5. swapped'[p] = swapped[p]
      BY <1>2
    <3> QED BY <1>4, <3>1, <3>2, <3>3, <3>4, <3>5
  <2>4. shares(p)' = shares(p)
    <3>1. Len(history'[p]) = Len(history[p]) + 1 /\ Len(history[p]) \in Nat
      <4> HIDE DEF record
      <4> QED BY <1>4, <2>1, AppendProperties, LenProperties
    <3> QED BY <1>2, <1>3, <1>7, <3>1 DEF shares
  <2>5. /\ shares(p)' < terms[p].executionIntervals => swapped'[p] <= terms[p].sourceAmount
        /\ WithinDeviation(p, swapped'[p])
    BY <1>1, <1>2, <2>4 DEF OrderMatches
  <2> QED BY <2>2, <2>3, <2>5 DEF OrderMatches
<1> QED BY <1>6, <1>7

LEMMA UpdateKeepsBooks ==
    ASSUME Calm, CalmInv, updateOrder, NEW p \in Orders
    PROVE  OrderMatches(p)'
<1> DEFINE o == worker.request.order
<1>1. StoreTypeOK /\ WorkerTypeOK /\ OrderMatches(p)
  BY DEF CalmInv, IInv, TypeOK, BooksMatch
<1>2. /\ worker.pc = "update" /\ worker'.pc = "idle" /\ UNCHANGED <<history, swapped>>
      /\ orders' = [orders EXCEPT ![o] = worker.row]
  <2>1. ~Fails
    BY <1>1, NothingFails DEF Calm
  <2> QED BY <2>1 DEF updateOrder, UpdateOrder, idleWorker
<1>3. ~Held(p)' /\ unrecorded(p)' = unrecorded(p) /\ shares(p)' = shares(p)
  BY <1>2 DEF Held, unrecorded, shares
<1>4. orders'[p].executedAmount = swapped'[p]
  <2>1. CASE p = o
    <3>1. worker.row.executedAmount = swapped[p]
      BY <1>1, <1>2, <2>1 DEF Held, OrderMatches
    <3> QED BY <1>1, <1>2, <2>1, <3>1 DEF StoreTypeOK
  <2>2. CASE p # o
    <3>1. orders[p].executedAmount = swapped[p]
      BY <1>1, <2>2 DEF Held, OrderMatches
    <3> QED BY <1>1, <1>2, <2>2, <3>1 DEF StoreTypeOK
  <2> QED BY <2>1, <2>2
<1>5. recorded(p)' = recorded(p)
  BY <1>2 DEF recorded
<1>6. /\ recorded(p)' + unrecorded(p)' = swapped'[p]
      /\ shares(p)' < terms[p].executionIntervals => swapped'[p] <= terms[p].sourceAmount
      /\ WithinDeviation(p, swapped'[p])
  BY <1>1, <1>2, <1>3, <1>5 DEF OrderMatches
<1> QED BY <1>3, <1>4, <1>6 DEF OrderMatches

LEMMA OthersKeepBooks ==
    ASSUME Calm, CalmInv, Next, ~(executeInterval /\ ~failExecution), ~recordExecution,
           ~updateOrder, NEW p \in Orders
    PROVE  OrderMatches(p)'
<1>1. /\ StoreTypeOK /\ ProcessorTypeOK /\ WorkerTypeOK /\ OrderMatches(p)
      /\ IInv /\ NothingTimesOut /\ RowsMatch(processor.batch)
  BY DEF CalmInv, IInv, TypeOK, BooksMatch
<1>2. UNCHANGED <<swapped, history>> /\ ~expireOrder /\ ~Fails
  BY <1>1, SwapsAndRecords, NothingTimesOutStep, NothingFails DEF Calm
<1>3. \/ UNCHANGED worker
      \/ worker.pc \in {"idle", "get"} /\ worker'.pc \in {"idle", "get"}
      \/ Tick
  <2>1. CASE Handlers
    BY <2>1 DEF Handlers, Caller, engineVars, createOrder, cancelOrder, writeCancelled,
       ExecuteOrderManually, readHistory, enqueueCall
  <2>2. CASE Processor \/ Monitor
    BY <2>2 DEF Processor, Monitor, engineVars, processExecutableOrders,
       processOrder, completeOrder, enqueue, checkOrderTimeouts, expireOrder
  <2>3. CASE takeRequest
    BY <2>3 DEF takeRequest
  <2>4. CASE executeInterval
    <3>1. worker.pc = "get" /\ failExecution
      BY <2>4 DEF executeInterval
    <3> QED BY <3>1 DEF failExecution, idleWorker
  <2>5. CASE Restart
    BY <1>2, <2>5 DEF Restart
  <2> QED BY <2>1, <2>2, <2>3, <2>4, <2>5 DEF Next, Worker
<1>4. /\ Held(p)' <=> Held(p)
      /\ unrecorded(p)' = unrecorded(p) /\ shares(p)' = shares(p)
      /\ Held(p) => worker'.row.executedAmount = worker.row.executedAmount
  <2>1. CASE UNCHANGED worker
    BY <1>2, <2>1 DEF Held, unrecorded, shares
  <2>2. CASE worker.pc \in {"idle", "get"} /\ worker'.pc \in {"idle", "get"}
    BY <1>2, <2>2 DEF Held, unrecorded, shares
  <2>3. CASE Tick
    <3>1. CASE worker.pc \in {"record", "update"}
      <4>1. worker' = [worker EXCEPT !.row = older(@)] /\ worker.row \in Row
        BY <1>1, <2>3, <3>1 DEF Tick, WorkerTypeOK, idleWorker
      <4>2. worker'.pc = worker.pc /\ worker'.request = worker.request
            /\ worker'.amount = worker.amount /\ worker'.row = older(worker.row)
        BY <1>1, <3>1, <4>1 DEF WorkerTypeOK, idleWorker
      <4>3. worker'.row.executedAmount = worker.row.executedAmount
        BY <4>1, <4>2, OlderClaims
      <4> QED BY <1>2, <4>2, <4>3 DEF Held, unrecorded, shares
    <3>2. CASE worker.pc \notin {"record", "update"}
      <4>1. worker' = worker
        BY <2>3, <3>2 DEF Tick
      <4> QED BY <1>2, <4>1 DEF Held, unrecorded, shares
    <3> QED BY <3>1, <3>2
  <2> QED BY <1>3, <2>1, <2>2, <2>3
<1>5. ~Held(p) => orders'[p].executedAmount \in {orders[p].executedAmount, swapped[p]}
  <2>1. orders \in [Orders -> Row \cup {NoRow}]
    BY <1>1 DEF StoreTypeOK
  <2>2. CASE \E o \in Orders : createOrder(o)
    BY <2>1, <2>2 DEF createOrder, CreateOrder, NoRow
  <2>3. CASE completeOrder
    <3> DEFINE item == Head(processor.batch)
    <3>1. processor.batch \in Seq(Item) /\ processor.batch # <<>>
      BY <1>1, <2>3, BusyProcessor DEF completeOrder
    <3>2. item.row \in Row /\ item.row.executedAmount = swapped[item.order]
      BY <1>1, <3>1, MatchingTail, HeadAndTail DEF Item
    <3>3. orders' = [orders EXCEPT ![item.order] = [item.row EXCEPT !.status = "completed"]]
      BY <1>2, <2>3 DEF completeOrder, UpdateOrder
    <3>4. [item.row EXCEPT !.status = "completed"].executedAmount = item.row.executedAmount
      BY <3>2 DEF Row
    <3> HIDE DEF item
    <3> QED BY <2>1, <3>2, <3>3, <3>4
  <2>4. CASE Tick
    BY <2>1, <2>4, OlderClaims DEF Tick
  <2>5. CASE UNCHANGED orders
    BY <2>5
  <2>6. UNCHANGED orders \/ (\E o \in Orders : createOrder(o)) \/ completeOrder \/ Tick
    BY <1>2 DEF Calm, Next, Handlers, Caller, Processor, Worker, Monitor, storeVars,
       cancelOrder, writeCancelled, ExecuteOrderManually, readHistory, enqueueCall,
       processExecutableOrders, processOrder, enqueue, takeRequest, executeInterval,
       checkOrderTimeouts, Restart
  <2> QED BY <2>2, <2>3, <2>4, <2>5, <2>6
<1> QED BY <1>1, <1>2, <1>4, <1>5, OrderStaysMatched

-----------------------------------------------------------------------------
(* Listed rows and requests through every step.                            *)

\* Only the order in hand of the worker gets other books.
LEMMA BooksOfOthers ==
    ASSUME IInv, Next, NEW o \in Orders, o \notin atWorker
    PROVE  swapped'[o] = swapped[o] /\ history'[o] = history[o]
<1>1. StoreTypeOK /\ WorkerTypeOK
  BY DEF IInv, TypeOK
<1>2. swapped'[o] = swapped[o]
  <2>1. CASE executeInterval /\ ~failExecution
    <3>1. worker.pc = "get"
          /\ \E k : swapped' = [swapped EXCEPT ![worker.request.order] = k]
      BY <2>1, ExecutionStep
    <3> QED BY <1>1, <3>1 DEF atWorker, WorkerTypeOK
  <2> QED BY <2>1, SwapsAndRecords
<1>3. history'[o] = history[o]
  <2>1. CASE recordExecution
    <3>1. worker.pc = "record"
          /\ \E k : history' \in {history, [history EXCEPT ![worker.request.order] = k]}
      BY <2>1 DEF recordExecution, CreateExecutionRecord
    <3> QED BY <1>1, <3>1 DEF atWorker, StoreTypeOK
  <2> QED BY <2>1, SwapsAndRecords
<1> QED BY <1>2, <1>3

LEMMA BatchStaysMatched ==
    ASSUME CalmInv, Next, ~Overlap, Callers = {}
    PROVE  RowsMatch(processor.batch)'
<1>1. /\ IInv /\ OneAtATime /\ ProcessorTypeOK /\ StoreTypeOK
      /\ RowsMatch(processor.batch) /\ \A o \in Orders : OrderMatches(o)
  BY DEF CalmInv, BooksMatch, IInv, TypeOK
<1>2. CASE processExecutableOrders
  <2>1. PICK items \in GetExecutableOrders : processor' = [pc |-> "order", batch |-> items]
    BY <1>2 DEF processExecutableOrders
  <2>2. PICK ids \in [1..Cardinality({o \in Orders : executable(o)})
                          -> {o \in Orders : executable(o)}] :
            items = [i \in DOMAIN ids |-> [order |-> ids[i], row |-> orders[ids[i]]]]
    BY <2>1 DEF GetExecutableOrders, oldestFirst
  <2>3. \A o \in Orders : orders[o].executedAmount = swapped[o]
    BY <1>1, <1>2 DEF processExecutableOrders, OrderMatches, Held
  <2>4. DOMAIN items = DOMAIN ids
        /\ \A i \in DOMAIN ids : ids[i] \in Orders /\ items[i].order = ids[i]
                                 /\ items[i].row = orders[ids[i]]
    BY <2>2
  <2>5. swapped' = swapped /\ processor'.batch = items
    BY <1>2, <2>1 DEF processExecutableOrders
  <2> QED BY <2>3, <2>4, <2>5 DEF RowsMatch
<1>3. CASE ~processExecutableOrders
  <2>1. processor.batch \in Seq(Item)
    BY <1>1 DEF ProcessorTypeOK
  <2>2. RowsMatch(processor'.batch)
    <3>1. RowsMatch(<<>>)
      BY DEF RowsMatch
    <3> QED BY <1>1, <1>3, <2>1, <3>1, InHandShrinks, MatchingTail, MatchingAged
  <2>3. ASSUME NEW i \in DOMAIN processor'.batch
        PROVE  swapped'[processor'.batch[i].order] = swapped[processor'.batch[i].order]
    <3> DEFINE o == processor'.batch[i].order
    <3>1. o \in listed(processor'.batch)
      BY DEF listed
    <3>2. listed(processor'.batch) \subseteq listed(processor.batch)
      <4>1. \/ processor'.batch \in {processor.batch, aged(processor.batch), <<>>}
            \/ processor.batch # <<>> /\ processor'.batch = Tail(processor.batch)
        BY <1>1, <1>3, InHandShrinks
      <4> QED BY <2>1, <4>1, AgedType, HeadAndTail, NothingListed
    <3>3. o \notin atWorker
      BY <1>1, <3>1, <3>2 DEF OneAtATime
    <3>4. o \in Orders
      <4>1. inHand \subseteq Orders
        BY <1>1, InHandAreOrders DEF IInv, TypeOK
      <4> QED BY <3>1, <3>2, <4>1 DEF inHand
    <3> HIDE DEF o
    <3>5. swapped'[o] = swapped[o]
      BY <1>1, <3>3, <3>4, BooksOfOthers
    <3> QED BY <3>5 DEF o
  <2> QED BY <2>2, <2>3 DEF RowsMatch
<1> QED BY <1>2, <1>3

LEMMA ElementsOfTail ==
    ASSUME NEW S, NEW s \in Seq(S), s # <<>>
    PROVE  elements(s) = {Head(s)} \cup elements(Tail(s))
<1>1. /\ Tail(s) \in Seq(S) /\ Len(Tail(s)) = Len(s) - 1
      /\ \A i \in 1 .. Len(Tail(s)) : Tail(s)[i] = s[i+1]
  BY HeadTailProperties
<1>2. Len(s) \in Nat \ {0} /\ DOMAIN s = 1..Len(s) /\ DOMAIN Tail(s) = 1..Len(Tail(s))
  BY <1>1, EmptySeq, LenProperties
<1>3. Head(s) = s[1] /\ 1 \in DOMAIN s
  BY <1>2
<1>4. \A i \in DOMAIN Tail(s) : i + 1 \in DOMAIN s /\ Tail(s)[i] = s[i+1]
  BY <1>1, <1>2
<1>5. \A i \in DOMAIN s : i = 1 \/ (i - 1 \in DOMAIN Tail(s) /\ Tail(s)[i-1] = s[i])
  BY <1>1, <1>2
<1>6. \A x \in elements(s) : x = Head(s) \/ x \in elements(Tail(s))
  BY <1>3, <1>5 DEF elements
<1>7. Head(s) \in elements(s)
  BY <1>3 DEF elements
<1>8. \A x \in elements(Tail(s)) : x \in elements(s)
  BY <1>4 DEF elements
<1> QED BY <1>6, <1>7, <1>8

LEMMA ElementsOfAppend ==
    ASSUME NEW S, NEW s \in Seq(S), NEW e \in S
    PROVE  elements(Append(s, e)) = elements(s) \cup {e}
<1> DEFINE n == Len(s)
           t == Append(s, e)
<1>1. /\ n \in Nat /\ DOMAIN s = 1..n /\ DOMAIN t = 1..(n + 1)
      /\ \A i \in 1..n : t[i] = s[i]
      /\ t[n + 1] = e
  <2>1. t \in Seq(S) /\ Len(t) = n + 1 /\ t[n + 1] = e /\ \A i \in 1..n : t[i] = s[i]
    BY AppendProperties
  <2>2. DOMAIN t = 1..Len(t) /\ DOMAIN s = 1..n /\ n \in Nat
    <3> HIDE DEF t
    <3> QED BY <2>1, LenProperties
  <2> QED BY <2>1, <2>2
<1> HIDE DEF t, n
<1>2. \A i \in DOMAIN t : i = n + 1 \/ i \in DOMAIN s
  BY <1>1
<1>3. (\A i \in DOMAIN s : i \in DOMAIN t /\ t[i] = s[i]) /\ n + 1 \in DOMAIN t
  BY <1>1
<1>4. elements(t) = elements(s) \cup {e}
  BY <1>1, <1>2, <1>3 DEF elements
<1> QED BY <1>4 DEF t

\* What is asked for was asked for before, but for the request of processOrder.
LEMMA AskedShrinks ==
    ASSUME IInv, Next, Callers = {}, ~(processOrder /\ processor'.pc = "enqueue")
    PROVE  asked' \subseteq asked
<1>1. ProcessorTypeOK /\ QueueTypeOK /\ WorkerTypeOK
  BY DEF IInv, TypeOK
<1>2. CASE UNCHANGED <<processor, queue, worker>>
  <2>1. asked' = asked
    BY <1>2 DEF asked, elements
  <2> QED BY <2>1
<1>3. CASE UNCHANGED <<queue, worker>> /\ processor'.pc # "enqueue"
  <2>1. elements(queue') = elements(queue)
    BY <1>3
  <2> QED BY <1>3, <2>1 DEF asked
<1>4. CASE processExecutableOrders \/ processOrder \/ completeOrder
  <2>1. UNCHANGED <<queue, worker>> /\ processor'.pc # "enqueue"
    <3>1. CASE processExecutableOrders
      BY <3>1 DEF processExecutableOrders
    <3>2. CASE processOrder
      <4>1. UNCHANGED <<queue, worker>>
        BY <3>2 DEF processOrder
      <4> QED BY <3>2, <4>1
    <3>3. CASE completeOrder
      BY <1>1, <3>3, BusyProcessor, NextBatch DEF completeOrder
    <3> QED BY <1>4, <3>1, <3>2, <3>3
  <2> QED BY <1>3, <2>1
<1>5. CASE enqueue
  <2>1. processor.pc = "enqueue" /\ worker' = worker /\ processor'.pc # "enqueue"
        /\ queue' \in {queue, Append(queue, processor.request)}
    BY <1>1, <1>5, BusyProcessor, NextBatch DEF enqueue
  <2>2. queue \in Seq(Request) /\ processor.request \in Request
    BY <1>1, <2>1 DEF QueueTypeOK, ProcessorTypeOK
  <2>3. elements(queue') \subseteq elements(queue) \cup {processor.request}
    <3>1. elements(Append(queue, processor.request)) = elements(queue) \cup {processor.request}
      BY <2>2, ElementsOfAppend
    <3> QED BY <2>1, <3>1
  <2> QED BY <2>1, <2>3 DEF asked
<1>6. CASE takeRequest
  <2>1. /\ queue # <<>> /\ queue \in Seq(Request)
        /\ worker' = [pc |-> "get", request |-> Head(queue)]
        /\ queue' = Tail(queue) /\ processor' = processor
    BY <1>1, <1>6 DEF takeRequest, QueueTypeOK
  <2>2. elements(queue) = {Head(queue)} \cup elements(queue')
    BY <2>1, ElementsOfTail
  <2>3. worker'.request = Head(queue)
    BY <2>1
  <2> QED BY <2>1, <2>2, <2>3 DEF asked
<1>7. CASE executeInterval \/ recordExecution \/ updateOrder
  <2>1. UNCHANGED <<processor, queue>>
    BY <1>7 DEF executeInterval, recordExecution, updateOrder
  <2>2. worker'.pc # "get"
    <3>1. CASE executeInterval /\ ~failExecution
      BY <3>1, ExecutionStep
    <3>2. CASE (executeInterval /\ failExecution) \/ updateOrder
      BY <3>2 DEF failExecution, updateOrder, idleWorker
    <3>3. CASE recordExecution
      BY <1>1, <3>3 DEF recordExecution, WorkerTypeOK, idleWorker
    <3> QED BY <1>7, <3>1, <3>2, <3>3
  <2>3. elements(queue') = elements(queue)
    BY <2>1
  <2> QED BY <2>1, <2>2, <2>3 DEF asked
<1>8. CASE Tick
  <2>1. /\ queue' = queue
        /\ processor'.pc = processor.pc
        /\ processor.pc = "enqueue" => processor'.request = processor.request
        /\ worker'.pc = worker.pc
        /\ worker.pc # "idle" => worker'.request = worker.request
    BY <1>1, <1>8 DEF Tick, ProcessorTypeOK, WorkerTypeOK, idleWorker
  <2>2. elements(queue') = elements(queue)
    BY <2>1
  <2> QED BY <2>1, <2>2 DEF asked
<1>9. CASE Restart
  <2>1. queue' = <<>> /\ worker'.pc = "idle" /\ processor'.pc = "idle"
    BY <1>9 DEF Restart, idleProcessor, idleWorker
  <2>2. elements(<<>>) = {}
    BY DEF elements
  <2>3. asked' = {}
    BY <2>1, <2>2 DEF asked
  <2> QED BY <2>3
<1>10. CASE Handlers \/ Monitor
  <2>1. UNCHANGED <<processor, queue, worker>>
    BY <1>10 DEF Handlers, Monitor, createOrder, cancelOrder, writeCancelled,
       checkOrderTimeouts, expireOrder, engineVars
  <2> QED BY <1>2, <2>1
<1> QED BY <1>4, <1>5, <1>6, <1>7, <1>8, <1>9, <1>10 DEF Next, Processor, Worker

LEMMA RequestsStayShares ==
    ASSUME Calm, CalmInv, Next
    PROVE  \A r \in asked' : IsShare(r)'
<1>1. /\ IInv /\ OneAtATime /\ ProcessorTypeOK /\ QueueTypeOK /\ WorkerTypeOK /\ StoreTypeOK
      /\ ProcessorAtHead /\ RowsMatch(processor.batch) /\ \A r \in asked : IsShare(r)
      /\ Callers = {}
  BY DEF CalmInv, BooksMatch, IInv, TypeOK, Calm
<1>2. ASSUME NEW r, IsShare(r), swapped'[r.order] = swapped[r.order],
             history'[r.order] = history[r.order]
      PROVE  IsShare(r)'
  BY <1>2 DEF IsShare
<1>3. CASE executeInterval \/ recordExecution
  <2> TAKE r \in asked'
  <2>1. worker.pc # "idle" /\ worker'.pc # "get" /\ UNCHANGED <<processor, queue>>
    <3>1. CASE executeInterval /\ ~failExecution
      <4>1. worker.pc # "idle" /\ worker'.pc # "get"
        BY <1>1, <3>1, ExecutionStep
      <4>2. UNCHANGED <<processor, queue>>
        BY <3>1 DEF executeInterval
      <4> QED BY <4>1, <4>2
    <3>2. CASE executeInterval /\ failExecution
      BY <3>2 DEF executeInterval, failExecution, idleWorker
    <3>3. CASE recordExecution
      BY <1>1, <3>3 DEF recordExecution, WorkerTypeOK, idleWorker
    <3> QED BY <1>3, <3>1, <3>2, <3>3
  <2>2. asked' \subseteq asked
    <3>1. ~(processOrder /\ processor'.pc = "enqueue")
      BY <2>1 DEF processOrder
    <3> QED BY <1>1, <3>1, AskedShrinks
  <2>3. r.order \in listed(queue) \cup listed(processor.batch)
    <3>1. \/ r \in elements(queue)
          \/ processor.pc = "enqueue" /\ r = processor.request
      BY <2>1 DEF asked
    <3>2. CASE r \in elements(queue)
      BY <3>2 DEF elements, listed
    <3>3. CASE processor.pc = "enqueue" /\ r = processor.request
      <4>1. processor.batch \in Seq(Item) /\ processor.batch # <<>>
        BY <1>1, <3>3, BusyProcessor
      <4> QED BY <1>1, <3>3, <4>1, HeadAndTail DEF ProcessorAtHead
    <3> QED BY <3>1, <3>2, <3>3
  <2>4. r.order \notin atWorker /\ r.order \in Orders
    <3>1. inHand \subseteq Orders
      BY <1>1, InHandAreOrders
    <3> QED BY <1>1, <2>3, <3>1 DEF OneAtATime, inHand
  <2>5. swapped'[r.order] = swapped[r.order] /\ history'[r.order] = history[r.order]
    BY <1>1, <2>4, BooksOfOthers
  <2> QED BY <1>1, <1>2, <2>2, <2>5
<1>4. CASE ~executeInterval /\ ~recordExecution
  <2>1. UNCHANGED <<swapped, history>>
    BY <1>4, SwapsAndRecords
  <2>2. ASSUME NEW r, IsShare(r) PROVE IsShare(r)'
    BY <1>2, <2>1, <2>2
  <2>3. CASE ~(processOrder /\ processor'.pc = "enqueue")
    <3>1. asked' \subseteq asked
      BY <1>1, <2>3, AskedShrinks
    <3> QED BY <1>1, <2>2, <3>1
  <2>4. CASE processOrder /\ processor'.pc = "enqueue"
    <3> DEFINE o == Head(processor.batch).order
               row == Head(processor.batch).row
               q == processor'.request
    <3>1. \E hint \in Prices \cup {NoPrice} :
              q = request(o, row, Len(history[o]), hint, NoCaller)
      BY <1>1, <2>4, EnqueuedRequest
    <3>2. row.executedAmount = swapped[o]
      <4>1. processor.pc = "order"
        BY <2>4 DEF processOrder
      <4>2. processor.batch \in Seq(Item) /\ processor.batch # <<>>
        BY <1>1, <4>1, BusyProcessor
      <4> QED BY <1>1, <4>2, MatchingTail
    <3>3. IsShare(q)
      BY <3>1, <3>2 DEF IsShare, request, fraction, GetRemainingAmount, GetRemainingIntervals
    <3>4. asked' \subseteq asked \cup {q}
      <4>1. UNCHANGED <<queue, worker>>
        BY <2>4 DEF processOrder
      <4>2. elements(queue') = elements(queue)
        BY <4>1
      <4> QED BY <4>1, <4>2 DEF asked
    <3> HIDE DEF q
    <3>5. \A r \in asked' : IsShare(r)
      BY <1>1, <3>3, <3>4
    <3> QED BY <2>2, <3>5
  <2> QED BY <2>3, <2>4
<1> QED BY <1>3, <1>4

LEMMA InitCalmInv == Calm /\ Init => CalmInv
<1> SUFFICES ASSUME Calm, Init PROVE CalmInv
  OBVIOUS
<1>1. /\ processor.batch = <<>> /\ processor.pc = "idle" /\ queue = <<>> /\ worker.pc = "idle"
      /\ monitor = <<>> /\ \A o \in Orders : timeLeft[o] = NULL
  BY DEF Init, InitEngine, InitStore, idleProcessor, idleWorker, Calm
<1>2. asked = {} /\ RowsMatch(processor.batch)
  BY <1>1 DEF asked, elements, RowsMatch
<1>3. ASSUME NEW o \in Orders PROVE OrderMatches(o)
  <2>1. swapped[o] = 0 /\ history[o] = <<>> /\ orders[o].executedAmount = 0
    BY DEF Init, InitStore, InitEngine, NoRow
  <2>2. ~Held(o) /\ unrecorded(o) = 0
    BY <1>1 DEF Held, unrecorded
  <2>3. recorded(o) = 0
    <3> DEFINE f == [i \in DOMAIN history[o] |-> history[o][i].amount]
    <3>1. DOMAIN f = {} /\ recorded(o) = SumFunctionOnSet(f, DOMAIN f)
      BY <2>1 DEF recorded, SumFunction
    <3> HIDE DEF f
    <3> QED BY <3>1, SumOfNothing
  <2>4. terms[o].sourceAmount \in Nat /\ terms[o].executionIntervals \in Nat
    BY TermsType, IntervalsType
  <2>5. WithinDeviation(o, 0)
    BY <2>4 DEF WithinDeviation
  <2> QED BY <2>1, <2>2, <2>3, <2>4, <2>5 DEF OrderMatches
<1>4. BooksMatch
  BY <1>1, <1>2, <1>3 DEF BooksMatch, NothingTimesOut
<1> QED BY <1>4, InitIInv, InitOneAtATime, InitIntervalsRemain DEF CalmInv

LEMMA NextCalmInv == Calm /\ CalmInv /\ [Next]_vars => CalmInv'
<1> SUFFICES ASSUME Calm, CalmInv, [Next]_vars PROVE CalmInv'
  OBVIOUS
<1>1. IInv'
  BY NextIInv DEF CalmInv
<1>2. CASE Next
  <2>1. OneAtATime' /\ IntervalsRemain'
    BY <1>2, OneAtATimeStep, IntervalsRemainStep DEF CalmInv, Calm
  <2>2. NothingTimesOut'
    BY <1>2, NothingTimesOutStep DEF CalmInv, BooksMatch
  <2>3. \A o \in Orders : OrderMatches(o)'
    BY <1>2, SwapKeepsBooks, RecordKeepsBooks, UpdateKeepsBooks, OthersKeepBooks
  <2>4. worker'.pc = "record" => worker'.amount >= 0
    <3>1. WorkerTypeOK
      BY DEF CalmInv, IInv, TypeOK
    <3>2. CASE executeInterval /\ ~failExecution
      BY <3>2, ShareIsSwapped
    <3>3. CASE recordExecution
      BY <3>1, <3>3 DEF recordExecution, WorkerTypeOK, idleWorker
    <3>4. CASE Tick
      BY <3>1, <3>4 DEF Tick, WorkerTypeOK, idleWorker, CalmInv, BooksMatch
    <3>5. CASE UNCHANGED worker
      BY <3>5 DEF CalmInv, BooksMatch
    <3>6. CASE worker'.pc # "record"
      BY <3>6
    <3>7. \/ executeInterval /\ ~failExecution
          \/ recordExecution \/ Tick \/ UNCHANGED worker \/ worker'.pc # "record"
      <4>1. CASE Handlers
        BY <4>1 DEF Handlers, Caller, engineVars, createOrder, cancelOrder, writeCancelled,
           ExecuteOrderManually, readHistory, enqueueCall
      <4>2. CASE Processor \/ Monitor
        BY <4>2 DEF Processor, Monitor, engineVars, processExecutableOrders,
           processOrder, completeOrder, enqueue, checkOrderTimeouts, expireOrder
      <4>3. CASE takeRequest \/ updateOrder \/ (executeInterval /\ failExecution)
        BY <4>3 DEF takeRequest, updateOrder, failExecution, idleWorker
      <4>4. CASE Restart
        BY <4>4 DEF Restart, idleWorker
      <4> QED BY <1>2, <4>1, <4>2, <4>3, <4>4 DEF Next, Worker
    <3> QED BY <3>2, <3>3, <3>4, <3>5, <3>6, <3>7
  <2>5. RowsMatch(processor.batch)'
    BY <1>2, BatchStaysMatched DEF Calm
  <2>6. \A r \in asked' : IsShare(r)'
    BY <1>2, RequestsStayShares
  <2>7. BooksMatch'
    BY <2>2, <2>3, <2>4, <2>5, <2>6 DEF BooksMatch
  <2> QED BY <1>1, <2>1, <2>7 DEF CalmInv
<1>3. CASE UNCHANGED vars
  <2>1. UNCHANGED <<orders, history, timeLeft, processor, queue, worker, swapped, monitor>>
    BY <1>3 DEF vars, storeVars, engineVars, serviceVars
  <2>2. OneAtATime' /\ IntervalsRemain'
    <3>1. atWorker' = atWorker /\ due' = due
      BY <2>1 DEF atWorker, due
    <3>2. OneAtATime'
      BY <2>1, <3>1 DEF CalmInv, OneAtATime, Distinct, listed
    <3>3. IntervalsRemain'
      BY <2>1, <3>1 DEF CalmInv, IntervalsRemain
    <3> QED BY <3>2, <3>3
  <2>3. \A o \in Orders : OrderMatches(o)'
    <3> TAKE o \in Orders
    <3>1. OrderMatches(o)
      BY DEF CalmInv, BooksMatch
    <3>2. (Held(o)' <=> Held(o)) /\ unrecorded(o)' = unrecorded(o) /\ shares(o)' = shares(o)
      BY <2>1 DEF Held, unrecorded, shares
    <3> QED BY <2>1, <3>1, <3>2, OrderStaysMatched
  <2>4. \A r \in asked' : IsShare(r)'
    <3>1. asked' = asked
      BY <2>1 DEF asked, elements
    <3>2. \A r \in asked : IsShare(r)
      BY DEF CalmInv, BooksMatch
    <3> QED BY <2>1, <3>1, <3>2 DEF IsShare
  <2>5. NothingTimesOut' /\ (worker'.pc = "record" => worker'.amount >= 0)
    BY <2>1 DEF CalmInv, BooksMatch, NothingTimesOut
  <2>6. RowsMatch(processor.batch)'
    BY <2>1 DEF CalmInv, BooksMatch, RowsMatch
  <2>7. BooksMatch'
    BY <2>3, <2>4, <2>5, <2>6 DEF BooksMatch
  <2> QED BY <1>1, <2>2, <2>7 DEF CalmInv
<1> QED BY <1>2, <1>3

LEMMA AlwaysCalmInv == Calm => (Spec => []CalmInv)
<1> SUFFICES ASSUME Calm PROVE Spec => []CalmInv
  OBVIOUS
<1>1. Init => CalmInv
  BY InitCalmInv
<1>2. CalmInv /\ [Next]_vars => CalmInv'
  BY NextCalmInv
<1> QED BY <1>1, <1>2, PTL DEF Spec

\* While nothing overlaps, fails, cancels, times out or is executed by hand, row,
\* records and swaps of an order agree whenever nobody is at work on it
\* (engine.go executeInterval, executionWorker).
THEOREM BooksAgreeHolds ==
    ASSUME Calm
    PROVE  Spec => []BooksAgree
<1>1. CalmInv => BooksAgree
  <2> SUFFICES ASSUME CalmInv, NEW o \in Orders, ~Working(o)
               PROVE  orders[o].executedAmount = swapped[o] /\ recorded(o) = swapped[o]
    BY DEF BooksAgree
  <2>1. OrderMatches(o) /\ StoreTypeOK
    BY DEF CalmInv, BooksMatch, IInv, TypeOK
  <2>2. ~Held(o) /\ unrecorded(o) = 0
    BY DEF Working, Held, unrecorded
  <2>3. recorded(o) \in Int
    BY <2>1, RecordedType DEF StoreTypeOK
  <2>4. recorded(o) + 0 = swapped[o] /\ orders[o].executedAmount = swapped[o]
    BY <2>1, <2>2 DEF OrderMatches
  <2> QED BY <2>3, <2>4
<1>2. Spec => []CalmInv
  BY AlwaysCalmInv
<1> QED BY <1>1, <1>2, PTL

\* Then the shares, each taken of what remains, add up to the order's amount but for
\* the deviation of the swaps (engine.go processOrder, executeInterval).
THEOREM NotOverspentHolds ==
    ASSUME Calm
    PROVE  Spec => []NotOverspent
<1>1. CalmInv => NotOverspent
  BY DEF CalmInv, BooksMatch, OrderMatches, WithinDeviation, NotOverspent
<1>2. Spec => []CalmInv
  BY AlwaysCalmInv
<1> QED BY <1>1, <1>2, PTL
=============================================================================
