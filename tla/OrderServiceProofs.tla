------------------------- MODULE OrderServiceProofs -------------------------
(***************************************************************************)
(* Theorems about the order service, for any orders, terms, handlers,      *)
(* queue capacity, prices and number of failures.                          *)
(***************************************************************************)
EXTENDS OrderProperties, SequenceTheorems, FiniteSetTheorems, TLAPS

-----------------------------------------------------------------------------
(* Numbers.                                                                *)

LEMMA RoundedType ==
    ASSUME NEW n \in Int, NEW d \in Nat \ {0}
    PROVE  rounded(n, d) \in Int
<1>1. 2 * d \in Nat \ {0}
  OBVIOUS
<1>2. \A k \in Int, e \in Nat \ {0} : k \div e \in Int
  OBVIOUS
<1>3. 2 * n + d \in Int /\ 2 * (-n) + d \in Int
  OBVIOUS
<1>4. (2 * n + d) \div (2 * d) \in Int /\ (2 * (-n) + d) \div (2 * d) \in Int
  BY <1>1, <1>2, <1>3
<1> QED BY <1>4 DEF rounded

LEMMA QuotientType ==
    ASSUME NEW n \in Int, NEW d \in Int, d # 0
    PROVE  quotient(n, d) \in Int
<1>1. \A k \in Int, e \in Nat \ {0} : k \div e \in Int
  OBVIOUS
<1>2. CASE d > 0
  BY <1>1, <1>2 DEF quotient
<1>3. CASE ~(d > 0)
  <2>1. -d \in Nat \ {0} /\ -n \in Int
    BY <1>3
  <2> QED BY <1>1, <1>3, <2>1 DEF quotient
<1> QED BY <1>2, <1>3

LEMMA UpdateAveragePriceType ==
    ASSUME NEW average \in Int, NEW total \in Int, NEW amount \in Int, NEW price \in Int
    PROVE  UpdateAveragePrice(average, total, amount, price) \in Int
<1>1. average * total + price * amount \in Int /\ total + amount \in Int
  OBVIOUS
<1> QED BY <1>1, QuotientType DEF UpdateAveragePrice

LEMMA SwappedAmountType ==
    ASSUME NEW r \in Request, NEW m \in Moments
    PROVE  /\ swappedAmount(r.target, m).num \in Int
           /\ swappedAmount(r.target, m).den \in Nat \ {0}
<1>1. r.target.num \in Int /\ r.target.den \in Nat \ {0} /\ m \in Nat
  BY EngineAssumption DEF Request
<1>2. r.target.num * (4950 + m) \in Int /\ r.target.den * 5000 \in Nat \ {0}
  BY <1>1
<1> QED BY <1>2 DEF swappedAmount

LEMMA ExecutionPriceType ==
    ASSUME NEW price \in Nat, NEW m \in Nat
    PROVE  executionPrice(price, m) \in Nat
<1> DEFINE k == price * (9950 + m)
<1>1. k \in Nat
  OBVIOUS
<1>2. k \div 10000 \in Nat
  <2> HIDE DEF k
  <2> QED BY <1>1
<1> QED BY <1>2 DEF executionPrice

-----------------------------------------------------------------------------
(* Rows and lists of rows.                                                 *)

LEMMA InsertedHaveRows ==
    ASSUME StoreTypeOK, NEW o \in Inserted
    PROVE  o \in Orders /\ orders[o] \in Row
BY DEF StoreTypeOK, Inserted

LEMMA NoRowIsNoRow == NoRow \notin Row /\ NoRow.status = "none"
BY DEF NoRow, Row, Status

LEMMA OlderType ==
    ASSUME NEW row \in Row
    PROVE  older(row) \in Row /\ older(row).status = row.status
<1>1. row.lastExecution \in 0..(Interval - 1) => row.lastExecution + 1 \in 0..Interval
  BY IntervalAssumption
<1> QED BY <1>1 DEF older, Row

LEMMA OlderNoRow == older(NoRow) = NoRow
BY IntervalAssumption DEF older, NoRow, NULL

LEMMA RowWithStatus ==
    ASSUME NEW row \in Row, NEW status \in Status
    PROVE  [row EXCEPT !.status = status] \in Row
BY DEF Row

\* A listing holds the orders it lists, with their rows.
LEMMA OldestFirst ==
    ASSUME StoreTypeOK, NEW some \in SUBSET Inserted, NEW items \in oldestFirst(some)
    PROVE  /\ items \in Seq(Item)
           /\ listed(items) \subseteq some
<1>1. IsFiniteSet(some)
  BY OrdersAssumption, FS_Subset DEF Inserted
<1>2. Cardinality(some) \in Nat
  BY <1>1, FS_CardinalityType
<1> PICK ids \in [1..Cardinality(some) -> some] :
        items = [i \in DOMAIN ids |-> [order |-> ids[i], row |-> orders[ids[i]]]]
  BY DEF oldestFirst
<1>3. DOMAIN items = 1..Cardinality(some)
  OBVIOUS
<1>4. \A i \in 1..Cardinality(some) : items[i] \in Item /\ items[i].order \in some
  <2> TAKE i \in 1..Cardinality(some)
  <2>1. ids[i] \in some /\ ids[i] \in Inserted
    OBVIOUS
  <2>2. ids[i] \in Orders /\ orders[ids[i]] \in Row
    BY <2>1, InsertedHaveRows
  <2>3. items[i] = [order |-> ids[i], row |-> orders[ids[i]]]
    OBVIOUS
  <2> QED BY <2>1, <2>2, <2>3 DEF Item
<1>5. items \in [1..Cardinality(some) -> Item]
  BY <1>3, <1>4
<1>6. items \in Seq(Item)
  BY <1>2, <1>5, SeqDef
<1> QED BY <1>3, <1>4, <1>6 DEF listed

LEMMA AgedType ==
    ASSUME NEW items \in Seq(Item)
    PROVE  /\ aged(items) \in Seq(Item)
           /\ listed(aged(items)) = listed(items)
           /\ aged(items) = <<>> <=> items = <<>>
           /\ items # <<>> => Head(aged(items)).order = Head(items).order
<1>1. Len(items) \in Nat /\ DOMAIN items = 1..Len(items)
  BY LenProperties
<1>2. DOMAIN aged(items) = 1..Len(items)
  BY <1>1 DEF aged
<1>3. \A i \in 1..Len(items) : /\ items[i] \in Item /\ aged(items)[i] \in Item
                               /\ aged(items)[i].order = items[i].order
  <2> TAKE i \in 1..Len(items)
  <2>1. items[i] \in Item
    BY ElementOfSeq
  <2>2. older(items[i].row) \in Row
    BY <2>1, OlderType DEF Item
  <2>3. aged(items)[i] = [items[i] EXCEPT !.row = older(items[i].row)]
    BY <1>1 DEF aged
  <2> QED BY <2>1, <2>2, <2>3 DEF Item
<1>4. aged(items) \in [1..Len(items) -> Item]
  BY <1>2, <1>3 DEF aged
<1>5. aged(items) \in Seq(Item) /\ Len(aged(items)) = Len(items)
  BY <1>1, <1>2, <1>4, SeqDef
<1>6. listed(aged(items)) = listed(items)
  BY <1>1, <1>2, <1>3 DEF listed
<1>7. aged(items) = <<>> <=> items = <<>>
  BY <1>5, EmptySeq
<1>8. items # <<>> => Head(aged(items)).order = Head(items).order
  <2> SUFFICES ASSUME items # <<>> PROVE Head(aged(items)).order = Head(items).order
    OBVIOUS
  <2>1. 1 \in 1..Len(items) /\ Head(items) = items[1] /\ Head(aged(items)) = aged(items)[1]
    BY <1>5, EmptySeq
  <2> QED BY <1>3, <2>1
<1> QED BY <1>5, <1>6, <1>7, <1>8

LEMMA HeadAndTail ==
    ASSUME NEW items \in Seq(Item), items # <<>>
    PROVE  /\ Head(items) \in Item /\ Head(items).order \in listed(items)
           /\ Tail(items) \in Seq(Item) /\ listed(Tail(items)) \subseteq listed(items)
<1>1. /\ Head(items) \in Item /\ Tail(items) \in Seq(Item)
      /\ Len(Tail(items)) = Len(items) - 1
      /\ \A i \in 1 .. Len(Tail(items)) : Tail(items)[i] = items[i+1]
  BY HeadTailProperties
<1>2. Len(items) \in Nat \ {0} /\ DOMAIN items = 1..Len(items)
         /\ DOMAIN Tail(items) = 1..Len(Tail(items))
  BY <1>1, EmptySeq, LenProperties
<1>3. Head(items) = items[1] /\ 1 \in DOMAIN items
  BY <1>2
<1>4. \A i \in DOMAIN Tail(items) : i + 1 \in DOMAIN items /\ Tail(items)[i] = items[i+1]
  BY <1>1, <1>2
<1> QED BY <1>1, <1>3, <1>4 DEF listed

-----------------------------------------------------------------------------
(* Parts of the steps.                                                     *)

LEMMA FailureType ==
    ASSUME StoreTypeOK, Fails \/ Succeeds
    PROVE  failures' \in 0..MaxFailures
BY FailureAssumption DEF StoreTypeOK, Fails, Succeeds

LEMMA UpdateOrderType ==
    ASSUME StoreTypeOK, NEW o, NEW row \in Row, UpdateOrder(o, row)
    PROVE  orders' \in [Orders -> Row \cup {NoRow}]
BY DEF StoreTypeOK, UpdateOrder

LEMMA TermsType ==
    ASSUME NEW o \in Orders
    PROVE  terms[o].sourceAmount \in Nat \ {0} /\ terms[o].executionIntervals \in 2..20
BY TermsAssumption DEF Terms

LEMMA HistoryType ==
    ASSUME StoreTypeOK, NEW o \in Orders
    PROVE  history[o] \in Seq(Record) /\ Len(history[o]) \in Nat
BY LenProperties DEF StoreTypeOK

\* A request made while intervals remain.
LEMMA RequestMade ==
    ASSUME StoreTypeOK, NEW o \in Orders, NEW row, row.executedAmount \in Int,
           ~allExecuted(o, Len(history[o])),
           NEW hint \in Prices \cup {NoPrice}, NEW c \in Callers \cup {NoCaller}
    PROVE  /\ request(o, row, Len(history[o]), hint, c) \in Request
           /\ request(o, row, Len(history[o]), hint, c).order = o
<1>1. Len(history[o]) \in Nat
  BY HistoryType
<1>2. GetRemainingAmount(o, row) \in Int
  BY TermsType DEF GetRemainingAmount
<1>3. GetRemainingIntervals(o, Len(history[o])) \in Nat \ {0}
  <2>1. \A k \in Nat, n \in 2..20 : ~(k >= n) => n - k \in Nat \ {0}
    OBVIOUS
  <2> QED BY <1>1, <2>1, TermsType DEF GetRemainingIntervals, allExecuted
<1> QED BY <1>1, <1>2, <1>3 DEF request, Request, fraction

\* The batch that a processor which has done with its first order has left.
LEMMA NextOrderType ==
    ASSUME ProcessorTypeOK, processor.batch # <<>>, nextOrder
    PROVE  /\ ProcessorTypeOK' /\ processor'.pc # "enqueue"
           /\ listed(processor'.batch) \subseteq listed(processor.batch)
<1>1. processor.batch \in Seq(Item)
  BY DEF ProcessorTypeOK
<1>2. Tail(processor.batch) \in Seq(Item)
         /\ listed(Tail(processor.batch)) \subseteq listed(processor.batch)
  BY <1>1, HeadAndTail
<1>3. CASE Tail(processor.batch) = <<>>
  <2>1. processor' = [pc |-> "idle", batch |-> <<>>]
    BY <1>3 DEF nextOrder, idleProcessor
  <2>2. listed(<<>>) = {}
    BY DEF listed
  <2> QED BY <2>1, <2>2, EmptySeq DEF ProcessorTypeOK
<1>4. CASE Tail(processor.batch) # <<>>
  <2>1. processor' = [pc |-> "order", batch |-> Tail(processor.batch)]
    BY <1>4 DEF nextOrder
  <2> QED BY <1>2, <1>4, <2>1 DEF ProcessorTypeOK
<1> QED BY <1>3, <1>4

LEMMA RespondType ==
    ASSUME HandlersTypeOK, NEW c, respond(c)
    PROVE  /\ calls' \in [Callers -> CallType]
           /\ \A d \in Callers : calls'[d] = calls[d] \/ calls'[d] = idleCall
BY DEF HandlersTypeOK, respond, CallType

-----------------------------------------------------------------------------
(* Types, and where the processor's request comes from.                    *)

ProcessorAtHead ==
    processor.pc = "enqueue" => processor.request.order = Head(processor.batch).order

IInv == TypeOK /\ ProcessorAtHead

LEMMA InitIInv == Init => IInv
<1> SUFFICES ASSUME Init PROVE IInv
  OBVIOUS
<1> USE DEF Init, InitStore, InitEngine
<1>1. StoreTypeOK
  <2>1. \A o \in Orders : terms[o].timeoutTicks \in {NULL} \cup Nat
    BY TermsAssumption DEF Terms
  <2> QED BY <2>1, EmptySeq, FailureAssumption DEF StoreTypeOK
<1>2. ProcessorTypeOK /\ ProcessorAtHead
  BY EmptySeq DEF ProcessorTypeOK, idleProcessor, ProcessorAtHead
<1>3. QueueTypeOK
  BY EmptySeq, EngineAssumption DEF QueueTypeOK
<1>4. WorkerTypeOK
  BY DEF WorkerTypeOK
<1>5. HandlersTypeOK
  BY EmptySeq DEF HandlersTypeOK, CallType, CancelType
<1> QED BY <1>1, <1>2, <1>3, <1>4, <1>5 DEF IInv, TypeOK

LEMMA CreateOrderType ==
    ASSUME IInv, NEW o \in Orders, createOrder(o)
    PROVE  IInv'
<1> USE DEF IInv, TypeOK
<1>1. Cardinality(Inserted) + 1 \in Nat
  BY OrdersAssumption, FS_Subset, FS_CardinalityType DEF Inserted
<1> DEFINE row == [status |-> "pending", executedAmount |-> 0, averagePrice |-> 0,
                   lastExecution |-> NULL, createdAt |-> Cardinality(Inserted) + 1]
<1>2. row \in Row
  BY <1>1 DEF Row, Status
<1>3. orders' = [orders EXCEPT ![o] = row]
  BY DEF createOrder, CreateOrder
<1>4. StoreTypeOK'
  <2> HIDE DEF row
  <2> QED BY <1>2, <1>3, FailureType DEF StoreTypeOK, createOrder, CreateOrder
<1>5. UNCHANGED <<engineVars, serviceVars>>
  BY DEF createOrder
<1> QED BY <1>4, <1>5 DEF engineVars, serviceVars, ProcessorTypeOK, QueueTypeOK,
       WorkerTypeOK, HandlersTypeOK, ProcessorAtHead

LEMMA CancelOrderType ==
    ASSUME IInv, NEW c \in Cancellers, NEW o \in Orders, cancelOrder(c, o)
    PROVE  IInv'
<1> USE DEF IInv, TypeOK
<1>1. orders[o] \in Row
  BY NoRowIsNoRow DEF cancelOrder, canCancelOrder, StoreTypeOK
<1>2. [pc |-> "update", order |-> o, row |-> orders[o]] \in CancelType
  BY <1>1 DEF CancelType
<1>3. HandlersTypeOK'
  BY <1>2 DEF cancelOrder, HandlersTypeOK, engineVars
<1>4. UNCHANGED <<storeVars, engineVars>>
  BY DEF cancelOrder
<1> QED BY <1>3, <1>4 DEF storeVars, engineVars, StoreTypeOK, ProcessorTypeOK, QueueTypeOK,
       WorkerTypeOK, ProcessorAtHead

LEMMA WriteCancelledType ==
    ASSUME IInv, NEW c \in Cancellers, writeCancelled(c)
    PROVE  IInv'
<1> USE DEF IInv, TypeOK
<1>1. cancels[c].row \in Row
  BY DEF HandlersTypeOK, CancelType, writeCancelled, idleCancel
<1>2. orders' \in [Orders -> Row \cup {NoRow}]
  <2>1. [cancels[c].row EXCEPT !.status = "cancelled"] \in Row
    BY <1>1, RowWithStatus DEF Status
  <2> QED BY <2>1, UpdateOrderType DEF writeCancelled, StoreTypeOK
<1>3. StoreTypeOK'
  BY <1>2, FailureType DEF StoreTypeOK, writeCancelled
<1>4. HandlersTypeOK'
  BY DEF HandlersTypeOK, CancelType, writeCancelled, engineVars
<1>5. UNCHANGED engineVars
  BY DEF writeCancelled
<1> QED BY <1>3, <1>4, <1>5 DEF engineVars, ProcessorTypeOK, QueueTypeOK,
       WorkerTypeOK, ProcessorAtHead

LEMMA CheckOrderTimeoutsType ==
    ASSUME IInv, checkOrderTimeouts
    PROVE  IInv'
<1> USE DEF IInv, TypeOK
<1>1. {o \in Orders : executable(o) /\ IsTimedOut(o)} \subseteq Inserted
  BY NoRowIsNoRow DEF executable, Inserted
<1>2. monitor' \in Seq(Item)
  BY <1>1, OldestFirst DEF checkOrderTimeouts
<1>3. UNCHANGED <<storeVars, engineVars, cancels>>
  BY DEF checkOrderTimeouts
<1> QED BY <1>2, <1>3 DEF storeVars, engineVars, StoreTypeOK, ProcessorTypeOK, QueueTypeOK,
       WorkerTypeOK, HandlersTypeOK, ProcessorAtHead

LEMMA ExpireOrderType ==
    ASSUME IInv, expireOrder
    PROVE  IInv'
<1> USE DEF IInv, TypeOK
<1>1. Head(monitor) \in Item /\ Tail(monitor) \in Seq(Item)
  BY HeadAndTail DEF expireOrder, HandlersTypeOK
<1>2. orders' \in [Orders -> Row \cup {NoRow}]
  <2>1. [Head(monitor).row EXCEPT !.status = "expired"] \in Row
    BY <1>1, RowWithStatus DEF Status, Item
  <2> QED BY <2>1, UpdateOrderType DEF expireOrder, StoreTypeOK
<1>3. StoreTypeOK'
  BY <1>2, FailureType DEF StoreTypeOK, expireOrder
<1>4. HandlersTypeOK'
  BY <1>1 DEF HandlersTypeOK, expireOrder, engineVars
<1>5. UNCHANGED engineVars
  BY DEF expireOrder
<1> QED BY <1>3, <1>4, <1>5 DEF engineVars, ProcessorTypeOK, QueueTypeOK,
       WorkerTypeOK, ProcessorAtHead

LEMMA ProcessExecutableOrdersType ==
    ASSUME IInv, processExecutableOrders, UNCHANGED serviceVars
    PROVE  IInv'
<1> USE DEF IInv, TypeOK
<1>1. {o \in Orders : executable(o)} \subseteq Inserted
  BY NoRowIsNoRow DEF executable, Inserted
<1>2. PICK due \in GetExecutableOrders :
          due # <<>> /\ processor' = [pc |-> "order", batch |-> due]
  BY DEF processExecutableOrders
<1>3. due \in Seq(Item)
  BY <1>1, OldestFirst DEF GetExecutableOrders
<1>4. ProcessorTypeOK' /\ ProcessorAtHead'
  BY <1>2, <1>3 DEF ProcessorTypeOK, ProcessorAtHead
<1> QED BY <1>4, FailureType DEF processExecutableOrders, StoreTypeOK, QueueTypeOK,
       WorkerTypeOK, HandlersTypeOK, serviceVars

LEMMA ProcessOrderType ==
    ASSUME IInv, processOrder, UNCHANGED serviceVars
    PROVE  IInv'
<1> USE DEF IInv, TypeOK
<1> DEFINE o == Head(processor.batch).order
           row == Head(processor.batch).row
<1>1. /\ processor \in [pc : {"order"}, batch : Seq(Item)]
      /\ processor.batch # <<>>
  BY DEF processOrder, ProcessorTypeOK
<1>2. o \in Orders /\ row.executedAmount \in Int
  <2>1. Head(processor.batch) \in Item
    BY <1>1, HeadAndTail
  <2> QED BY <2>1 DEF Item, Row
<1>3. ProcessorTypeOK' /\ ProcessorAtHead'
  <2>1. CASE nextOrder
    BY <1>1, <2>1, NextOrderType DEF ProcessorAtHead
  <2>2. CASE processor' = [processor EXCEPT !.pc = "complete"]
    BY <1>1, <2>2 DEF ProcessorTypeOK, ProcessorAtHead
  <2>3. ASSUME ~allExecuted(o, Len(history[o])), NEW hint \in Prices \cup {NoPrice},
               processor' = [pc |-> "enqueue", batch |-> processor.batch,
                             request |-> request(o, row, Len(history[o]), hint, NoCaller)]
        PROVE  ProcessorTypeOK' /\ ProcessorAtHead'
    <3> DEFINE r == request(o, row, Len(history[o]), hint, NoCaller)
    <3>1. r \in Request /\ r.order = o
      BY <1>2, <2>3, RequestMade
    <3> HIDE DEF r
    <3>2. processor' = [pc |-> "enqueue", request |-> r, batch |-> processor.batch]
      BY <2>3 DEF r
    <3> QED BY <1>1, <3>1, <3>2 DEF ProcessorTypeOK, ProcessorAtHead
  <2> QED BY <2>1, <2>2, <2>3 DEF processOrder
<1> QED BY <1>3, FailureType DEF processOrder, StoreTypeOK, QueueTypeOK,
       WorkerTypeOK, HandlersTypeOK, serviceVars

LEMMA CompleteOrderType ==
    ASSUME IInv, completeOrder, UNCHANGED serviceVars
    PROVE  IInv'
<1> USE DEF IInv, TypeOK
<1>1. processor.batch \in Seq(Item) /\ processor.batch # <<>>
  BY DEF completeOrder, ProcessorTypeOK
<1>2. ProcessorTypeOK' /\ ProcessorAtHead'
  BY <1>1, NextOrderType DEF completeOrder, ProcessorAtHead
<1>3. orders' \in [Orders -> Row \cup {NoRow}]
  <2>1. [Head(processor.batch).row EXCEPT !.status = "completed"] \in Row
    BY <1>1, HeadAndTail, RowWithStatus DEF Status, Item
  <2> QED BY <2>1, UpdateOrderType DEF completeOrder, StoreTypeOK
<1> QED BY <1>2, <1>3, FailureType DEF completeOrder, StoreTypeOK, QueueTypeOK,
       WorkerTypeOK, HandlersTypeOK, serviceVars

LEMMA AppendedType ==
    ASSUME QueueTypeOK, NEW r \in Request, hasRoom
    PROVE  Append(queue, r) \in Seq(Request) /\ Len(Append(queue, r)) <= QueueCap
<1>1. /\ Append(queue, r) \in Seq(Request)
      /\ Len(Append(queue, r)) = Len(queue) + 1
  BY AppendProperties DEF QueueTypeOK
<1>2. Len(queue) \in Nat /\ QueueCap \in Nat
  BY EngineAssumption, LenProperties DEF QueueTypeOK
<1> QED BY <1>1, <1>2 DEF hasRoom

LEMMA EnqueueType ==
    ASSUME IInv, enqueue, UNCHANGED serviceVars
    PROVE  IInv'
<1> USE DEF IInv, TypeOK
<1>1. /\ processor \in [pc : {"enqueue"}, request : Request, batch : Seq(Item)]
      /\ processor.batch # <<>>
  BY DEF enqueue, ProcessorTypeOK
<1>2. QueueTypeOK'
  <2>1. CASE hasRoom
    BY <1>1, <2>1, AppendedType DEF enqueue, QueueTypeOK
  <2>2. CASE ~hasRoom
    BY <2>2 DEF enqueue, QueueTypeOK
  <2> QED BY <2>1, <2>2
<1>3. ProcessorTypeOK' /\ ProcessorAtHead'
  BY <1>1, NextOrderType DEF enqueue, ProcessorAtHead
<1> QED BY <1>2, <1>3 DEF enqueue, storeVars, StoreTypeOK,
       WorkerTypeOK, HandlersTypeOK, serviceVars

LEMMA ExecuteOrderManuallyType ==
    ASSUME IInv, NEW c \in Callers, NEW o \in Orders, ExecuteOrderManually(c, o),
           UNCHANGED serviceVars
    PROVE  IInv'
<1> USE DEF IInv, TypeOK
<1>1. orders[o].executedAmount \in Int
  BY DEF ExecuteOrderManually, StoreTypeOK, Row
<1>2. HandlersTypeOK'
  <2>1. [pc |-> "history", order |-> o,
         row |-> [executedAmount |-> orders[o].executedAmount]] \in CallType
    BY <1>1 DEF CallType
  <2> QED BY <2>1 DEF ExecuteOrderManually, HandlersTypeOK, serviceVars
<1> QED BY <1>2 DEF ExecuteOrderManually, storeVars, StoreTypeOK, ProcessorTypeOK,
       ProcessorAtHead, QueueTypeOK, WorkerTypeOK

\* What a call holds, by the step it is at.
LEMMA CallParts ==
    ASSUME HandlersTypeOK, NEW c \in Callers
    PROVE  /\ calls[c].pc = "history" =>
                  calls[c] \in [pc : {"history"}, order : Orders, row : [executedAmount : Int]]
           /\ calls[c].pc = "enqueue" =>
                  calls[c] \in [pc : {"enqueue"}, order : Orders, request : Request]
BY DEF HandlersTypeOK, CallType, idleCall

LEMMA ReadHistoryType ==
    ASSUME IInv, NEW c \in Callers, readHistory(c), UNCHANGED serviceVars
    PROVE  IInv'
<1> USE DEF IInv, TypeOK
<1> DEFINE o == calls[c].order
           r == request(o, calls[c].row, Len(history[o]), NoPrice, c)
<1>1. calls[c] \in [pc : {"history"}, order : Orders, row : [executedAmount : Int]]
  BY CallParts DEF readHistory
<1>2. ~allExecuted(o, Len(history[o])) => r \in Request
  BY <1>1, RequestMade
<1>3. HandlersTypeOK'
  <2>1. CASE calls' = [calls EXCEPT ![c] = idleCall]
    BY <2>1 DEF readHistory, HandlersTypeOK, CallType, serviceVars
  <2>2. CASE /\ ~allExecuted(o, Len(history[o]))
             /\ calls' = [calls EXCEPT ![c] = [pc |-> "enqueue", order |-> o, request |-> r]]
    <3> HIDE DEF r
    <3>1. [pc |-> "enqueue", order |-> o, request |-> r] \in CallType
      BY <1>1, <1>2, <2>2 DEF CallType
    <3> QED BY <2>2, <3>1 DEF readHistory, HandlersTypeOK, serviceVars
  <2>3. calls \in [Callers -> CallType]
    BY DEF HandlersTypeOK
  <2> QED BY <2>1, <2>2, <2>3 DEF readHistory, allExecuted
<1> QED BY <1>3, FailureType DEF readHistory, StoreTypeOK, ProcessorTypeOK,
       ProcessorAtHead, QueueTypeOK, WorkerTypeOK

LEMMA EnqueueCallType ==
    ASSUME IInv, NEW c \in Callers, enqueueCall(c), UNCHANGED serviceVars
    PROVE  IInv'
<1> USE DEF IInv, TypeOK
<1>1. calls[c] \in [pc : {"enqueue"}, order : Orders, request : Request]
  BY CallParts DEF enqueueCall
<1>2. QueueTypeOK'
  <2>1. CASE hasRoom
    BY <1>1, <2>1, AppendedType DEF enqueueCall, QueueTypeOK
  <2>2. CASE ~hasRoom
    BY <2>2 DEF enqueueCall, QueueTypeOK
  <2> QED BY <2>1, <2>2
<1>3. HandlersTypeOK'
  <2>1. [pc |-> "waiting", order |-> calls[c].order] \in CallType /\ idleCall \in CallType
    BY <1>1 DEF CallType
  <2>2. calls' \in {[calls EXCEPT ![c] = [pc |-> "waiting", order |-> calls[c].order]],
                    [calls EXCEPT ![c] = idleCall]}
    BY DEF enqueueCall, HandlersTypeOK
  <2>3. calls' \in [Callers -> CallType]
    BY <2>1, <2>2 DEF HandlersTypeOK
  <2> QED BY <2>3 DEF HandlersTypeOK, serviceVars
<1> QED BY <1>2, <1>3 DEF enqueueCall, storeVars, StoreTypeOK, ProcessorTypeOK,
       ProcessorAtHead, WorkerTypeOK

-----------------------------------------------------------------------------
(* The worker.                                                             *)

LEMMA TakeRequestType ==
    ASSUME IInv, takeRequest, UNCHANGED serviceVars
    PROVE  IInv'
<1> USE DEF IInv, TypeOK
<1>1. /\ Head(queue) \in Request /\ Tail(queue) \in Seq(Request)
      /\ Len(Tail(queue)) = Len(queue) - 1
  BY HeadTailProperties DEF takeRequest, QueueTypeOK
<1>2. QueueTypeOK'
  BY <1>1, LenProperties, EngineAssumption DEF takeRequest, QueueTypeOK
<1>3. WorkerTypeOK'
  BY <1>1 DEF takeRequest, WorkerTypeOK
<1> QED BY <1>2, <1>3 DEF takeRequest, storeVars, StoreTypeOK, ProcessorTypeOK,
       ProcessorAtHead, HandlersTypeOK, serviceVars

\* A row after an execution, also of an order that has no row.
LEMMA AfterExecutionType ==
    ASSUME NEW r \in Request, NEW row \in Row \cup {NoRow}, NEW price \in Nat,
           NEW amount, amount.num \in Int, amount.den \in Nat \ {0}
    PROVE  afterExecution(r, row, amount, price) \in Row
<1> DEFINE total == row.executedAmount * amount.den + amount.num
           average == UpdateAveragePrice(row.averagePrice, total, amount.num, price)
<1>1. row.executedAmount \in Int /\ row.averagePrice \in Int /\ row.createdAt \in Nat
  BY DEF Row, NoRow
<1>2. total \in Int
  BY <1>1
<1>3. rounded(total, amount.den) \in Int
  <2> HIDE DEF total
  <2> QED BY <1>2, RoundedType
<1>4. average \in Int
  <2>1. /\ row.averagePrice \in Int /\ total \in Int /\ amount.num \in Int
        /\ price \in Int
    BY <1>1, <1>2
  <2> HIDE DEF total
  <2> QED BY <2>1, UpdateAveragePriceType
<1>5. 0 \in 0..Interval
  BY IntervalAssumption
<1>6. ASSUME NEW status \in {"completed", "executing"}, NEW whole \in Int, NEW mean \in Int
      PROVE  [row EXCEPT !.executedAmount = whole, !.lastExecution = 0,
                         !.averagePrice = mean, !.status = status] \in Row
  BY <1>1, <1>5 DEF Row, NoRow, Status
<1> DEFINE status == IF total >= terms[r.order].sourceAmount * amount.den
                     THEN "completed" ELSE "executing"
<1>7. status \in {"completed", "executing"}
  OBVIOUS
<1>8. afterExecution(r, row, amount, price) =
          [row EXCEPT !.executedAmount = rounded(total, amount.den), !.lastExecution = 0,
                      !.averagePrice = average, !.status = status]
  BY DEF afterExecution
<1> DEFINE whole == rounded(total, amount.den)
<1> HIDE DEF total, average, status
<1>9. whole \in Int
  BY <1>3
<1> HIDE DEF whole
<1>10. [row EXCEPT !.executedAmount = whole, !.lastExecution = 0,
                   !.averagePrice = average, !.status = status] \in Row
  BY <1>4, <1>6, <1>7, <1>9
<1> QED BY <1>8, <1>10 DEF whole

\* The step that swaps.
LEMMA ExecutionStep ==
    ASSUME IInv, executeInterval, ~failExecution
    PROVE  /\ worker.pc = "get" /\ worker.request \in Request
           /\ \E amount \in [num : Int, den : Nat \ {0}], price \in Nat :
                LET r == worker.request
                    whole == rounded(amount.num, amount.den)
                IN
                /\ whole \in Int
                /\ worker' = [pc |-> "record", request |-> r, amount |-> whole, price |-> price,
                              row |-> afterExecution(r, orders[r.order], amount, price)]
                /\ swapped' = [swapped EXCEPT ![r.order] = @ + (IF whole > 0 THEN whole ELSE 0)]
                /\ UNCHANGED calls
<1> USE DEF IInv, TypeOK
<1> DEFINE r == worker.request
<1>1. worker.pc = "get" /\ r \in Request
  BY DEF executeInterval, WorkerTypeOK, idleWorker
<1>2. PICK market \in Prices \cup {r.priceHint}, m \in Moments, later \in {0, 1} :
          LET amount == swappedAmount(r.target, m)
              whole == rounded(amount.num, amount.den)
              price == executionPrice(market, (m + later) % 100)
          IN
          /\ worker' = [pc |-> "record", request |-> r,
                        amount |-> whole, price |-> price,
                        row |-> afterExecution(r, orders[r.order], amount, price)]
          /\ swapped' = [swapped EXCEPT ![r.order] =
                             @ + (IF whole > 0 THEN whole ELSE 0)]
          /\ UNCHANGED calls
  BY DEF executeInterval
<1> DEFINE amount == swappedAmount(r.target, m)
           price == executionPrice(market, (m + later) % 100)
<1>3. amount \in [num : Int, den : Nat \ {0}]
  <2>1. amount.num \in Int /\ amount.den \in Nat \ {0}
    BY <1>1, SwappedAmountType
  <2> QED BY <2>1 DEF swappedAmount
<1>4. rounded(amount.num, amount.den) \in Int
  <2> HIDE DEF amount
  <2> QED BY <1>3, RoundedType
<1>5. price \in Nat
  <2>1. market \in Nat /\ m \in Nat
    BY <1>1, EngineAssumption DEF Request
  <2>2. (m + later) % 100 \in Nat
    <3>1. \A k \in Nat : k % 100 \in Nat
      OBVIOUS
    <3> QED BY <2>1, <3>1
  <2> QED BY <2>1, <2>2, ExecutionPriceType
<1>6. /\ worker' = [pc |-> "record", request |-> r, amount |-> rounded(amount.num, amount.den),
                    price |-> price, row |-> afterExecution(r, orders[r.order], amount, price)]
      /\ swapped' = [swapped EXCEPT ![r.order] = @ +
             (IF rounded(amount.num, amount.den) > 0 THEN rounded(amount.num, amount.den) ELSE 0)]
      /\ UNCHANGED calls
  BY <1>2
<1> HIDE DEF amount, price
<1> QED BY <1>1, <1>3, <1>4, <1>5, <1>6

LEMMA ExecuteIntervalType ==
    ASSUME IInv, executeInterval, UNCHANGED serviceVars
    PROVE  IInv'
<1> USE DEF IInv, TypeOK
<1> DEFINE r == worker.request
<1>1. CASE failExecution
  <2>1. WorkerTypeOK'
    BY <1>1 DEF failExecution, WorkerTypeOK
  <2>2. calls' \in [Callers -> CallType]
    BY <1>1, RespondType DEF failExecution
  <2> QED BY <2>1, <2>2, FailureType DEF executeInterval, StoreTypeOK, ProcessorTypeOK,
         ProcessorAtHead, QueueTypeOK, HandlersTypeOK, serviceVars
<1>2. CASE ~failExecution
  <2>1. r \in Request
    BY <1>2, ExecutionStep
  <2>2. PICK amount \in [num : Int, den : Nat \ {0}], price \in Nat, whole \in Int :
            /\ worker' = [pc |-> "record", request |-> r, amount |-> whole, price |-> price,
                          row |-> afterExecution(r, orders[r.order], amount, price)]
            /\ swapped' = [swapped EXCEPT ![r.order] = @ + (IF whole > 0 THEN whole ELSE 0)]
            /\ UNCHANGED calls
    BY <1>2, ExecutionStep
  <2>3. afterExecution(r, orders[r.order], amount, price) \in Row
    <3>1. orders[r.order] \in Row \cup {NoRow}
      BY <2>1 DEF StoreTypeOK, Request
    <3> QED BY <2>1, <3>1, AfterExecutionType
  <2>4. swapped' \in [Orders -> Nat]
    <3>1. \A k \in Nat : k + (IF whole > 0 THEN whole ELSE 0) \in Nat
      OBVIOUS
    <3> QED BY <2>2, <3>1 DEF WorkerTypeOK
  <2>5. WorkerTypeOK'
    BY <2>1, <2>2, <2>3, <2>4 DEF WorkerTypeOK
  <2> QED BY <2>2, <2>5, FailureType DEF executeInterval, StoreTypeOK, ProcessorTypeOK,
         ProcessorAtHead, QueueTypeOK, HandlersTypeOK, serviceVars
<1> QED BY <1>1, <1>2

LEMMA RecordExecutionType ==
    ASSUME IInv, recordExecution, UNCHANGED serviceVars
    PROVE  IInv'
<1> USE DEF IInv, TypeOK
<1> DEFINE r == worker.request
           record == [intervalNumber |-> r.intervalNumber, amount |-> worker.amount,
                      price |-> worker.price]
<1>1. worker \in [pc : {"record", "update"}, request : Request,
                  amount : Int, price : Nat, row : Row]
  BY DEF recordExecution, WorkerTypeOK, idleWorker
<1>2. r.order \in Orders /\ record \in Record
  BY <1>1 DEF Request, Record
<1>3. history' \in [Orders -> Seq(Record)]
  <2>1. CASE history' = [history EXCEPT ![r.order] = Append(@, record)]
    <3> HIDE DEF record
    <3>1. Append(history[r.order], record) \in Seq(Record)
      BY <1>2, AppendProperties DEF StoreTypeOK
    <3> QED BY <1>2, <2>1, <3>1 DEF StoreTypeOK
  <2> QED BY <2>1 DEF recordExecution, CreateExecutionRecord, StoreTypeOK
<1>4. WorkerTypeOK'
  BY <1>1 DEF recordExecution, WorkerTypeOK
<1> QED BY <1>3, <1>4, FailureType DEF recordExecution, StoreTypeOK, ProcessorTypeOK,
       ProcessorAtHead, QueueTypeOK, HandlersTypeOK, serviceVars

LEMMA UpdateOrderStepType ==
    ASSUME IInv, updateOrder, UNCHANGED serviceVars
    PROVE  IInv'
<1> USE DEF IInv, TypeOK
<1>1. worker \in [pc : {"record", "update"}, request : Request,
                  amount : Int, price : Nat, row : Row]
  BY DEF updateOrder, WorkerTypeOK, idleWorker
<1>2. orders' \in [Orders -> Row \cup {NoRow}]
  BY <1>1, UpdateOrderType DEF updateOrder, StoreTypeOK
<1>3. WorkerTypeOK'
  BY DEF updateOrder, WorkerTypeOK
<1>4. calls' \in [Callers -> CallType]
  BY RespondType DEF updateOrder
<1> QED BY <1>2, <1>3, <1>4, FailureType DEF updateOrder, StoreTypeOK, ProcessorTypeOK,
       ProcessorAtHead, QueueTypeOK, HandlersTypeOK, serviceVars

-----------------------------------------------------------------------------
(* Time and crashes.                                                       *)

LEMMA TickType ==
    ASSUME IInv, Tick
    PROVE  IInv'
<1> USE DEF IInv, TypeOK
<1>1. StoreTypeOK'
  <2>1. orders' \in [Orders -> Row \cup {NoRow}]
    <3>1. \A row \in Row \cup {NoRow} : older(row) \in Row \cup {NoRow}
      BY OlderType, OlderNoRow
    <3> QED BY <3>1 DEF Tick, StoreTypeOK
  <2>2. timeLeft' \in [Orders -> {NULL} \cup Nat]
    <3>1. \A t \in {NULL} \cup Nat : t > 0 => t - 1 \in Nat
      BY DEF NULL
    <3> QED BY <3>1 DEF Tick, StoreTypeOK
  <2> QED BY <2>1, <2>2 DEF Tick, StoreTypeOK
<1>2. processor.batch \in Seq(Item)
  BY DEF ProcessorTypeOK
<1>3. ProcessorTypeOK'
  <2>1. /\ aged(processor.batch) \in Seq(Item)
        /\ aged(processor.batch) = <<>> <=> processor.batch = <<>>
    BY <1>2, AgedType
  <2>2. processor' = [processor EXCEPT !.batch = aged(processor.batch)]
    BY DEF Tick
  <2> QED BY <2>1, <2>2 DEF ProcessorTypeOK
<1>4. ProcessorAtHead'
  <2> SUFFICES ASSUME processor'.pc = "enqueue"
               PROVE  processor'.request.order = Head(processor'.batch).order
    BY DEF ProcessorAtHead
  <2>1. processor \in [pc : {"enqueue"}, request : Request, batch : Seq(Item)]
    BY DEF Tick, ProcessorTypeOK
  <2>2. /\ processor.batch # <<>>
        /\ processor'.request = processor.request
        /\ processor'.batch = aged(processor.batch)
    BY <2>1 DEF Tick, ProcessorTypeOK
  <2> QED BY <1>2, <2>1, <2>2, AgedType DEF ProcessorAtHead
<1>5. WorkerTypeOK'
  BY OlderType DEF Tick, WorkerTypeOK, idleWorker
<1>6. HandlersTypeOK'
  <2>1. cancels' \in [Cancellers -> CancelType]
    <3>1. \A call \in CancelType :
              (IF call.pc = "idle" THEN idleCancel
               ELSE [call EXCEPT !.row = older(call.row)]) \in CancelType
      BY OlderType DEF CancelType, idleCancel
    <3> QED BY <3>1 DEF Tick, HandlersTypeOK
  <2>2. monitor' \in Seq(Item)
    BY AgedType DEF Tick, HandlersTypeOK
  <2> QED BY <2>1, <2>2 DEF Tick, HandlersTypeOK
<1> QED BY <1>1, <1>3, <1>4, <1>5, <1>6 DEF Tick, QueueTypeOK

LEMMA RestartType ==
    ASSUME IInv, Restart
    PROVE  IInv'
<1> USE DEF IInv, TypeOK
<1>1. StoreTypeOK'
  BY FailureType DEF Restart, StoreTypeOK
<1>2. ProcessorTypeOK' /\ ProcessorAtHead'
  BY EmptySeq DEF Restart, ProcessorTypeOK, idleProcessor, ProcessorAtHead
<1>3. QueueTypeOK'
  BY EmptySeq, EngineAssumption DEF Restart, QueueTypeOK
<1>4. WorkerTypeOK'
  BY DEF Restart, WorkerTypeOK
<1>5. HandlersTypeOK'
  BY EmptySeq DEF Restart, HandlersTypeOK, CallType, CancelType
<1> QED BY <1>1, <1>2, <1>3, <1>4, <1>5

-----------------------------------------------------------------------------

LEMMA NextIInv == IInv /\ [Next]_vars => IInv'
<1> SUFFICES ASSUME IInv, [Next]_vars PROVE IInv'
  OBVIOUS
<1>1. ASSUME NEW o \in Orders, createOrder(o) PROVE IInv'
  BY <1>1, CreateOrderType
<1>2. ASSUME NEW c \in Callers, Caller(c), UNCHANGED serviceVars PROVE IInv'
  BY <1>2, ExecuteOrderManuallyType, ReadHistoryType, EnqueueCallType DEF Caller
<1>3. ASSUME NEW c \in Cancellers, NEW o \in Orders, cancelOrder(c, o) PROVE IInv'
  BY <1>3, CancelOrderType
<1>4. ASSUME NEW c \in Cancellers, writeCancelled(c) PROVE IInv'
  BY <1>4, WriteCancelledType
<1>5. ASSUME Processor, UNCHANGED serviceVars PROVE IInv'
  BY <1>5, ProcessExecutableOrdersType, ProcessOrderType, CompleteOrderType, EnqueueType
     DEF Processor
<1>6. ASSUME Worker, UNCHANGED serviceVars PROVE IInv'
  BY <1>6, TakeRequestType, ExecuteIntervalType, RecordExecutionType, UpdateOrderStepType
     DEF Worker
<1>7. CASE Monitor
  BY <1>7, CheckOrderTimeoutsType, ExpireOrderType DEF Monitor
<1>8. CASE Tick
  BY <1>8, TickType
<1>9. CASE Restart
  BY <1>9, RestartType
<1>10. CASE UNCHANGED vars
  BY <1>10 DEF vars, storeVars, engineVars, serviceVars, IInv, TypeOK, StoreTypeOK,
     ProcessorTypeOK, ProcessorAtHead, QueueTypeOK, WorkerTypeOK, HandlersTypeOK
<1> QED BY <1>1, <1>2, <1>3, <1>4, <1>5, <1>6, <1>7, <1>8, <1>9, <1>10 DEF Next, Handlers

LEMMA AlwaysIInv == Spec => []IInv
BY InitIInv, NextIInv, PTL DEF Spec

\* Whatever fails, overlaps or restarts, every row, record, request and response
\* is well formed: no execution divides by zero intervals, no price is negative,
\* and the queue never holds more than its capacity (engine.go, database.go,
\* orchestrator.go and the order handlers of routes.go).
THEOREM TypeOKHolds == Spec => []TypeOK
BY AlwaysIInv, PTL DEF IInv

-----------------------------------------------------------------------------
(* Finished orders.  An order is listed only while it is due, and written  *)
(* only by those at work on it.                                            *)

\* what a step may do with an order that is finished and at rest
LeftAlone(o) ==
    /\ orders'[o] \in {orders[o], older(orders[o])}
    /\ Working(o)' => \E c \in Callers : calls'[c] # calls[c]

LEMMA FinishedIsInserted ==
    ASSUME NEW o, Finished(o)
    PROVE  orders[o] # NoRow /\ ~executable(o) /\ ~canCancelOrder(orders[o].status)
BY NoRowIsNoRow DEF Finished, executable, canCancelOrder

LEMMA HandlersLeaveAlone ==
    ASSUME IInv, NEW o \in Orders, Finished(o), ~Working(o), Handlers
    PROVE  LeftAlone(o)
<1> USE DEF IInv, TypeOK, LeftAlone
<1>1. ASSUME NEW p \in Orders, createOrder(p) PROVE LeftAlone(o)
  <2>1. p # o
    BY <1>1, FinishedIsInserted DEF createOrder, CreateOrder
  <2> QED BY <1>1, <2>1 DEF createOrder, CreateOrder, StoreTypeOK, engineVars, serviceVars,
         Working
<1>2. ASSUME NEW c \in Callers, NEW p \in Orders, ExecuteOrderManually(c, p)
      PROVE  LeftAlone(o)
  BY <1>2 DEF ExecuteOrderManually, HandlersTypeOK, storeVars
<1>3. ASSUME NEW c \in Callers, readHistory(c) PROVE LeftAlone(o)
  <2>1. calls'[c] # calls[c]
    BY <1>3 DEF readHistory, HandlersTypeOK, idleCall
  <2> QED BY <1>3, <2>1 DEF readHistory
<1>4. ASSUME NEW c \in Callers, enqueueCall(c) PROVE LeftAlone(o)
  <2>1. calls'[c] # calls[c]
    BY <1>4 DEF enqueueCall, HandlersTypeOK, idleCall
  <2> QED BY <1>4, <2>1 DEF enqueueCall, storeVars
<1>5. ASSUME NEW c \in Cancellers, NEW p \in Orders, cancelOrder(c, p) PROVE LeftAlone(o)
  <2>1. p # o
    BY <1>5, FinishedIsInserted DEF cancelOrder
  <2> QED BY <1>5, <2>1 DEF cancelOrder, HandlersTypeOK, storeVars, engineVars, Working
<1>6. ASSUME NEW c \in Cancellers, writeCancelled(c) PROVE LeftAlone(o)
  <2>1. cancels[c].order # o
    BY <1>6 DEF writeCancelled, Working
  <2>2. orders'[o] = orders[o]
    BY <1>6, <2>1 DEF writeCancelled, UpdateOrder, StoreTypeOK
  <2> QED BY <1>6, <2>2 DEF writeCancelled, HandlersTypeOK, engineVars, Working, idleCancel
<1> QED BY <1>1, <1>2, <1>3, <1>4, <1>5, <1>6 DEF Handlers, Caller

\* A processor that goes on is not at work on an order it was not at work on.
LEMMA NextOrderLeavesAlone ==
    ASSUME ProcessorTypeOK, processor.batch # <<>>, nextOrder,
           NEW o, o \notin listed(processor.batch)
    PROVE  o \notin listed(processor'.batch)
BY NextOrderType

LEMMA ProcessorLeavesAlone ==
    ASSUME IInv, NEW o \in Orders, Finished(o), ~Working(o),
           Processor, UNCHANGED serviceVars
    PROVE  LeftAlone(o)
<1> USE DEF IInv, TypeOK, LeftAlone, serviceVars
<1>1. o \notin listed(processor.batch)
  BY DEF Working
<1>2. CASE processExecutableOrders
  <2>1. {p \in Orders : executable(p)} \subseteq Inserted
    BY NoRowIsNoRow DEF executable, Inserted
  <2>2. o \notin listed(processor'.batch)
    <3>1. PICK due \in GetExecutableOrders : processor' = [pc |-> "order", batch |-> due]
      BY <1>2 DEF processExecutableOrders
    <3>2. listed(due) \subseteq {p \in Orders : executable(p)}
      BY <2>1, OldestFirst DEF GetExecutableOrders
    <3> QED BY <3>1, <3>2, FinishedIsInserted
  <2> QED BY <1>2, <2>2 DEF processExecutableOrders, Working
<1>3. CASE processOrder
  <2>1. processor.batch # <<>>
    BY <1>3 DEF processOrder, ProcessorTypeOK
  <2>2. nextOrder \/ processor'.batch = processor.batch
    BY <1>3 DEF processOrder, ProcessorTypeOK
  <2>3. o \notin listed(processor'.batch)
    BY <1>1, <2>1, <2>2, NextOrderLeavesAlone
  <2> QED BY <1>3, <2>3 DEF processOrder, Working
<1>4. CASE completeOrder
  <2>1. processor.batch # <<>> /\ processor.batch \in Seq(Item)
    BY <1>4 DEF completeOrder, ProcessorTypeOK
  <2>2. o \notin listed(processor'.batch)
    BY <1>1, <1>4, <2>1, NextOrderLeavesAlone DEF completeOrder
  <2>3. Head(processor.batch).order # o
    BY <1>1, <2>1, HeadAndTail
  <2>4. orders'[o] = orders[o]
    BY <1>4, <2>3 DEF completeOrder, UpdateOrder, StoreTypeOK
  <2> QED BY <1>4, <2>2, <2>4 DEF completeOrder, Working
<1>5. CASE enqueue
  <2>1. /\ processor.batch # <<>> /\ processor.batch \in Seq(Item)
        /\ processor.request \in Request
    BY <1>5 DEF enqueue, ProcessorTypeOK
  <2>2. o \notin listed(processor'.batch)
    BY <1>1, <1>5, <2>1, NextOrderLeavesAlone DEF enqueue
  <2>3. processor.request.order # o
    BY <1>1, <1>5, <2>1, HeadAndTail DEF enqueue, ProcessorAtHead
  <2>4. \A i \in DOMAIN queue' : queue'[i].order # o
    <3>1. CASE queue' = Append(queue, processor.request)
      <4>1. /\ DOMAIN queue' = 1..(Len(queue) + 1) /\ DOMAIN queue = 1..Len(queue)
            /\ \A i \in 1..Len(queue) : queue'[i] = queue[i]
            /\ queue'[Len(queue) + 1] = processor.request
        BY <2>1, <3>1, AppendProperties, LenProperties DEF QueueTypeOK
      <4>2. \A i \in 1..Len(queue) : queue[i].order # o
        BY <4>1 DEF Working
      <4>3. Len(queue) \in Nat
        BY LenProperties DEF QueueTypeOK
      <4>4. \A i \in 1..(Len(queue) + 1) : i \in 1..Len(queue) \/ i = Len(queue) + 1
        BY <4>3
      <4> QED BY <2>3, <4>1, <4>2, <4>4
    <3>2. CASE UNCHANGED queue
      BY <3>2 DEF Working
    <3> QED BY <1>5, <3>1, <3>2 DEF enqueue
  <2> QED BY <1>5, <2>2, <2>4 DEF enqueue, storeVars, Working
<1> QED BY <1>2, <1>3, <1>4, <1>5 DEF Processor

LEMMA WorkerLeavesAlone ==
    ASSUME IInv, NEW o \in Orders, Finished(o), ~Working(o),
           Worker, UNCHANGED serviceVars
    PROVE  LeftAlone(o)
<1> USE DEF IInv, TypeOK, LeftAlone, serviceVars
<1>1. CASE takeRequest
  <2>1. /\ Len(queue) \in Nat \ {0} /\ DOMAIN queue = 1..Len(queue)
        /\ Head(queue) = queue[1]
    BY <1>1, EmptySeq, LenProperties DEF takeRequest, QueueTypeOK
  <2>2. Head(queue).order # o
    BY <2>1 DEF Working
  <2>3. \A i \in DOMAIN queue' : queue'[i].order # o
    <3>1. /\ Tail(queue) \in Seq(Request) /\ Len(Tail(queue)) = Len(queue) - 1
          /\ \A i \in 1..Len(Tail(queue)) : Tail(queue)[i] = queue[i + 1]
      BY <1>1, HeadTailProperties DEF takeRequest, QueueTypeOK
    <3>2. DOMAIN Tail(queue) = 1..(Len(queue) - 1)
      BY <3>1, LenProperties
    <3>3. \A i \in 1..(Len(queue) - 1) : i + 1 \in 1..Len(queue)
      BY <2>1
    <3> QED BY <1>1, <2>1, <3>1, <3>2, <3>3 DEF takeRequest, Working
  <2>4. worker'.request.order # o
    BY <1>1, <2>2 DEF takeRequest
  <2> QED BY <1>1, <2>3, <2>4 DEF takeRequest, storeVars, Working
<1>2. CASE Worker /\ ~takeRequest
  <2>1. worker.pc # "idle" /\ worker.request.order # o
    BY <1>2 DEF Worker, executeInterval, recordExecution, updateOrder, Working
  <2>2. worker'.pc = "idle" \/ worker'.request = worker.request
    <3>1. CASE executeInterval
      <4>1. CASE failExecution
        BY <4>1 DEF failExecution, idleWorker
      <4>2. CASE ~failExecution
        <5>1. PICK amount, price, row :
                  worker' = [pc |-> "record", request |-> worker.request,
                             amount |-> amount, price |-> price, row |-> row]
          BY <3>1, <4>2 DEF executeInterval
        <5> QED BY <5>1
      <4> QED BY <4>1, <4>2
    <3>2. CASE recordExecution
      BY <3>2 DEF recordExecution, WorkerTypeOK, idleWorker
    <3>3. CASE updateOrder
      BY <3>3 DEF updateOrder, idleWorker
    <3> QED BY <1>2, <3>1, <3>2, <3>3 DEF Worker
  <2>3. orders'[o] = orders[o]
    BY <1>2, <2>1 DEF Worker, executeInterval, recordExecution, updateOrder, UpdateOrder,
       StoreTypeOK
  <2>4. UNCHANGED <<processor, queue>>
    BY <1>2 DEF Worker, executeInterval, recordExecution, updateOrder
  <2> QED BY <2>1, <2>2, <2>3, <2>4 DEF HandlersTypeOK, Working
<1> QED BY <1>1, <1>2

LEMMA MonitorLeavesAlone ==
    ASSUME IInv, NEW o \in Orders, Finished(o), ~Working(o), Monitor
    PROVE  LeftAlone(o)
<1> USE DEF IInv, TypeOK, LeftAlone
<1>1. CASE checkOrderTimeouts
  <2>1. {p \in Orders : executable(p) /\ IsTimedOut(p)} \subseteq Inserted
    BY NoRowIsNoRow DEF executable, Inserted
  <2>2. listed(monitor') \subseteq {p \in Orders : executable(p) /\ IsTimedOut(p)}
    BY <1>1, <2>1, OldestFirst DEF checkOrderTimeouts
  <2>3. o \notin listed(monitor')
    BY <2>2, FinishedIsInserted
  <2> QED BY <1>1, <2>3 DEF checkOrderTimeouts, storeVars, engineVars, Working
<1>2. CASE expireOrder
  <2>1. /\ Head(monitor).order \in listed(monitor)
        /\ listed(Tail(monitor)) \subseteq listed(monitor)
    BY <1>2, HeadAndTail DEF expireOrder, HandlersTypeOK
  <2>2. Head(monitor).order # o /\ o \notin listed(monitor')
    BY <1>2, <2>1 DEF expireOrder, Working
  <2>3. orders'[o] = orders[o]
    BY <1>2, <2>2 DEF expireOrder, UpdateOrder, StoreTypeOK
  <2> QED BY <1>2, <2>2, <2>3 DEF expireOrder, engineVars, Working
<1> QED BY <1>1, <1>2 DEF Monitor

LEMMA TickLeavesAlone ==
    ASSUME IInv, NEW o \in Orders, Finished(o), ~Working(o), Tick
    PROVE  LeftAlone(o)
<1> USE DEF IInv, TypeOK, LeftAlone
<1>1. orders'[o] = older(orders[o])
  BY DEF Tick
<1>2. processor.batch \in Seq(Item) /\ processor'.batch = aged(processor.batch)
  BY DEF Tick, ProcessorTypeOK
<1>3. /\ listed(processor'.batch) = listed(processor.batch)
      /\ listed(monitor') = listed(monitor)
  BY <1>2, AgedType DEF Tick, HandlersTypeOK
<1>4. worker'.pc = "idle" \/ worker'.request.order # o
  <2>1. worker.pc = "idle" \/ worker.request.order # o
    BY DEF Working
  <2> QED BY <2>1 DEF Tick, WorkerTypeOK, idleWorker
<1>5. \A c \in Cancellers : cancels'[c].pc = "idle" \/ cancels'[c].order # o
  <2>1. \A c \in Cancellers : cancels[c].pc = "idle" \/ cancels[c].order # o
    BY DEF Working
  <2> QED BY <2>1 DEF Tick, HandlersTypeOK, CancelType, idleCancel
<1> QED BY <1>1, <1>3, <1>4, <1>5 DEF Tick, Working

LEMMA RestartLeavesAlone ==
    ASSUME NEW o \in Orders, Restart
    PROVE  LeftAlone(o)
<1>1. listed(<<>>) = {}
  BY DEF listed
<1>2. ~Working(o)'
  BY <1>1 DEF Restart, Working, idleProcessor, idleWorker, idleCall, idleCancel
<1> QED BY <1>2 DEF Restart, LeftAlone

\* Whatever overlaps, fails or restarts, the row of an order that is finished and
\* that nobody is at work on stays as it is, and nobody but a caller of
\* ExecuteOrderManually takes it up again (database.go GetExecutableOrders,
\* types.go canCancelOrder, engine.go processOrder).
THEOREM FinishedIsLeftAloneHolds == Spec => FinishedIsLeftAlone
<1>1. ASSUME IInv, [Next]_vars
      PROVE  [\A o \in Orders : Finished(o) /\ ~Working(o) =>
                /\ orders'[o] \in {orders[o], older(orders[o])}
                /\ Working(o)' => \E c \in Callers : calls'[c] # calls[c]]_vars
  <2> SUFFICES ASSUME Next, NEW o \in Orders, Finished(o), ~Working(o)
               PROVE  LeftAlone(o)
    BY <1>1 DEF LeftAlone
  <2> QED BY <1>1, HandlersLeaveAlone, ProcessorLeavesAlone, WorkerLeavesAlone,
         MonitorLeavesAlone, TickLeavesAlone, RestartLeavesAlone DEF Next
<1> QED BY <1>1, AlwaysIInv, PTL DEF Spec, FinishedIsLeftAlone
=============================================================================
