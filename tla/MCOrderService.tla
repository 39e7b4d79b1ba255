--------------------------- MODULE MCOrderService ---------------------------
(* Instances of OrderService and its properties for TLC. *)
EXTENDS OrderProperties

\* two intervals of 100 units, far below the timeout
plain == [sourceAmount |-> 200, executionIntervals |-> 2, minFillSize |-> 1,
          maxSlippage |-> 100, targetAdapter |-> TRUE,
          timeoutHeight |-> 2000000, timeoutTicks |-> NULL]

PlainTerms == [o \in Orders |-> plain]

\* fills of 60 at least: a share of 100 is enough, half of it is not
FillTerms == [o \in Orders |-> [plain EXCEPT !.minFillSize = 60]]

\* times out after two clock steps
ShortTerms == [o \in Orders |-> [plain EXCEPT !.timeoutTicks = 2]]

\* a timeout height that the assumed height has passed
LowTerms == [o \in Orders |-> [plain EXCEPT !.timeoutTicks = 1, !.timeoutHeight = 900000]]
=============================================================================
