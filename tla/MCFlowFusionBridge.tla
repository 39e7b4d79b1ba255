------------------------- MODULE MCFlowFusionBridge -------------------------
(* Instances of FlowFusionBridge and its properties for TLC. *)
EXTENDS BridgeProperties, TLC

\* windowMinutes = 5 and two intervals: 150 seconds between executions
config(slippage, minFill) == [windowMinutes |-> 5, executionIntervals |-> 2,
                           maxSlippage |-> slippage, minFillSize |-> minFill]

\* Fills of a 1000 unit order in up to four parts, a dust fill among them, and
\* the two ways to leave the permitted range: no minimum fill, one interval.
ExecutionConfigs == {config(1000, 300), config(1000, 0),
                     [config(1000, 300) EXCEPT !.executionIntervals = 1]}

\* 1000 of 2000 units, and half of the 990 that a fee of 1% leaves of 1000
AccountConfigs == {config(0, 1000)}
PartialConfigs == {config(0, 495)}

OneHash == [s \in Secrets |-> CHOOSE h \in Hashes : TRUE]

\* less than an interval, an interval, more than the window; two of the
\* long ones reach the timeout
ExecutionTicks == {<<1, 100>>, <<1, 150>>, <<51, 301>>}
\* an interval in a block, or in so many that the timeout passes
TimeoutTick == {<<1000, 150>>}
LateTicks == {<<1, 150>>, <<1000, 150>>}

UserSymmetry == Permutations(Users) \cup Permutations(OrderIds)
=============================================================================
