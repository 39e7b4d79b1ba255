------------------------ MODULE ChainAdaptersProofs ------------------------
(***************************************************************************)
(* The two HTLCs of a cross-chain swap are an atomic swap, for any chains, *)
(* adapters and timeouts, whichever call fails.                            *)
(*                                                                         *)
(* What carries the argument is the order of the two calls and the hour    *)
(* between the timeouts: a target HTLC exists only with a source HTLC that *)
(* times out an hour later, so that the source cannot have been refunded   *)
(* when the target is claimed, nor until more than an hour after.          *)
(***************************************************************************)
EXTENDS ChainAdapters, TLAPS

S == chainHTLCs[SourceChain]
T == chainHTLCs[TargetChain]

SwapCall == [pc : {"idle", "source", "target", "returned"}, timeout : Int,
             result : {"nothing", "success", "failure"}]
HTLC == [status : HTLCStatus, timeout : Int, settled : Int]

AdapterTypeOK ==
    /\ swap \in SwapCall
    /\ chainHTLCs \in [SwapChains -> HTLC]
    /\ hours \in Nat

\* How far the call has come says which HTLCs there may be.
HTLCsFollowTheCall ==
    /\ swap.pc # "returned" => swap.result = "nothing"
    /\ swap.pc \in {"idle", "source"} => S.status = "none"
    /\ swap.pc # "returned" => T.status = "none"
    /\ swap.pc = "target" => S.status # "none" /\ S.timeout = swap.timeout

\* Who has settled an HTLC did so at a time that permitted it.
SettledInTime ==
    /\ T.status # "none" => S.status # "none" /\ S.timeout = T.timeout + 1
    /\ S.status = "claimed" => T.status = "claimed"
    /\ S.status = "refunded" => hours >= S.timeout
    /\ T.status = "claimed" => T.settled < T.timeout

SwapInv == AdapterTypeOK /\ HTLCsFollowTheCall /\ SettledInTime
-----------------------------------------------------------------------------
(* The invariant.                                                          *)

LEMMA SwapInvInit == InitAdapters => SwapInv
BY DEF InitAdapters, SwapInv, AdapterTypeOK, SwapCall, HTLC, HTLCsFollowTheCall, SettledInTime,
       S, T, noSwap, noHTLC, HTLCStatus, SwapChains

\* An HTLC changes without the other one.
LEMMA OtherIsUntouched ==
    ASSUME AdapterTypeOK, NEW c \in SwapChains, NEW htlc,
           chainHTLCs' = [chainHTLCs EXCEPT ![c] = htlc]
    PROVE  \/ c = SourceChain /\ S' = htlc /\ T' = T
           \/ c = TargetChain /\ T' = htlc /\ S' = S
BY ChainsAssumption DEF AdapterTypeOK, SwapChains, S, T

LEMMA CreateSourceKeepsInv == SwapInv /\ createSourceHTLC => SwapInv'
<1> SUFFICES ASSUME SwapInv, createSourceHTLC PROVE SwapInv'
  OBVIOUS
<1> USE DEF SwapInv
<1> PICK ok \in BOOLEAN :
        /\ CreateHTLC(SourceChain, swap.timeout, ok)
        /\ swap' = IF ok THEN [swap EXCEPT !.pc = "target"]
                   ELSE [swap EXCEPT !.pc = "returned", !.result = "failure"]
  BY DEF createSourceHTLC
<1>1. swap.pc = "source" /\ UNCHANGED <<adapters, hours>>
  BY DEF createSourceHTLC
<1>2. CASE UNCHANGED chainHTLCs /\ ~ok
  BY <1>1, <1>2 DEF AdapterTypeOK, SwapCall, HTLCsFollowTheCall, SettledInTime, S, T
<1>3. CASE chainHTLCs' = [chainHTLCs EXCEPT ![SourceChain] =
               [status |-> "active", timeout |-> swap.timeout, settled |-> 0]]
  <2>1. S' = [status |-> "active", timeout |-> swap.timeout, settled |-> 0] /\ T' = T
    BY <1>3, OtherIsUntouched, ChainsAssumption DEF SwapChains
  <2>2. [status |-> "active", timeout |-> swap.timeout, settled |-> 0] \in HTLC
    BY DEF AdapterTypeOK, SwapCall, HTLC, HTLCStatus
  <2>3. swap' \in SwapCall
    BY DEF AdapterTypeOK, SwapCall
  <2>4. AdapterTypeOK'
    BY <1>1, <1>3, <2>2, <2>3 DEF AdapterTypeOK
  <2>5. swap'.pc # "idle" /\ swap'.pc # "source" /\ swap'.timeout = swap.timeout
           /\ (swap'.pc # "returned" => swap'.result = swap.result)
    BY DEF AdapterTypeOK, SwapCall
  <2> QED BY <1>1, <2>1, <2>4, <2>5 DEF AdapterTypeOK, HTLCsFollowTheCall, SettledInTime
<1> QED BY <1>2, <1>3 DEF CreateHTLC

LEMMA CreateTargetKeepsInv == SwapInv /\ createTargetHTLC => SwapInv'
<1> SUFFICES ASSUME SwapInv, createTargetHTLC PROVE SwapInv'
  OBVIOUS
<1> USE DEF SwapInv
<1> PICK ok \in BOOLEAN :
        /\ CreateHTLC(TargetChain, targetTimeout(swap.timeout), ok)
        /\ swap' = [swap EXCEPT !.pc = "returned",
                                !.result = IF ok THEN "success" ELSE "failure"]
  BY DEF createTargetHTLC
<1>1. swap.pc = "target" /\ UNCHANGED <<adapters, hours>>
  BY DEF createTargetHTLC
<1>2. CASE UNCHANGED chainHTLCs
  BY <1>1, <1>2 DEF AdapterTypeOK, SwapCall, HTLCsFollowTheCall, SettledInTime, S, T
<1>3. CASE chainHTLCs' = [chainHTLCs EXCEPT ![TargetChain] =
               [status |-> "active", timeout |-> swap.timeout - 1, settled |-> 0]]
  <2>1. T' = [status |-> "active", timeout |-> swap.timeout - 1, settled |-> 0] /\ S' = S
    BY <1>3, OtherIsUntouched, ChainsAssumption DEF SwapChains
  <2>2. swap.timeout \in Int
    BY DEF AdapterTypeOK, SwapCall
  <2>3. [status |-> "active", timeout |-> swap.timeout - 1, settled |-> 0] \in HTLC
    BY <2>2 DEF HTLC, HTLCStatus
  <2>4. swap' \in SwapCall /\ swap'.pc = "returned"
    BY DEF AdapterTypeOK, SwapCall
  <2>5. AdapterTypeOK'
    BY <1>1, <1>3, <2>3, <2>4 DEF AdapterTypeOK
  <2> QED BY <1>1, <2>1, <2>2, <2>4, <2>5 DEF HTLCsFollowTheCall, SettledInTime
<1> QED BY <1>2, <1>3 DEF CreateHTLC, targetTimeout

\* The source is claimed after the target, and refunded only when its time is
\* up, which is later than any claim of the target.
LEMMA SettlingKeepsInv ==
    ASSUME SwapInv, NEW c \in SwapChains, claimHTLC(c) \/ refundHTLC(c)
    PROVE  SwapInv'
<1> USE DEF SwapInv
<1> PICK status \in {"claimed", "refunded"} :
        /\ settle(c, status)
        /\ status = "claimed" =>
              hours < chainHTLCs[c].timeout /\ (c = SourceChain => T.status = "claimed")
        /\ status = "refunded" => hours >= chainHTLCs[c].timeout
  BY DEF claimHTLC, refundHTLC, T
<1> DEFINE htlc == [chainHTLCs[c] EXCEPT !.status = status, !.settled = hours]
<1>1. /\ chainHTLCs[c].status = "active"
      /\ chainHTLCs' = [chainHTLCs EXCEPT ![c] = htlc]
      /\ UNCHANGED <<adapters, swap, hours>>
  BY DEF settle, AdapterTypeOK
<1>2. /\ htlc \in HTLC
      /\ htlc.status = status /\ htlc.timeout = chainHTLCs[c].timeout /\ htlc.settled = hours
  <2>1. chainHTLCs[c] \in HTLC /\ hours \in Int
    BY DEF AdapterTypeOK
  <2> QED BY <2>1 DEF HTLC, HTLCStatus
<1>3. \/ c = SourceChain /\ S' = htlc /\ T' = T
      \/ c = TargetChain /\ T' = htlc /\ S' = S
  BY <1>1, OtherIsUntouched
<1> HIDE DEF htlc
<1>4. AdapterTypeOK'
  BY <1>1, <1>2 DEF AdapterTypeOK
<1>5. S.status \in HTLCStatus /\ T.status \in HTLCStatus /\ S.timeout \in Int
         /\ T.timeout \in Int /\ hours \in Int
  BY DEF AdapterTypeOK, HTLC, S, T, SwapChains
<1>6. CASE c = SourceChain /\ S' = htlc /\ T' = T
  <2>1. S.status = "active" /\ htlc.timeout = S.timeout
    BY <1>1, <1>2, <1>6 DEF S
  <2> QED BY <1>1, <1>2, <1>4, <1>5, <1>6, <2>1 DEF HTLCsFollowTheCall, SettledInTime, S
<1>7. CASE c = TargetChain /\ T' = htlc /\ S' = S
  <2>1. T.status = "active" /\ htlc.timeout = T.timeout
    BY <1>1, <1>2, <1>7 DEF T
  <2> QED BY <1>1, <1>2, <1>4, <1>5, <1>7, <2>1 DEF HTLCsFollowTheCall, SettledInTime, T
<1> QED BY <1>3, <1>6, <1>7

\* Everything else leaves the HTLCs alone.
LEMMA OthersKeepInv ==
    ASSUME SwapInv, UNCHANGED chainHTLCs,
           \/ UNCHANGED <<swap, hours>>
           \/ ExecuteCrossChainSwap
           \/ Hour
    PROVE  SwapInv'
<1> USE DEF SwapInv, S, T
<1>1. CASE UNCHANGED <<swap, hours>>
  BY <1>1 DEF AdapterTypeOK, HTLCsFollowTheCall, SettledInTime
<1>2. CASE ExecuteCrossChainSwap
  <2>1. swap = noSwap /\ hours' = hours
    BY <1>2 DEF ExecuteCrossChainSwap
  <2>2. \/ \E t \in Timeouts : swap' = [swap EXCEPT !.pc = "source", !.timeout = hours + t]
        \/ swap' = [swap EXCEPT !.pc = "returned", !.result = "failure"]
    BY <1>2 DEF ExecuteCrossChainSwap
  <2>3. \/ \E t \in Timeouts :
              swap' = [pc |-> "source", timeout |-> hours + t, result |-> "nothing"]
        \/ swap' = [pc |-> "returned", timeout |-> 0, result |-> "failure"]
    BY <2>1, <2>2 DEF noSwap
  <2>4. \A t \in Timeouts : hours + t \in Int
    BY HoursAssumption DEF AdapterTypeOK
  <2>5. /\ swap' \in SwapCall
        /\ swap'.pc \in {"source", "returned"}
        /\ swap'.pc # "returned" => swap'.result = "nothing"
    BY <2>3, <2>4 DEF SwapCall
  <2>6. S.status = "none" /\ T.status = "none"
    BY <2>1 DEF noSwap, HTLCsFollowTheCall
  <2> QED BY <2>1, <2>5, <2>6 DEF AdapterTypeOK, HTLCsFollowTheCall, SettledInTime
<1>3. CASE Hour
  <2>1. hours' = hours + 1 /\ UNCHANGED swap /\ hours \in Nat
    BY <1>3 DEF Hour, AdapterTypeOK
  <2>2. S.status = "refunded" => S.timeout \in Int
    BY DEF AdapterTypeOK, HTLC, SwapChains
  <2>3. AdapterTypeOK'
    BY <2>1 DEF AdapterTypeOK
  <2>4. S.status = "refunded" => hours' >= S.timeout
    BY <2>1, <2>2 DEF SettledInTime
  <2> QED BY <2>1, <2>3, <2>4 DEF HTLCsFollowTheCall, SettledInTime
<1> QED BY <1>1, <1>2, <1>3

LEMMA SwapInvStep == SwapInv /\ [AdapterNext]_adapterVars => SwapInv'
<1> SUFFICES ASSUME SwapInv, [AdapterNext]_adapterVars PROVE SwapInv'
  OBVIOUS
<1>1. CASE UNCHANGED adapterVars
  BY <1>1, OthersKeepInv DEF adapterVars
<1>2. CASE \E failed \in SUBSET DOMAIN adapters :
               /\ ConnectAll(failed) \/ DisconnectAll(failed)
               /\ UNCHANGED <<swap, chainHTLCs, hours>>
  BY <1>2, OthersKeepInv
<1>3. CASE \E c \in SwapChains : AddAdapter(c) \/ RemoveAdapter(c)
  <2>1. UNCHANGED <<swap, chainHTLCs, hours>>
    BY <1>3 DEF AddAdapter, RemoveAdapter
  <2> QED BY <2>1, OthersKeepInv
<1>4. CASE ExecuteCrossChainSwap
  BY <1>4, OthersKeepInv DEF ExecuteCrossChainSwap
<1>5. CASE ExecuteSwap
  BY <1>5, CreateSourceKeepsInv, CreateTargetKeepsInv DEF ExecuteSwap
<1>6. CASE \E c \in SwapChains : claimHTLC(c) \/ refundHTLC(c)
  BY <1>6, SettlingKeepsInv
<1>7. CASE Hour
  BY <1>7, OthersKeepInv DEF Hour
<1> QED BY <1>1, <1>2, <1>3, <1>4, <1>5, <1>6, <1>7 DEF AdapterNext

THEOREM SwapInvHolds == AdapterSpec => []SwapInv
BY SwapInvInit, SwapInvStep, PTL DEF AdapterSpec

-----------------------------------------------------------------------------
(* The refinement.                                                         *)

LEMMA SwapInit == InitAdapters => Swap!Init
BY DEF InitAdapters, Swap!Init, noSwap, noHTLC, depositOf, hoursWaited, SwapChains

\* What the parties see, as the HTLCs have it.
Deposits ==
    /\ depositOf(S) = "none" <=> S.status = "none"
    /\ depositOf(S) = "locked" <=> S.status = "active"
    /\ depositOf(S) = "paid" <=> S.status = "claimed"
    /\ depositOf(S) = "returned" <=> S.status = "refunded"
    /\ depositOf(T) = "none" <=> T.status = "none"
    /\ depositOf(T) = "locked" <=> T.status = "active"
    /\ depositOf(T) = "paid" <=> T.status = "claimed"
    /\ depositOf(T) = "returned" <=> T.status = "refunded"
    /\ hoursWaited = IF T.status = "claimed" THEN hours - T.settled ELSE 0

LEMMA Seen == SwapInv => Deposits
<1> SUFFICES ASSUME SwapInv PROVE Deposits
  OBVIOUS
<1>1. S.status \in HTLCStatus /\ T.status \in HTLCStatus
  BY DEF SwapInv, AdapterTypeOK, HTLC, S, T, SwapChains
<1> QED BY <1>1 DEF Deposits, depositOf, hoursWaited, HTLCStatus, T

LEMMA SeenNext == SwapInv' => Deposits'
BY Seen, PTL

\* The parameters of the instance.
seen == <<depositOf(S), depositOf(T), hoursWaited, swap.result>>

LEMMA Stutter == UNCHANGED seen => UNCHANGED Swap!swapVars
BY DEF Swap!swapVars, seen, S, T

LEMMA CreateSourceRefines ==
    ASSUME SwapInv, SwapInv', createSourceHTLC
    PROVE  [Swap!Next]_(Swap!swapVars)
<1> USE DEF SwapInv
<1> PICK ok \in BOOLEAN :
        /\ CreateHTLC(SourceChain, swap.timeout, ok)
        /\ swap' = IF ok THEN [swap EXCEPT !.pc = "target"]
                   ELSE [swap EXCEPT !.pc = "returned", !.result = "failure"]
  BY DEF createSourceHTLC
<1>1. /\ S.status = "none" /\ T.status = "none" /\ swap.result = "nothing"
      /\ swap'.result = IF ok THEN "nothing" ELSE "failure"
  BY DEF createSourceHTLC, AdapterTypeOK, SwapCall, HTLCsFollowTheCall
<1>2. CASE UNCHANGED chainHTLCs /\ ~ok
  <2>1. S' = S /\ T' = T
    BY <1>2 DEF S, T
  <2>2. UNCHANGED <<depositOf(S), depositOf(T), hoursWaited>>
    BY <1>1, <2>1, Seen, SeenNext DEF Deposits
  <2>3. Swap!Report
    BY <1>1, <1>2, <2>2 DEF Swap!Report, S, T
  <2> QED BY <2>3 DEF Swap!Next
<1>3. CASE chainHTLCs' = [chainHTLCs EXCEPT ![SourceChain] =
               [status |-> "active", timeout |-> swap.timeout, settled |-> 0]]
  <2>1. S' = [status |-> "active", timeout |-> swap.timeout, settled |-> 0] /\ T' = T
    BY <1>3, OtherIsUntouched, ChainsAssumption DEF SwapChains
  <2>2. /\ depositOf(S) = "none" /\ depositOf(S)' = "locked" /\ depositOf(T) = "none"
        /\ UNCHANGED <<depositOf(T), hoursWaited>>
    BY <1>1, <2>1, Seen, SeenNext DEF Deposits
  <2>3. Swap!LockSource
    BY <1>1, <2>2 DEF Swap!LockSource, S, T
  <2> QED BY <2>3 DEF Swap!Next
<1> QED BY <1>2, <1>3 DEF CreateHTLC

LEMMA CreateTargetRefines ==
    ASSUME SwapInv, SwapInv', createTargetHTLC
    PROVE  [Swap!Next]_(Swap!swapVars)
<1> USE DEF SwapInv
<1> PICK ok \in BOOLEAN :
        /\ CreateHTLC(TargetChain, targetTimeout(swap.timeout), ok)
        /\ swap' = [swap EXCEPT !.pc = "returned",
                                !.result = IF ok THEN "success" ELSE "failure"]
  BY DEF createTargetHTLC
<1>1. /\ S.status # "none" /\ T.status = "none" /\ swap.result = "nothing"
      /\ swap'.result = IF ok THEN "success" ELSE "failure"
  BY DEF createTargetHTLC, AdapterTypeOK, SwapCall, HTLCsFollowTheCall
<1>2. CASE UNCHANGED chainHTLCs /\ ~ok
  <2>1. S' = S /\ T' = T
    BY <1>2 DEF S, T
  <2>2. UNCHANGED <<depositOf(S), depositOf(T), hoursWaited>>
    BY <1>1, <2>1, Seen, SeenNext DEF Deposits
  <2>3. Swap!Report
    BY <1>1, <1>2, <2>2 DEF Swap!Report, S, T
  <2> QED BY <2>3 DEF Swap!Next
<1>3. CASE chainHTLCs' = [chainHTLCs EXCEPT ![TargetChain] =
               [status |-> "active", timeout |-> targetTimeout(swap.timeout), settled |-> 0]]
  <2>1. /\ T' = [status |-> "active", timeout |-> targetTimeout(swap.timeout), settled |-> 0]
        /\ S' = S
    BY <1>3, OtherIsUntouched, ChainsAssumption DEF SwapChains
  <2>2. /\ depositOf(S) # "none" /\ depositOf(T) = "none" /\ depositOf(T)' = "locked"
        /\ UNCHANGED <<depositOf(S), hoursWaited>>
    BY <1>1, <2>1, Seen, SeenNext DEF Deposits
  <2>3. Swap!LockTarget
    BY <1>1, <2>2 DEF Swap!LockTarget, S, T
  <2> QED BY <2>3 DEF Swap!Next
<1> QED BY <1>2, <1>3 DEF CreateHTLC

LEMMA ClaimRefines ==
    ASSUME SwapInv, SwapInv', NEW c \in SwapChains, claimHTLC(c)
    PROVE  Swap!Next
<1> USE DEF SwapInv
<1> DEFINE htlc == [chainHTLCs[c] EXCEPT !.status = "claimed", !.settled = hours]
<1>1. /\ chainHTLCs[c].status = "active" /\ hours < chainHTLCs[c].timeout
      /\ c = SourceChain => T.status = "claimed"
      /\ chainHTLCs' = [chainHTLCs EXCEPT ![c] = htlc]
      /\ UNCHANGED <<swap, hours>>
  BY DEF claimHTLC, settle, AdapterTypeOK, T
<1>2. htlc.status = "claimed" /\ htlc.settled = hours /\ hours \in Int
  BY DEF AdapterTypeOK, HTLC
<1>3. \/ c = SourceChain /\ S' = htlc /\ T' = T
      \/ c = TargetChain /\ T' = htlc /\ S' = S
  BY <1>1, OtherIsUntouched
<1> HIDE DEF htlc
<1>4. CASE c = SourceChain /\ S' = htlc /\ T' = T
  <2>1. S.status = "active" /\ T.status = "claimed"
    BY <1>1, <1>4 DEF S
  <2>2. /\ depositOf(S) = "locked" /\ depositOf(S)' = "paid" /\ depositOf(T) = "paid"
        /\ UNCHANGED <<depositOf(T), hoursWaited>>
    BY <1>1, <1>2, <1>4, <2>1, Seen, SeenNext DEF Deposits
  <2>3. Swap!TakeSource
    BY <1>1, <2>2 DEF Swap!TakeSource, S, T
  <2> QED BY <2>3 DEF Swap!Next
<1>5. CASE c = TargetChain /\ T' = htlc /\ S' = S
  <2>1. T.status = "active" /\ hours < T.timeout /\ T.timeout \in Int
    BY <1>1, <1>5 DEF T, AdapterTypeOK, HTLC
  <2>2. S.status = "active"
    <3>1. S.status \in HTLCStatus
      BY DEF AdapterTypeOK, HTLC, S, SwapChains
    <3> QED BY <1>2, <2>1, <3>1 DEF SettledInTime, HTLCStatus
  <2>3. /\ depositOf(T) = "locked" /\ depositOf(T)' = "paid" /\ depositOf(S) = "locked"
        /\ UNCHANGED <<depositOf(S), hoursWaited>>
    BY <1>1, <1>2, <1>5, <2>1, <2>2, Seen, SeenNext DEF Deposits
  <2>4. Swap!TakeTarget
    BY <1>1, <2>3 DEF Swap!TakeTarget, S, T
  <2> QED BY <2>4 DEF Swap!Next
<1> QED BY <1>3, <1>4, <1>5

\* A source goes back after a paid target only when more than an hour is over.
LEMMA RefundRefines ==
    ASSUME SwapInv, SwapInv', NEW c \in SwapChains, refundHTLC(c)
    PROVE  Swap!Next
<1> USE DEF SwapInv
<1> DEFINE htlc == [chainHTLCs[c] EXCEPT !.status = "refunded", !.settled = hours]
<1>1. /\ chainHTLCs[c].status = "active" /\ hours >= chainHTLCs[c].timeout
      /\ chainHTLCs' = [chainHTLCs EXCEPT ![c] = htlc]
      /\ UNCHANGED <<swap, hours>>
  BY DEF refundHTLC, settle, AdapterTypeOK
<1>2. htlc.status = "refunded" /\ hours \in Int
  BY DEF AdapterTypeOK, HTLC
<1>3. \/ c = SourceChain /\ S' = htlc /\ T' = T
      \/ c = TargetChain /\ T' = htlc /\ S' = S
  BY <1>1, OtherIsUntouched
<1> HIDE DEF htlc
<1>4. CASE c = SourceChain /\ S' = htlc /\ T' = T
  <2>1. S.status = "active" /\ hours >= S.timeout
    BY <1>1, <1>4 DEF S
  <2>2. T.timeout \in Int /\ T.settled \in Int
    BY DEF AdapterTypeOK, HTLC, T, SwapChains
  <2>3. T.status = "claimed" => hours - T.settled > 1
    BY <1>2, <2>1, <2>2 DEF SettledInTime
  <2>4. /\ depositOf(S) = "locked" /\ depositOf(S)' = "returned"
        /\ depositOf(T) = "paid" => hoursWaited > 1
        /\ UNCHANGED <<depositOf(T), hoursWaited>>
    BY <1>1, <1>2, <1>4, <2>1, <2>3, Seen, SeenNext DEF Deposits
  <2>5. Swap!ReturnSource
    BY <1>1, <2>4 DEF Swap!ReturnSource, S, T
  <2> QED BY <2>5 DEF Swap!Next
<1>5. CASE c = TargetChain /\ T' = htlc /\ S' = S
  <2>1. T.status = "active"
    BY <1>1, <1>5 DEF T
  <2>2. /\ depositOf(T) = "locked" /\ depositOf(T)' = "returned"
        /\ UNCHANGED <<depositOf(S), hoursWaited>>
    BY <1>1, <1>2, <1>5, <2>1, Seen, SeenNext DEF Deposits
  <2>3. Swap!ReturnTarget
    BY <1>1, <2>2 DEF Swap!ReturnTarget, S, T
  <2> QED BY <2>3 DEF Swap!Next
<1> QED BY <1>3, <1>4, <1>5

LEMMA HourRefines ==
    ASSUME SwapInv, SwapInv', Hour
    PROVE  [Swap!Next]_(Swap!swapVars)
<1>1. S' = S /\ T' = T /\ swap' = swap /\ hours' = hours + 1 /\ hours \in Int /\ T.settled \in Int
  BY DEF SwapInv, AdapterTypeOK, HTLC, SwapChains, Hour, S, T
<1>2. UNCHANGED <<depositOf(S), depositOf(T)>>
  BY <1>1, Seen, SeenNext DEF Deposits
<1>3. CASE T.status = "claimed"
  <2>1. depositOf(T) = "paid" /\ hoursWaited' = hoursWaited + 1
    BY <1>1, <1>3, Seen, SeenNext DEF Deposits
  <2>2. Swap!Wait
    BY <1>1, <1>2, <2>1 DEF Swap!Wait, S, T
  <2> QED BY <2>2 DEF Swap!Next
<1>4. CASE T.status # "claimed"
  <2>1. UNCHANGED hoursWaited
    BY <1>1, <1>4, Seen, SeenNext DEF Deposits
  <2> QED BY <1>1, <1>2, <2>1, Stutter DEF seen
<1> QED BY <1>3, <1>4

LEMMA CallRefines ==
    ASSUME SwapInv, SwapInv', ExecuteCrossChainSwap
    PROVE  [Swap!Next]_(Swap!swapVars)
<1>1. S' = S /\ T' = T /\ hours' = hours /\ swap = noSwap
  BY DEF ExecuteCrossChainSwap, S, T
<1>2. UNCHANGED <<depositOf(S), depositOf(T), hoursWaited>>
  BY <1>1, Seen, SeenNext DEF Deposits
<1>3. swap.result = "nothing" /\ swap'.result \in {"nothing", "failure"}
  <2>1. swap.result = "nothing"
    BY <1>1 DEF noSwap
  <2>2. CASE \E t \in Timeouts : swap' = [swap EXCEPT !.pc = "source", !.timeout = hours + t]
    BY <1>1, <2>1, <2>2 DEF noSwap
  <2>3. CASE swap' = [swap EXCEPT !.pc = "returned", !.result = "failure"]
    BY <1>1, <2>1, <2>3 DEF noSwap
  <2> QED BY <2>1, <2>2, <2>3 DEF ExecuteCrossChainSwap
<1>4. CASE swap'.result = "nothing"
  BY <1>2, <1>3, <1>4, Stutter DEF seen
<1>5. CASE swap'.result = "failure"
  <2>1. Swap!Report
    BY <1>2, <1>3, <1>5 DEF Swap!Report, S, T
  <2> QED BY <2>1 DEF Swap!Next
<1> QED BY <1>3, <1>4, <1>5

LEMMA SwapStep ==
    SwapInv /\ SwapInv' /\ [AdapterNext]_adapterVars => [Swap!Next]_(Swap!swapVars)
<1> SUFFICES ASSUME SwapInv, SwapInv', [AdapterNext]_adapterVars
             PROVE  [Swap!Next]_(Swap!swapVars)
  OBVIOUS
<1>1. CASE UNCHANGED <<swap, chainHTLCs, hours>>
  BY <1>1 DEF Swap!swapVars, hoursWaited, depositOf
<1>2. CASE UNCHANGED adapterVars
  BY <1>1, <1>2 DEF adapterVars
<1>3. CASE \E failed \in SUBSET DOMAIN adapters :
               /\ ConnectAll(failed) \/ DisconnectAll(failed)
               /\ UNCHANGED <<swap, chainHTLCs, hours>>
  BY <1>1, <1>3
<1>4. CASE \E c \in SwapChains : AddAdapter(c) \/ RemoveAdapter(c)
  BY <1>1, <1>4 DEF AddAdapter, RemoveAdapter
<1>5. CASE ExecuteCrossChainSwap
  BY <1>5, CallRefines
<1>6. CASE ExecuteSwap
  BY <1>6, CreateSourceRefines, CreateTargetRefines DEF ExecuteSwap
<1>7. CASE \E c \in SwapChains : claimHTLC(c) \/ refundHTLC(c)
  BY <1>7, ClaimRefines, RefundRefines
<1>8. CASE Hour
  BY <1>8, HourRefines
<1> QED BY <1>2, <1>3, <1>4, <1>5, <1>6, <1>7, <1>8 DEF AdapterNext

\* The HTLCs of a swap through the chain adapters implement the atomic swap
\* (manager.go ExecuteCrossChainSwap).
THEOREM AdaptersImplementAtomicSwap == AdapterSpec => AtomicSwapSpec
BY SwapInit, SwapStep, SwapInvHolds, PTL DEF AdapterSpec, AtomicSwapSpec, Swap!Spec
=============================================================================
