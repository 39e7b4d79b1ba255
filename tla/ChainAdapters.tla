--------------------------- MODULE ChainAdapters ---------------------------
(***************************************************************************)
(* The chain adapters and their manager (pkg/adapters): which chains have  *)
(* an adapter, which adapters are connected, and the two HTLCs of a        *)
(* cross-chain swap.  An adapter is whatever implements ChainAdapter: the  *)
(* mocks in the repository never fail, others may.                         *)
(*                                                                         *)
(* Left out: amounts, tokens and addresses; block heights as a second      *)
(* timeout, which are those of two different chains; balances, prices and  *)
(* order calls of an adapter, which nobody makes.                          *)
(***************************************************************************)
EXTENDS Integers, Functions

CONSTANTS
    SupportedChains,  \* cfg.SupportedChains
    Creatable,        \* the chains createAdapter has an adapter for
    SourceChain, TargetChain,   \* CrossChainSwapParams
    Timeouts,         \* hours from the swap's start to its TimeoutTimestamp
    MaxHours          \* bound of the clock

ASSUME HoursAssumption == Timeouts \subseteq Nat /\ MaxHours \in Nat
ASSUME ChainsAssumption == SourceChain # TargetChain

VARIABLES
    adapters,         \* m.adapters: whether each registered adapter is connected
    swap,             \* the goroutine in ExecuteCrossChainSwap
    chainHTLCs,       \* the HTLCs of the swap on the two chains
    hours             \* the time

adapterVars == <<adapters, swap, chainHTLCs, hours>>

SwapChains == {SourceChain, TargetChain}

HTLCStatus == {"none", "active", "claimed", "refunded"}
noHTLC == [status |-> "none", timeout |-> 0, settled |-> 0]
noSwap == [pc |-> "idle", timeout |-> 0, result |-> "nothing"]

-----------------------------------------------------------------------------
(* Manager.  Every method holds the lock for all it does.                  *)

\* A chain whose adapter cannot be created is left out.
NewManager == [c \in SupportedChains \cap Creatable |-> FALSE]

InitAdapters ==
    /\ adapters = NewManager
    /\ swap = noSwap
    /\ chainHTLCs = [c \in SwapChains |-> noHTLC]
    /\ hours = 0

\* An adapter that fails does not keep the others from being asked.
ConnectAll(failed) ==
    adapters' = [c \in DOMAIN adapters |-> adapters[c] \/ c \notin failed]
DisconnectAll(failed) ==
    adapters' = [c \in DOMAIN adapters |-> adapters[c] /\ c \in failed]

GetAdapter(c) == c \in DOMAIN adapters

\* The new adapter comes as it is: the manager does not connect it.
AddAdapter(c) ==
    /\ ~GetAdapter(c)
    /\ \E connected \in BOOLEAN :
          adapters' = [d \in DOMAIN adapters \cup {c} |->
                          IF d = c THEN connected ELSE adapters[d]]
    /\ UNCHANGED <<swap, chainHTLCs, hours>>

RemoveAdapter(c) ==
    /\ GetAdapter(c)
    /\ adapters' = Restrict(adapters, DOMAIN adapters \ {c})
    /\ UNCHANGED <<swap, chainHTLCs, hours>>

-----------------------------------------------------------------------------
(* ExecuteCrossChainSwap                                                   *)

targetTimeout_Same(timeout) == timeout
targetTimeout(timeout) == timeout - 1

\* Both adapters are looked up first; one that is removed later still works.
ExecuteCrossChainSwap ==
    /\ swap = noSwap
    /\ \/ /\ \A c \in SwapChains : GetAdapter(c)
          /\ \E t \in Timeouts : swap' = [swap EXCEPT !.pc = "source", !.timeout = hours + t]
       \/ /\ \E c \in SwapChains : ~GetAdapter(c)
          /\ swap' = [swap EXCEPT !.pc = "returned", !.result = "failure"]
    /\ UNCHANGED <<adapters, chainHTLCs, hours>>

\* An adapter's call: it succeeds, or fails before or after the chain took it.
CreateHTLC(c, timeout, ok) ==
    \/ chainHTLCs' = [chainHTLCs EXCEPT ![c] =
           [status |-> "active", timeout |-> timeout, settled |-> 0]]
    \/ ~ok /\ UNCHANGED chainHTLCs

createSourceHTLC ==
    /\ swap.pc = "source"
    /\ \E ok \in BOOLEAN :
          /\ CreateHTLC(SourceChain, swap.timeout, ok)
          /\ swap' = IF ok THEN [swap EXCEPT !.pc = "target"]
                     ELSE [swap EXCEPT !.pc = "returned", !.result = "failure"]
    /\ UNCHANGED <<adapters, hours>>

createTargetHTLC ==
    /\ swap.pc = "target"
    /\ \E ok \in BOOLEAN :
          /\ CreateHTLC(TargetChain, targetTimeout(swap.timeout), ok)
          /\ swap' = [swap EXCEPT !.pc = "returned",
                                  !.result = IF ok THEN "success" ELSE "failure"]
    /\ UNCHANGED <<adapters, hours>>

ExecuteSwap == createSourceHTLC \/ createTargetHTLC

-----------------------------------------------------------------------------
(* The chains and the parties of the swap, outside of the service.         *)

settle(c, status) ==
    /\ chainHTLCs[c].status = "active"
    /\ chainHTLCs' = [chainHTLCs EXCEPT ![c].status = status, ![c].settled = hours]
    /\ UNCHANGED <<adapters, swap, hours>>

\* The owner of the secret takes the target; the secret is public from then on.
claimHTLC(c) ==
    /\ hours < chainHTLCs[c].timeout
    /\ c = SourceChain => chainHTLCs[TargetChain].status = "claimed"
    /\ settle(c, "claimed")

refundHTLC(c) ==
    /\ hours >= chainHTLCs[c].timeout
    /\ settle(c, "refunded")

Hour ==
    /\ hours < MaxHours
    /\ hours' = hours + 1
    /\ UNCHANGED <<adapters, swap, chainHTLCs>>

-----------------------------------------------------------------------------

\* Adapters connect and disconnect as the orchestrator says.
AdapterNext ==
    \/ \E failed \in SUBSET DOMAIN adapters :
          /\ ConnectAll(failed) \/ DisconnectAll(failed)
          /\ UNCHANGED <<swap, chainHTLCs, hours>>
    \/ \E c \in SwapChains : AddAdapter(c) \/ RemoveAdapter(c)
    \/ ExecuteCrossChainSwap \/ ExecuteSwap
    \/ \E c \in SwapChains : claimHTLC(c) \/ refundHTLC(c)
    \/ Hour

AdapterSpec == InitAdapters /\ [][AdapterNext]_adapterVars

-----------------------------------------------------------------------------
(* The swap seen by its parties.                                           *)

depositOf(htlc) == CASE htlc.status = "none" -> "none"
                     [] htlc.status = "active" -> "locked"
                     [] htlc.status = "claimed" -> "paid"
                     [] htlc.status = "refunded" -> "returned"

hoursWaited == LET target == chainHTLCs[TargetChain]
               IN  IF target.status = "claimed" THEN hours - target.settled ELSE 0

Swap == INSTANCE AtomicSwap WITH
    source <- depositOf(chainHTLCs[SourceChain]),
    target <- depositOf(chainHTLCs[TargetChain]),
    waited <- hoursWaited,
    reported <- swap.result

\* The two HTLCs of a cross-chain swap are an atomic swap: whoever claims the
\* target can do so only while the source is there and leaves the other side
\* more than an hour to claim it with the secret, whichever call fails
\* (manager.go ExecuteCrossChainSwap).
AtomicSwapSpec == Swap!Spec
=============================================================================
