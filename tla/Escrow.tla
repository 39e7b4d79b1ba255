------------------------------- MODULE Escrow -------------------------------
(***************************************************************************)
(* What the bridge promises about the money of one order, free of users,   *)
(* prices, time and administration.  A deposit is opened once; from then   *)
(* on every unit of it is held, spent or returned, a return gives back all *)
(* that is still held, and it happens at most once.  FlowFusionBridge is   *)
(* shown to implement this specification.                                  *)
(***************************************************************************)
EXTENDS Naturals

CONSTANT Deposits      \* identifiers of deposits, one per bridge order

VARIABLES
    opened,            \* opened[d]: what the depositor was credited
    held,              \* held[d]: the part that is still in escrow
    spent,             \* spent[d]: the part given to executions
    returned           \* returned[d]: the part given back to the depositor

vars == <<opened, held, spent, returned>>

TypeOK == /\ opened   \in [Deposits -> Nat]
          /\ held     \in [Deposits -> Nat]
          /\ spent    \in [Deposits -> Nat]
          /\ returned \in [Deposits -> Nat]

Init == /\ opened   = [d \in Deposits |-> 0]
        /\ held     = [d \in Deposits |-> 0]
        /\ spent    = [d \in Deposits |-> 0]
        /\ returned = [d \in Deposits |-> 0]

\* A deposit is credited once, with a positive amount.
Open(d) == /\ opened[d] = 0
           /\ opened'[d] > 0
           /\ opened' = [opened EXCEPT ![d] = opened'[d]]
           /\ held'   = [held EXCEPT ![d] = opened'[d]]
           /\ UNCHANGED <<spent, returned>>

\* An execution takes a positive part of what is held, never more.
Spend(d) == LET amount == held[d] - held'[d] IN
            /\ amount > 0
            /\ held'[d] >= 0
            /\ held'  = [held EXCEPT ![d] = @ - amount]
            /\ spent' = [spent EXCEPT ![d] = @ + amount]
            /\ UNCHANGED <<opened, returned>>

\* A return empties the escrow of the deposit.
Return(d) == /\ held[d] > 0
             /\ returned' = [returned EXCEPT ![d] = @ + held[d]]
             /\ held' = [held EXCEPT ![d] = 0]
             /\ UNCHANGED <<opened, spent>>

Next == \E d \in Deposits : Open(d) \/ Spend(d) \/ Return(d)

Spec == Init /\ [][Next]_vars
=============================================================================
