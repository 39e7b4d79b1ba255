----------------------------- MODULE AtomicSwap -----------------------------
(***************************************************************************)
(* What two hash-time-locked deposits on two chains promise to their       *)
(* parties: the target deposit is offered only for a source deposit, and   *)
(* whoever takes the target reveals the secret while the source is still   *)
(* there and leaves the other side more than an hour to take it.           *)
(***************************************************************************)
EXTENDS Integers

VARIABLES
    source, target,   \* "none", "locked", "paid" or "returned"
    waited,           \* hours the source was takeable with a public secret
    reported          \* what the party that set up the swap was told

swapVars == <<source, target, waited, reported>>

Init ==
    /\ source = "none" /\ target = "none"
    /\ waited = 0
    /\ reported = "nothing"

LockSource ==
    /\ source = "none" /\ target = "none"
    /\ source' = "locked"
    /\ reported' \in {reported, "failure"}
    /\ UNCHANGED <<target, waited>>

LockTarget ==
    /\ source # "none" /\ target = "none"
    /\ reported = "nothing"
    /\ target' = "locked"
    /\ reported' \in {"success", "failure"}
    /\ UNCHANGED <<source, waited>>

\* A failure may be reported whatever was locked, a success only with both.
Report ==
    /\ reported = "nothing"
    /\ reported' = "failure"
    /\ UNCHANGED <<source, target, waited>>

TakeTarget ==
    /\ target = "locked" /\ source = "locked"
    /\ target' = "paid"
    /\ UNCHANGED <<source, waited, reported>>

TakeSource ==
    /\ source = "locked" /\ target = "paid"
    /\ source' = "paid"
    /\ UNCHANGED <<target, waited, reported>>

ReturnTarget ==
    /\ target = "locked"
    /\ target' = "returned"
    /\ UNCHANGED <<source, waited, reported>>

ReturnSource ==
    /\ source = "locked"
    /\ target = "paid" => waited > 1
    /\ source' = "returned"
    /\ UNCHANGED <<target, waited, reported>>

Wait ==
    /\ target = "paid"
    /\ waited' = waited + 1
    /\ UNCHANGED <<source, target, reported>>

Next ==
    \/ LockSource \/ LockTarget \/ Report
    \/ TakeTarget \/ TakeSource \/ ReturnTarget \/ ReturnSource
    \/ Wait

Spec == Init /\ [][Next]_swapVars
=============================================================================
