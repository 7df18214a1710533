----------------------------- MODULE AlertQueue -----------------------------
(***************************************************************************)
(* What the webhook subsystem promises of each alert, without workers,     *)
(* rounds, clocks or batches (webhook_queue.py's module docstring and the  *)
(* README's Delivery Guarantees): an alert is pending until a subscriber   *)
(* has acknowledged it or MaxAttempts tries have failed, subscribers may   *)
(* see it more than once, and its outcome is final.                        *)
(***************************************************************************)
EXTENDS Integers

CONSTANTS
    Alerts,        \* the alerts that may be queued
    MaxAttempts    \* failed tries after which an alert is given up

VARIABLES
    status,        \* [Alerts -> {"absent", "pending", "delivered", "dead"}]
    received,      \* the alerts their subscriber has acknowledged
    tries          \* [Alerts -> Nat]: failed tries

vars == <<status, received, tries>>

Init ==
    /\ status = [a \in Alerts |-> "absent"]
    /\ received = {}
    /\ tries = [a \in Alerts |-> 0]

Submit(a) ==
    /\ status[a] = "absent"
    /\ status' = [status EXCEPT ![a] = "pending"]
    /\ UNCHANGED <<received, tries>>

Receive(a) ==
    /\ status[a] = "pending"
    /\ received' = received \cup {a}
    /\ UNCHANGED <<status, tries>>

Confirm(a) ==
    /\ status[a] = "pending"
    /\ a \in received
    /\ status' = [status EXCEPT ![a] = "delivered"]
    /\ UNCHANGED <<received, tries>>

Retry(a) ==
    /\ status[a] = "pending"
    /\ tries[a] + 1 < MaxAttempts
    /\ tries' = [tries EXCEPT ![a] = @ + 1]
    /\ UNCHANGED <<status, received>>

GiveUp(a) ==
    /\ status[a] = "pending"
    /\ tries[a] + 1 = MaxAttempts
    /\ tries' = [tries EXCEPT ![a] = @ + 1]
    /\ status' = [status EXCEPT ![a] = "dead"]
    /\ UNCHANGED received

Next ==
    \E a \in Alerts :
        Submit(a) \/ Receive(a) \/ Confirm(a) \/ Retry(a) \/ GiveUp(a)

Spec == Init /\ [][Next]_vars
=============================================================================
