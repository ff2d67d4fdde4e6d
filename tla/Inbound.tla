------------------------------ MODULE Inbound ------------------------------
(***************************************************************************)
(* What receiving goods promises, without pages, requests or statuses:     *)
(* each receipt moves quantities of some lines from what is still due to   *)
(* the stock, all of them in one step, and never more than is due.         *)
(***************************************************************************)
EXTENDS Naturals

CONSTANTS
    Line,
    Ordered     \* how much of each line was ordered

VARIABLES
    due,        \* what is still to come, of each line
    arrived     \* what was booked into the stock

vars == <<due, arrived>>

Init ==
    /\ due = Ordered
    /\ arrived = [l \in Line |-> 0]

Receipt ==
    /\ due' \in [Line -> Nat]
    /\ \A l \in Line : due'[l] <= due[l]
    /\ arrived' = [l \in Line |-> arrived[l] + (due[l] - due'[l])]

Spec == Init /\ [][Receipt]_vars
=============================================================================
