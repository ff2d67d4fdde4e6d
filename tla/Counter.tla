------------------------------ MODULE Counter ------------------------------
(***************************************************************************)
(* What a till promises about payment, without screens, requests or        *)
(* storage: the cashier charges what is in front of her under a fresh      *)
(* number, and the shop records each charge at most once, exactly as it    *)
(* was charged.  Whether a charge is ever recorded is left open.           *)
(***************************************************************************)
EXTENDS Naturals

CONSTANTS
    Charge,     \* the numbers charges use up
    Ticket,     \* what can be charged
    NoTicket

VARIABLES
    front,      \* what is in front of the cashier
    charged,    \* the ticket of each charge, NoTicket before it is used
    recorded    \* the ticket the shop recorded for it, or NoTicket

vars == <<front, charged, recorded>>

Init ==
    /\ front \in Ticket
    /\ charged = [c \in Charge |-> NoTicket]
    /\ recorded = [c \in Charge |-> NoTicket]

Change ==
    /\ front' \in Ticket
    /\ UNCHANGED <<charged, recorded>>

Take(c) ==
    /\ charged[c] = NoTicket
    /\ charged' = [charged EXCEPT ![c] = front]
    /\ UNCHANGED <<front, recorded>>

Record(c) ==
    /\ charged[c] # NoTicket
    /\ recorded[c] = NoTicket
    /\ recorded' = [recorded EXCEPT ![c] = charged[c]]
    /\ UNCHANGED <<front, charged>>

Next == Change \/ \E c \in Charge : Take(c) \/ Record(c)

Spec == Init /\ [][Next]_vars
=============================================================================
