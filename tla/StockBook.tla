----------------------------- MODULE StockBook -----------------------------
(***************************************************************************)
(* The stock book: what the inventory service promises to every caller.    *)
(* Each variant has a quantity on hand and an audit log of movements       *)
(* (models ProductVariant.stock_quantity and StockMovement).  Whatever the *)
(* callers do, the log only grows, each entry starts where the one before  *)
(* it ended, no entry leaves a negative quantity, the quantity on hand is  *)
(* where the log ends, and a soft-deleted variant is never moved again.    *)
(*                                                                         *)
(* StockControl and Till extend this module and implement BookSpec.        *)
(***************************************************************************)
EXTENDS Integers, Sequences

CONSTANTS
    Variant,        \* product variants of one tenant
    InitialStock,   \* the quantity each variant was created with
    Ref,            \* what a movement may refer to: sales, sessions, ...
    NoRef           \* the NULL reference

ASSUME StockBookAssumption ==
    /\ InitialStock \in [Variant -> Nat]
    /\ NoRef \notin Ref

VARIABLES
    stock,      \* stock_quantity of each variant row
    deleted,    \* variants whose deleted_at is set
    ledger      \* the StockMovement rows of each variant, oldest first

bookVars == <<stock, deleted, ledger>>

----------------------------------------------------------------------------
(* Movements *)

Reason == {"SALE", "VOID_REVERSAL", "SALE_RETURN", "PURCHASE_RECEIPT",
           "MANUAL_ADJUSTMENT", "STOCK_TAKE_ADJUSTMENT"}

(* The loose reference is kept for three reasons only: a void or a return  *)
(* leaves no trace of the sale it belongs to.                              *)
Routed(reason, ref) ==
    IF reason \in {"SALE", "PURCHASE_RECEIPT", "STOCK_TAKE_ADJUSTMENT"}
    THEN ref ELSE NoRef

Movement == [before : Nat, delta : Int, after : Nat,
             reason : Reason, ref : Ref \cup {NoRef}]

(* The movement that adjust_stock records for a row holding q. *)
Entry(q, d, reason, ref) ==
    [before |-> q, delta |-> d, after |-> q + d,
     reason |-> reason, ref |-> Routed(reason, ref)]

(* Where a log that started at quantity q ends. *)
EndOf(log, q) == IF log = <<>> THEN q ELSE log[Len(log)].after

(* A log that started at quantity q is an unbroken chain of legal moves. *)
Chained(log, q) ==
    \A i \in 1..Len(log) :
        /\ log[i].before = IF i = 1 THEN q ELSE log[i - 1].after
        /\ log[i].after = log[i].before + log[i].delta
        /\ log[i].after >= 0

BookTypeOK ==
    /\ stock \in [Variant -> Nat]
    /\ deleted \in SUBSET Variant
    /\ ledger \in [Variant -> Seq(Movement)]

----------------------------------------------------------------------------
(* The abstract specification *)

BookInit ==
    /\ stock = InitialStock
    /\ deleted = {}
    /\ ledger = [v \in Variant |-> <<>>]

(* One committed transaction: some variants get new movements. *)
Post ==
    /\ \A v \in Variant :
        /\ Len(ledger[v]) <= Len(ledger'[v])
        /\ SubSeq(ledger'[v], 1, Len(ledger[v])) = ledger[v]
        /\ Chained(ledger'[v], InitialStock[v])
        /\ stock'[v] = EndOf(ledger'[v], InitialStock[v])
        /\ v \in deleted => ledger'[v] = ledger[v]
    /\ UNCHANGED deleted

(* A soft delete touches nothing but the flag. *)
Retire ==
    /\ deleted \subseteq deleted'
    /\ UNCHANGED <<stock, ledger>>

BookNext == Post \/ Retire

BookSpec == BookInit /\ [][BookNext]_bookVars

(* The invariant of the book: the audit log of every variant is an         *)
(* unbroken chain from the quantity it was created with to the quantity on *)
(* hand, and never passes below zero (adjust_stock's read, check, write    *)
(* and StockMovement insert under one row lock).                           *)
LedgerInv ==
    \A v \in Variant :
        /\ Chained(ledger[v], InitialStock[v])
        /\ stock[v] = EndOf(ledger[v], InitialStock[v])
=============================================================================
