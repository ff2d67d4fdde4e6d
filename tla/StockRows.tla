----------------------------- MODULE StockRows -----------------------------
(***************************************************************************)
(* Stock transactions on PostgreSQL: what adjust_stock does when it runs   *)
(* inside a caller's transaction.atomic().  The row of a variant stays     *)
(* locked, and its new quantity and movements stay invisible to everyone   *)
(* else, until the caller's transaction ends.                              *)
(*                                                                         *)
(* A Worker is a server process with one database connection and at most   *)
(* one open transaction.  Till builds its requests from these operators.   *)
(***************************************************************************)
EXTENDS StockBook

CONSTANTS Worker, Nobody

ASSUME StockRowsAssumption == Nobody \notin Worker

VARIABLES
    holder,     \* who holds the FOR UPDATE lock of each variant row
    writes      \* each worker's uncommitted movements of each variant

rowVars == <<holder, writes>>

RowsInit ==
    /\ BookInit
    /\ holder = [v \in Variant |-> Nobody]
    /\ writes = [w \in Worker |-> [v \in Variant |-> <<>>]]

(* A transaction reads its own writes: the quantity w's transaction sees   *)
(* in a row it may lock.                                                   *)
Seen(w, v) == EndOf(writes[w][v], stock[v])

(* SELECT ... FOR UPDATE returns at once; otherwise the worker waits. *)
CanLock(w, v) == holder[v] \in {w, Nobody}

(* Reads and writes the row without locking it. *)
AdjustStock_NoLock(w, v, d, reason, ref) ==
    /\ v \notin deleted
    /\ Seen(w, v) + d >= 0
    /\ writes' = [writes EXCEPT ![w][v] =
                    Append(@, Entry(Seen(w, v), d, reason, ref))]
    /\ UNCHANGED <<bookVars, holder>>

(* Does not look at the quantity. *)
AdjustStock_NoFloor(w, v, d, reason, ref) ==
    /\ CanLock(w, v)
    /\ v \notin deleted
    /\ holder' = [holder EXCEPT ![v] = w]
    /\ writes' = [writes EXCEPT ![w][v] =
                    Append(@, Entry(Seen(w, v), d, reason, ref))]
    /\ UNCHANGED bookVars

(* Finds soft-deleted rows as well. *)
AdjustStock_Retired(w, v, d, reason, ref) ==
    /\ CanLock(w, v)
    /\ Seen(w, v) + d >= 0
    /\ holder' = [holder EXCEPT ![v] = w]
    /\ writes' = [writes EXCEPT ![w][v] =
                    Append(@, Entry(Seen(w, v), d, reason, ref))]
    /\ UNCHANGED bookVars

(* adjust_stock(v, d, reason, ref) inside w's transaction. *)
AdjustStock(w, v, d, reason, ref) ==
    /\ CanLock(w, v)
    /\ v \notin deleted
    /\ Seen(w, v) + d >= 0
    /\ holder' = [holder EXCEPT ![v] = w]
    /\ writes' = [writes EXCEPT ![w][v] =
                    Append(@, Entry(Seen(w, v), d, reason, ref))]
    /\ UNCHANGED bookVars

(* NotFoundError or InsufficientStockError, once the row is readable. *)
AdjustRefused(w, v, d) ==
    /\ CanLock(w, v)
    /\ v \in deleted \/ Seen(w, v) + d < 0

(* A soft delete is an UPDATE of the row: it waits for the row lock. *)
RetireVariant(v) ==
    /\ v \notin deleted /\ holder[v] = Nobody
    /\ deleted' = deleted \cup {v}
    /\ UNCHANGED <<stock, ledger, rowVars>>

EndTransaction(w) ==
    /\ holder' = [v \in Variant |-> IF holder[v] = w THEN Nobody ELSE holder[v]]
    /\ writes' = [writes EXCEPT ![w] = [v \in Variant |-> <<>>]]

Commit(w) ==
    /\ stock' = [v \in Variant |-> Seen(w, v)]
    /\ ledger' = [v \in Variant |-> ledger[v] \o writes[w][v]]
    /\ UNCHANGED deleted
    /\ EndTransaction(w)

Rollback(w) ==
    /\ EndTransaction(w)
    /\ UNCHANGED bookVars

RowsTypeOK ==
    /\ holder \in [Variant -> Worker \cup {Nobody}]
    /\ writes \in [Worker -> [Variant -> Seq(Movement)]]

(* Isolation: a row with uncommitted movements is locked by their writer   *)
(* and cannot be retired, and the movements continue from the committed    *)
(* quantity without passing zero.  With LedgerInv this is inductive;       *)
(* adjust_stock's select_for_update() is what makes it hold.               *)
Isolation ==
    \A w \in Worker, v \in Variant :
        /\ writes[w][v] # <<>> => holder[v] = w /\ v \notin deleted
        /\ Chained(writes[w][v], stock[v])
=============================================================================
