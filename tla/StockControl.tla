---------------------------- MODULE StockControl ----------------------------
(***************************************************************************)
(* Stock control: manual and bulk adjustments, soft deletion and the       *)
(* stock-take workflow of apps/catalog, as the views run them.             *)
(*                                                                         *)
(* Each Worker is a server process that handles one request at a time.     *)
(* Django runs these views in autocommit mode, so a request is a sequence  *)
(* of separately committed statements, and other workers run between any   *)
(* two of them; the steps of a request are the actions below.  The one     *)
(* transaction of several statements, an approval, is several steps too:   *)
(* what it writes is a draft that no one else sees before it commits.      *)
(* With a single worker the same specification gives the serial executions.*)
(*                                                                         *)
(* The shipped database is SQLite: it ignores select_for_update(), and     *)
(* while a transaction is open no other connection commits a write         *)
(* (Writable): it waits, or gives up with an error (Crash).  Reads see     *)
(* what is committed.                                                      *)
(***************************************************************************)
EXTENDS StockBook, FiniteSets

CONSTANTS
    Worker, Session,
    Null,           \* SQL NULL in a counted or system quantity
    Scopes,         \* the sets of variants a stock take may cover
    Deltas,         \* quantity deltas of manual adjustments
    Batches,        \* bodies of bulk adjustments: sequences of lines
    MaxCount,       \* bound: largest quantity counted on a shelf
    MaxMovements    \* bound: manual adjustments stop at this log length

Adjustment == [variant : Variant, delta : Int]

ASSUME StockControlAssumption ==
    /\ Session \subseteq Ref
    /\ Null \notin Int
    /\ Scopes \subseteq SUBSET Variant
    /\ Deltas \subseteq Int \ {0}
    /\ Batches \subseteq Seq(Adjustment)
    /\ MaxCount \in Nat /\ MaxMovements \in Nat

VARIABLES
    status,     \* status of each StockTakeSession, "NONE" before creation
    system,     \* system_quantity of each item, Null where there is no item
    counted,    \* counted_quantity of each item, Null while uncounted
    pc,         \* the statement each worker executes next
    on,         \* the session a worker's request is about
    rows,       \* item values a worker has read and will write
    todo,       \* the bulk adjustments a worker still has to apply
    draft       \* the uncommitted movements of a worker's transaction

takeVars == <<status, system, counted>>
workerVars == <<pc, on, rows, todo, draft>>
vars == <<bookVars, takeVars, workerVars>>

Quantity == Nat \cup {Null}
Status == {"NONE", "IN_PROGRESS", "PENDING_APPROVAL", "APPROVED", "REJECTED"}
Label == {"idle", "edit", "bulk", "create", "snapshot", "populate", "count", "list",
          "fill", "submit", "apply", "post", "reject"}
(* The statements of a request about a session. *)
SessionLabel == {"snapshot", "populate", "count", "list", "fill", "submit",
                 "apply", "post", "reject"}
NoRows == [v \in {} |-> Null]

Items(s) == {v \in Variant : system[s][v] # Null}
Uncounted(s) == {v \in Items(s) : counted[s][v] = Null}

(* discrepancy is written only together with counted_quantity and is always *)
(* the difference, so it is derived here; NULL and zero are filtered out.   *)
Discrepancies(s) ==
    {v \in Items(s) \ Uncounted(s) : counted[s][v] # system[s][v]}
Discrepancy(s) ==
    [v \in Discrepancies(s) |-> counted[s][v] - system[s][v]]

(* The rows of f overwrite those of a table. *)
Overwrite(f, table) ==
    [v \in Variant |-> IF v \in DOMAIN f THEN f[v] ELSE table[v]]

Init ==
    /\ BookInit
    /\ status = [s \in Session |-> "NONE"]
    /\ system = [s \in Session |-> [v \in Variant |-> Null]]
    /\ counted = [s \in Session |-> [v \in Variant |-> Null]]
    /\ pc = [w \in Worker |-> "idle"]
    /\ on = [w \in Worker |-> NoRef]
    /\ rows = [w \in Worker |-> NoRows]
    /\ todo = [w \in Worker |-> <<>>]
    /\ draft = [w \in Worker |-> NoRows]

(* No transaction is open, so that a statement that writes can commit. *)
Writable == \A w \in Worker : pc[w] # "post"

(* Worker w goes on to another statement of its request about session s. *)
Goto(w, label, s, values) ==
    /\ pc' = [pc EXCEPT ![w] = label]
    /\ on' = [on EXCEPT ![w] = s]
    /\ rows' = [rows EXCEPT ![w] = values]
    /\ UNCHANGED <<todo, draft>>

Respond(w) ==
    /\ pc' = [pc EXCEPT ![w] = "idle"]
    /\ on' = [on EXCEPT ![w] = NoRef]
    /\ rows' = [rows EXCEPT ![w] = NoRows]
    /\ todo' = [todo EXCEPT ![w] = <<>>]
    /\ draft' = [draft EXCEPT ![w] = NoRows]

----------------------------------------------------------------------------
(* adjust_stock: the row is locked, read, checked and written, and its     *)
(* movement inserted.                                                      *)

(* Does not look at the quantity at all. *)
CanAdjust_NoFloor(v, d) == v \notin deleted

CanAdjust(v, d) == v \notin deleted /\ stock[v] + d >= 0

(* Commits the quantities and no movement. *)
Commit_Silent(moves) ==
    /\ stock' = [v \in Variant |->
                    IF v \in DOMAIN moves THEN moves[v].after ELSE stock[v]]
    /\ UNCHANGED <<deleted, ledger>>

(* The new quantity and the movement of some variants are committed. *)
Commit(moves) ==
    /\ stock' = [v \in Variant |->
                    IF v \in DOMAIN moves THEN moves[v].after ELSE stock[v]]
    /\ ledger' = [v \in Variant |->
                    IF v \in DOMAIN moves THEN Append(ledger[v], moves[v])
                    ELSE ledger[v]]
    /\ UNCHANGED deleted

(* adjust_stock with a transaction of its own, for a manual correction. *)
AdjustStock(v, d) ==
    /\ Writable /\ CanAdjust(v, d)
    /\ Commit([x \in {v} |-> Entry(stock[v], d, "MANUAL_ADJUSTMENT", NoRef)])

(* POST stock/adjust/: refused with 404 or 422, or one committed movement. *)
Adjust(w, v, d) ==
    /\ pc[w] = "idle" /\ Len(ledger[v]) < MaxMovements
    /\ AdjustStock(v, d)
    /\ UNCHANGED <<takeVars, workerVars>>

(* DELETE variants/<id>/: only the flag is written. *)
DeleteVariant(w, v) ==
    /\ pc[w] = "idle" /\ Writable /\ v \notin deleted
    /\ deleted' = deleted \cup {v}
    /\ UNCHANGED <<stock, ledger, takeVars, workerVars>>

(* PATCH variants/<id>/: read the whole row, then save the edited fields;   *)
(* update_fields keeps the stale quantity of the row out of the write.     *)
ReadVariant(w, v) ==
    /\ pc[w] = "idle" /\ v \notin deleted
    /\ Goto(w, "edit", NoRef, [x \in {v} |-> stock[v]])
    /\ UNCHANGED <<bookVars, takeVars>>

(* Saves the whole row, as save() does without update_fields. *)
SaveVariant_FullRow(w) ==
    /\ pc[w] = "edit" /\ Writable
    /\ stock' = Overwrite(rows[w], stock)
    /\ Respond(w)
    /\ UNCHANGED <<deleted, ledger, takeVars>>

SaveVariant(w) ==
    /\ pc[w] = "edit" /\ Writable
    /\ Respond(w)
    /\ UNCHANGED <<bookVars, takeVars>>

(* POST stock/bulk-adjust/: the view loops over adjust_stock with no       *)
(* transaction around the loop, so every line commits on its own.          *)
BulkStart(w, batch) ==
    /\ pc[w] = "idle"
    /\ \A v \in Variant : Len(ledger[v]) + Len(batch) <= MaxMovements
    /\ pc' = [pc EXCEPT ![w] = "bulk"]
    /\ todo' = [todo EXCEPT ![w] = batch]
    /\ UNCHANGED <<bookVars, takeVars, on, rows, draft>>

BulkLine(w) ==
    /\ pc[w] = "bulk" /\ todo[w] # <<>>
    /\ AdjustStock(Head(todo[w]).variant, Head(todo[w]).delta)
    /\ todo' = [todo EXCEPT ![w] = Tail(@)]
    /\ UNCHANGED <<takeVars, pc, on, rows, draft>>

(* All lines are applied, or one is refused and the rest is given up. *)
BulkEnd(w) ==
    /\ pc[w] = "bulk"
    /\ todo[w] # <<>> => ~CanAdjust(Head(todo[w]).variant, Head(todo[w]).delta)
    /\ Respond(w)
    /\ UNCHANGED <<bookVars, takeVars>>

----------------------------------------------------------------------------
(* POST stock-takes/: look for a session in progress, insert the session,  *)
(* read the variants of the scope, insert the items: four statements.      *)

StartTake(w) ==
    /\ pc[w] = "idle"
    /\ \A s \in Session : status[s] # "IN_PROGRESS"
    /\ Goto(w, "create", NoRef, NoRows)
    /\ UNCHANGED <<bookVars, takeVars>>

CreateSession(w, s) ==
    /\ pc[w] = "create" /\ Writable /\ status[s] = "NONE"
    /\ status' = [status EXCEPT ![s] = "IN_PROGRESS"]
    /\ Goto(w, "snapshot", s, NoRows)
    /\ UNCHANGED <<bookVars, system, counted>>

SnapshotVariants(w, scope) ==
    /\ pc[w] = "snapshot"
    /\ Goto(w, "populate", on[w], [v \in scope \ deleted |-> stock[v]])
    /\ UNCHANGED <<bookVars, takeVars>>

PopulateItems(w) ==
    /\ pc[w] = "populate" /\ Writable
    /\ system' = [system EXCEPT ![on[w]] = Overwrite(rows[w], @)]
    /\ Respond(w)
    /\ UNCHANGED <<bookVars, status, counted>>

(* PATCH stock-takes/<id>/items/<id>/: read the item and its session, then *)
(* save the count (q = Null takes a count back).                           *)
ReadItem(w, s, v, q) ==
    /\ pc[w] = "idle"
    /\ v \in Items(s) /\ status[s] = "IN_PROGRESS"
    /\ Goto(w, "count", s, [x \in {v} |-> q])
    /\ UNCHANGED <<bookVars, takeVars>>

SaveCount(w) ==
    /\ pc[w] = "count" /\ Writable
    /\ counted' = [counted EXCEPT ![on[w]] = Overwrite(rows[w], @)]
    /\ Respond(w)
    /\ UNCHANGED <<bookVars, status, system>>

----------------------------------------------------------------------------
(* POST stock-takes/<id>/complete/: check the status, list the uncounted   *)
(* items, fill them from their system quantity, refuse an empty session,   *)
(* save PENDING_APPROVAL without looking at the status again.              *)

(* Completes a session in any state. *)
Complete_AnyStatus(w, s) ==
    /\ pc[w] = "idle" /\ status[s] # "NONE"
    /\ Goto(w, "list", s, NoRows)
    /\ UNCHANGED <<bookVars, takeVars>>

Complete(w, s) ==
    /\ pc[w] = "idle" /\ status[s] = "IN_PROGRESS"
    /\ Goto(w, "list", s, NoRows)
    /\ UNCHANGED <<bookVars, takeVars>>

(* Lists nothing, so that nothing is filled. *)
ListUncounted_None(w) ==
    /\ pc[w] = "list"
    /\ Goto(w, "fill", on[w], NoRows)
    /\ UNCHANGED <<bookVars, takeVars>>

ListUncounted(w) ==
    /\ pc[w] = "list"
    /\ Goto(w, "fill", on[w], [v \in Uncounted(on[w]) |-> system[on[w]][v]])
    /\ UNCHANGED <<bookVars, takeVars>>

(* bulk_update writes the listed rows, whatever they hold by now. *)
FillUncounted(w) ==
    /\ pc[w] = "fill" /\ Writable
    /\ counted' = [counted EXCEPT ![on[w]] = Overwrite(rows[w], @)]
    /\ Goto(w, "submit", on[w], NoRows)
    /\ UNCHANGED <<bookVars, status, system>>

Submit(w) ==
    /\ pc[w] = "submit" /\ Writable
    /\ status' = IF Items(on[w]) = {} THEN status
                 ELSE [status EXCEPT ![on[w]] = "PENDING_APPROVAL"]
    /\ Respond(w)
    /\ UNCHANGED <<bookVars, system, counted>>

----------------------------------------------------------------------------
(* POST stock-takes/<id>/approve/: read the status; then open a            *)
(* transaction, read the discrepancies, adjust one after the other and     *)
(* save APPROVED.  A refused adjustment rolls all of it back.              *)

ReadForApproval(w, s) ==
    /\ pc[w] = "idle" /\ status[s] = "PENDING_APPROVAL"
    /\ Goto(w, "apply", s, NoRows)
    /\ UNCHANGED <<bookVars, takeVars>>

(* The status is not read again. *)
BeginApproval(w) ==
    /\ pc[w] = "apply" /\ Writable
    /\ Goto(w, "post", on[w], Discrepancy(on[w]))
    /\ UNCHANGED <<bookVars, takeVars>>

CanCorrect(w, v) == CanAdjust(v, rows[w][v])
Correction(w, v) == Entry(stock[v], rows[w][v], "STOCK_TAKE_ADJUSTMENT", on[w])
Remaining(w, v) == [x \in DOMAIN rows[w] \ {v} |-> rows[w][x]]

(* Without a transaction around the loop, as in stock/bulk-adjust/. *)
PostCorrection_Committed(w, v) ==
    /\ pc[w] = "post" /\ v \in DOMAIN rows[w] /\ CanCorrect(w, v)
    /\ Commit([x \in {v} |-> Correction(w, v)])
    /\ rows' = [rows EXCEPT ![w] = Remaining(w, v)]
    /\ UNCHANGED <<takeVars, pc, on, todo, draft>>

(* The loop takes the items in the order the query returned them. *)
PostCorrection(w, v) ==
    /\ pc[w] = "post" /\ v \in DOMAIN rows[w] /\ CanCorrect(w, v)
    /\ draft' = [draft EXCEPT ![w] =
                    [x \in DOMAIN @ \cup {v} |->
                        IF x = v THEN Correction(w, v) ELSE @[x]]]
    /\ rows' = [rows EXCEPT ![w] = Remaining(w, v)]
    /\ UNCHANGED <<bookVars, takeVars, pc, on, todo>>

(* NotFoundError or InsufficientStockError: nothing is committed. *)
ApprovalRefused(w) ==
    /\ pc[w] = "post"
    /\ \E v \in DOMAIN rows[w] : ~CanCorrect(w, v)
    /\ Respond(w)
    /\ UNCHANGED <<bookVars, takeVars>>

(* Commits the corrections and forgets to save the session. *)
CommitApproval_NotSaved(w) ==
    /\ pc[w] = "post" /\ DOMAIN rows[w] = {}
    /\ Commit(draft[w])
    /\ Respond(w)
    /\ UNCHANGED takeVars

CommitApproval(w) ==
    /\ pc[w] = "post" /\ DOMAIN rows[w] = {}
    /\ Commit(draft[w])
    /\ status' = [status EXCEPT ![on[w]] = "APPROVED"]
    /\ Respond(w)
    /\ UNCHANGED <<system, counted>>

(* POST stock-takes/<id>/reject/: read the status, then save REJECTED. *)
ReadForRejection(w, s) ==
    /\ pc[w] = "idle" /\ status[s] = "PENDING_APPROVAL"
    /\ Goto(w, "reject", s, NoRows)
    /\ UNCHANGED <<bookVars, takeVars>>

Reject(w) ==
    /\ pc[w] = "reject" /\ Writable
    /\ status' = [status EXCEPT ![on[w]] = "REJECTED"]
    /\ Respond(w)
    /\ UNCHANGED <<bookVars, system, counted>>

(* A worker dies, or gives up waiting for the database, between two        *)
(* statements of its request: its open transaction is rolled back.         *)
Crash(w) ==
    /\ pc[w] # "idle"
    /\ Respond(w)
    /\ UNCHANGED <<bookVars, takeVars>>

----------------------------------------------------------------------------
Request(w) ==
    \/ \E v \in Variant, d \in Deltas : Adjust(w, v, d)
    \/ \E v \in Variant : DeleteVariant(w, v) \/ ReadVariant(w, v)
    \/ \E batch \in Batches : BulkStart(w, batch)
    \/ StartTake(w)
    \/ \E s \in Session, v \in Variant, q \in 0..MaxCount \cup {Null} :
            ReadItem(w, s, v, q)
    \/ \E s \in Session :
            Complete(w, s) \/ ReadForApproval(w, s) \/ ReadForRejection(w, s)

Step(w) ==
    \/ SaveVariant(w) \/ BulkLine(w) \/ BulkEnd(w)
    \/ \E s \in Session : CreateSession(w, s)
    \/ \E scope \in Scopes : SnapshotVariants(w, scope)
    \/ PopulateItems(w) \/ SaveCount(w)
    \/ ListUncounted(w) \/ FillUncounted(w) \/ Submit(w)
    \/ BeginApproval(w) \/ (\E v \in Variant : PostCorrection(w, v))
    \/ ApprovalRefused(w) \/ CommitApproval(w) \/ Reject(w)

Next == \E w \in Worker : Request(w) \/ Step(w) \/ Crash(w)

Spec == Init /\ [][Next]_vars

----------------------------------------------------------------------------
(* Properties that hold however the requests interleave *)

TakeTypeOK ==
    /\ status \in [Session -> Status]
    /\ system \in [Session -> [Variant -> Quantity]]
    /\ counted \in [Session -> [Variant -> Quantity]]

WorkerTypeOK ==
    /\ pc \in [Worker -> Label]
    /\ on \in [Worker -> Session \cup {NoRef}]
    /\ DOMAIN rows = Worker /\ DOMAIN draft = Worker
    /\ \A w \in Worker :
        /\ DOMAIN rows[w] \subseteq Variant
        /\ rows[w] \in [DOMAIN rows[w] ->
                            IF pc[w] = "post" THEN Int ELSE Quantity]
        /\ DOMAIN draft[w] \subseteq Variant
        /\ draft[w] \in [DOMAIN draft[w] -> Movement]
        /\ pc[w] \in SessionLabel => on[w] \in Session
    /\ todo \in [Worker -> Seq(Adjustment)]

(* Every variable has its type; in particular a quantity on hand is never  *)
(* negative (adjust_stock's refusal), and a request about a session knows  *)
(* which one.                                                              *)
TypeOK == BookTypeOK /\ TakeTypeOK /\ WorkerTypeOK

Posted(s, v) ==
    {i \in 1..Len(ledger[v]) : ledger[v][i].ref = s}

PostsForSession(s) == \E v \in Variant : Posted(s, v)' # Posted(s, v)
AppliesSession(s) ==
    /\ status'[s] = "APPROVED"
    /\ \A v \in Variant :
          stock'[v] - stock[v] =
             IF v \in Discrepancies(s) THEN Discrepancy(s)[v] ELSE 0

(* A stock-take correction is all or nothing: when a movement for a        *)
(* session becomes visible, the session becomes APPROVED with it, and the  *)
(* stock changes by exactly the discrepancy of every item that has one, as *)
(* the items read at that moment.  What an approval had posted before a    *)
(* correction was refused, or before a crash, is never seen                *)
(* (StockTakeApproveView's transaction, beside adjustments, deletions and  *)
(* late counts).                                                           *)
ApprovalIsAtomic ==
    [][\A s \in Session : PostsForSession(s) => AppliesSession(s)]_vars

----------------------------------------------------------------------------
(* Properties of serial executions *)

(* A session only moves along the lifecycle of the stock-take API:         *)
(* IN_PROGRESS to PENDING_APPROVAL to APPROVED or REJECTED, and a decided  *)
(* session never changes again.                                            *)
SessionLifecycle ==
    [][\A s \in Session : status'[s] # status[s] =>
          <<status[s], status'[s]>> \in
             {<<"NONE", "IN_PROGRESS">>, <<"IN_PROGRESS", "PENDING_APPROVAL">>,
              <<"PENDING_APPROVAL", "APPROVED">>,
              <<"PENDING_APPROVAL", "REJECTED">>}]_vars

(* The corrections in the log are those of the approved sessions, each     *)
(* posted once and for the discrepancy the session still shows.            *)
PostedExactlyOnce ==
    \A s \in Session, v \in Variant :
        LET due == status[s] = "APPROVED" /\ v \in Discrepancies(s)
        IN  /\ Cardinality(Posted(s, v)) = IF due THEN 1 ELSE 0
            /\ due => \A i \in Posted(s, v) :
                         ledger[v][i].delta = Discrepancy(s)[v]

(* A session that left IN_PROGRESS has a count for every item, and still   *)
(* has items (StockTakeCompleteView fills the uncounted ones).             *)
CompletedIsFullyCounted ==
    \A s \in Session : status[s] \notin {"NONE", "IN_PROGRESS"} =>
        Items(s) # {} /\ Uncounted(s) = {}

----------------------------------------------------------------------------
(* Claims of the repository's own documents that the code does not keep *)

(* Two approvers cannot both apply one session (Task_02_03_09, line 127):  *)
(* no variant is corrected twice for the same stock take.                  *)
PostedAtMostOnce ==
    \A s \in Session, v \in Variant : Cardinality(Posted(s, v)) <= 1
=============================================================================
