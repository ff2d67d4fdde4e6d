------------------------------- MODULE Till --------------------------------
(***************************************************************************)
(* The point of sale: shifts, sales, held sales, voids and returns of      *)
(* apps/pos, on PostgreSQL at its default READ COMMITTED isolation.        *)
(*                                                                         *)
(* Workers handle one request at a time.  A request with a transaction     *)
(* takes its locks as it goes, reads what others have committed, and makes *)
(* everything visible in one commit; close_shift and open_shift are        *)
(* sequences of autocommitted statements.  Taking a lock and the reads     *)
(* that follow it are one step: nobody else can touch the locked row.      *)
(* A request that is refused before it wrote anything is no step at all.   *)
(* With one worker the same specification gives the serial executions.     *)
(*                                                                         *)
(* Amounts of money are left out: a closure records which sales it counted.*)
(***************************************************************************)
EXTENDS StockRows, Functions

CONSTANTS
    Sale, Return, Shift,    \* identifiers the requests may use up
    CashierOf,              \* whose shift each shift is
    OpenAtStart,            \* shifts already open initially
    Carts,                  \* sequences of [variant, qty] lines
    ReturnBodies,           \* sequences of [line, qty]: what a return asks for
    AllowNegativeStock      \* the tenant setting

CartLine == [variant : Variant, qty : Nat \ {0}]
ReturnLine == [line : Nat \ {0}, qty : Nat \ {0}]

ASSUME TillAssumption ==
    /\ Sale \subseteq Ref
    /\ OpenAtStart \subseteq Shift
    /\ Carts \subseteq Seq(CartLine)
    /\ ReturnBodies \subseteq Seq(ReturnLine)
    /\ AllowNegativeStock \in BOOLEAN
    /\ NoRef \notin Shift \cup Return

VARIABLES
    shift,      \* "NONE", "OPEN" or "CLOSED"
    closure,    \* the sales a ShiftClosure counted, NoRef where none exists
    shiftLock,  \* who holds the FOR UPDATE lock of each shift row
    sale,       \* status, shift and lines of each sale; paid = completed_at set
    saleLock,   \* who holds the FOR UPDATE lock of each sale row
    returned,   \* the COMPLETED Return rows
    job         \* the request each worker is in the middle of

deskVars == <<shift, closure, sale, returned>>
lockVars == <<shiftLock, saleLock>>
vars == <<bookVars, rowVars, deskVars, lockVars, job>>

NoSale == [status |-> "NONE", shift |-> NoRef, lines |-> <<>>, paid |-> FALSE]
NoReturn == [sale |-> NoRef, lines |-> <<>>, restock |-> FALSE]
Idle == [at |-> "idle", sale |-> NoRef, shift |-> NoRef, return |-> NoRef,
         lines |-> <<>>, back |-> <<>>, restock |-> FALSE, todo |-> <<>>,
         sales |-> {}]

SaleRow == [status : {"NONE", "OPEN", "COMPLETED", "VOIDED"},
            shift : Shift \cup {NoRef}, lines : Seq(CartLine), paid : BOOLEAN]
ReturnRow == [sale : Sale \cup {NoRef}, lines : Seq(ReturnLine),
              restock : BOOLEAN]
Adjustment == [variant : Variant, delta : Int]
Job == [at : {"idle", "sell", "hold", "void", "return", "open", "list",
              "discard", "write"},
        sale : Sale \cup {NoRef}, shift : Shift \cup {NoRef},
        return : Return \cup {NoRef}, lines : Seq(CartLine),
        back : Seq(ReturnLine), restock : BOOLEAN,
        todo : Seq(Adjustment), sales : SUBSET Sale]

Init ==
    /\ RowsInit
    /\ shift = [s \in Shift |-> IF s \in OpenAtStart THEN "OPEN" ELSE "NONE"]
    /\ closure = [s \in Shift |-> NoRef]
    /\ shiftLock = [s \in Shift |-> Nobody]
    /\ sale = [q \in Sale |-> NoSale]
    /\ saleLock = [q \in Sale |-> Nobody]
    /\ returned = [n \in Return |-> NoReturn]
    /\ job = [w \in Worker |-> Idle]

At(w, label) == job[w].at = label
Become(w, request) == job' = [job EXCEPT ![w] = request]

Release(w) ==
    /\ shiftLock' = [s \in Shift |->
                        IF shiftLock[s] = w THEN Nobody ELSE shiftLock[s]]
    /\ saleLock' = [q \in Sale |->
                        IF saleLock[q] = w THEN Nobody ELSE saleLock[q]]

(* The transaction of w fails, or w dies: nothing of it remains. *)
Abort(w) ==
    /\ Become(w, Idle)
    /\ Rollback(w) /\ Release(w)
    /\ UNCHANGED deskVars

(* The adjust_stock calls of a request, in line order. *)
Deductions(lines) ==
    [i \in 1..Len(lines) |->
        [variant |-> lines[i].variant, delta |-> 0 - lines[i].qty]]
Restorations(lines) ==
    [i \in 1..Len(lines) |->
        [variant |-> lines[i].variant, delta |-> lines[i].qty]]
Restocks(lines, back) ==
    [i \in 1..Len(back) |->
        [variant |-> lines[back[i].line].variant, delta |-> back[i].qty]]

(* One adjust_stock call: the first one that w's request still has to make. *)
AdjustNext(w, reason) ==
    /\ job[w].todo # <<>>
    /\ LET line == Head(job[w].todo)
       IN  AdjustStock(w, line.variant, line.delta, reason, job[w].sale)
    /\ job' = [job EXCEPT ![w].todo = Tail(@)]
    /\ UNCHANGED <<deskVars, lockVars>>

(* Keeps the refused call and tries it again. *)
AdjustFails_Retried(w) ==
    /\ job[w].todo # <<>>
    /\ LET line == Head(job[w].todo)
       IN  AdjustRefused(w, line.variant, line.delta)
    /\ UNCHANGED vars

(* The call raises, and the exception rolls the whole request back. *)
AdjustFails(w) ==
    /\ job[w].todo # <<>>
    /\ LET line == Head(job[w].todo)
       IN  AdjustRefused(w, line.variant, line.delta)
    /\ Abort(w)

----------------------------------------------------------------------------
(* create_sale *)

FreshSale(q) ==
    /\ sale[q] = NoSale
    /\ \A x \in Worker : job[x].sale # q

Resolvable(lines) == \A i \in 1..Len(lines) : lines[i].variant \notin deleted

InStock(lines) ==
    AllowNegativeStock
      \/ \A i \in 1..Len(lines) : stock[lines[i].variant] >= lines[i].qty

(* Checks the shift without locking it. *)
SellBegin_NoLock(w, q, s, lines) ==
    /\ At(w, "idle") /\ FreshSale(q)
    /\ shift[s] = "OPEN"
    /\ Resolvable(lines) /\ InStock(lines)
    /\ Become(w, [Idle EXCEPT !.at = "sell", !.sale = q, !.shift = s,
                              !.lines = lines, !.todo = Deductions(lines)])
    /\ UNCHANGED <<bookVars, rowVars, deskVars, lockVars>>

(* Lock the shift, check it, resolve the variants, check their stock.  The  *)
(* variants are read one query after the other; reading them at once loses *)
(* no refusal that matters, since a deletion is final and adjust_stock     *)
(* looks again under the row lock, and AllowNegativeStock = TRUE covers    *)
(* the stock check that saw older quantities.                              *)
SellBegin(w, q, s, lines) ==
    /\ At(w, "idle") /\ FreshSale(q)
    /\ shiftLock[s] = Nobody /\ shift[s] = "OPEN"
    /\ Resolvable(lines) /\ InStock(lines)
    /\ shiftLock' = [shiftLock EXCEPT ![s] = w]
    /\ Become(w, [Idle EXCEPT !.at = "sell", !.sale = q, !.shift = s,
                              !.lines = lines, !.todo = Deductions(lines)])
    /\ UNCHANGED <<bookVars, rowVars, deskVars, saleLock>>

Deduct(w) == At(w, "sell") /\ AdjustNext(w, "SALE")

(* Commits the sale after the first line only. *)
SellCommit_Early(w) ==
    /\ At(w, "sell") /\ Len(job[w].todo) < Len(job[w].lines)
    /\ sale' = [sale EXCEPT ![job[w].sale] =
                  [status |-> "COMPLETED", shift |-> job[w].shift,
                   lines |-> job[w].lines, paid |-> TRUE]]
    /\ Commit(w) /\ Release(w) /\ Become(w, Idle)
    /\ UNCHANGED <<shift, closure, returned>>

SellCommit(w) ==
    /\ At(w, "sell") /\ job[w].todo = <<>>
    /\ sale' = [sale EXCEPT ![job[w].sale] =
                  [status |-> "COMPLETED", shift |-> job[w].shift,
                   lines |-> job[w].lines, paid |-> TRUE]]
    /\ Commit(w) /\ Release(w) /\ Become(w, Idle)
    /\ UNCHANGED <<shift, closure, returned>>

----------------------------------------------------------------------------
(* hold_sale: locks the shift without looking at its status.  The foreign  *)
(* keys of the new lines are checked at commit, which waits for variant    *)
(* rows that someone else has locked.                                      *)

HoldBegin(w, q, s, lines) ==
    /\ At(w, "idle") /\ FreshSale(q)
    /\ shiftLock[s] = Nobody /\ shift[s] # "NONE"
    /\ Resolvable(lines)
    /\ shiftLock' = [shiftLock EXCEPT ![s] = w]
    /\ Become(w, [Idle EXCEPT !.at = "hold", !.sale = q, !.shift = s,
                              !.lines = lines])
    /\ UNCHANGED <<bookVars, rowVars, deskVars, saleLock>>

HoldCommit(w) ==
    /\ At(w, "hold")
    /\ \A i \in 1..Len(job[w].lines) : CanLock(w, job[w].lines[i].variant)
    /\ sale' = [sale EXCEPT ![job[w].sale] =
                  [status |-> "OPEN", shift |-> job[w].shift,
                   lines |-> job[w].lines, paid |-> FALSE]]
    /\ Commit(w) /\ Release(w) /\ Become(w, Idle)
    /\ UNCHANGED <<shift, closure, returned>>

----------------------------------------------------------------------------
(* void_sale: locks the sale; the shift is only read. *)

(* Forgets the lock on the sale row. *)
VoidBegin_NoLock(w, q) ==
    /\ At(w, "idle")
    /\ sale[q].status = "COMPLETED" /\ shift[sale[q].shift] = "OPEN"
    /\ Become(w, [Idle EXCEPT !.at = "void", !.sale = q,
                              !.todo = Restorations(sale[q].lines)])
    /\ UNCHANGED <<bookVars, rowVars, deskVars, lockVars>>

VoidBegin(w, q) ==
    /\ At(w, "idle")
    /\ saleLock[q] = Nobody
    /\ sale[q].status = "COMPLETED" /\ shift[sale[q].shift] = "OPEN"
    /\ saleLock' = [saleLock EXCEPT ![q] = w]
    /\ Become(w, [Idle EXCEPT !.at = "void", !.sale = q,
                              !.todo = Restorations(sale[q].lines)])
    /\ UNCHANGED <<bookVars, rowVars, deskVars, shiftLock>>

Restore(w) == At(w, "void") /\ AdjustNext(w, "VOID_REVERSAL")

VoidCommit(w) ==
    /\ At(w, "void") /\ job[w].todo = <<>>
    /\ sale' = [sale EXCEPT ![job[w].sale].status = "VOIDED"]
    /\ Commit(w) /\ Release(w) /\ Become(w, Idle)
    /\ UNCHANGED <<shift, closure, returned>>

----------------------------------------------------------------------------
(* initiate_return: reads and validates without any row lock.  Each        *)
(* requested line is compared with what was returned before, on its own.   *)
(* The commit checks the foreign keys, and so waits for a sale or a        *)
(* variant row that someone else has locked.                               *)

QtyOf(back, i) ==
    SumFunction([j \in 1..Len(back) |->
                    IF back[j].line = i THEN back[j].qty ELSE 0])

(* What get_remaining_returnable_qty sums, whatever its name says. *)
ReturnedQty(q, i) ==
    SumFunction([n \in {m \in Return : returned[m].sale = q} |->
                    QtyOf(returned[n].lines, i)])

(* Compares with what was sold and forgets what was returned before. *)
Returnable_Forgetful(q, back) ==
    \A j \in 1..Len(back) :
        /\ back[j].line \in 1..Len(sale[q].lines)
        /\ back[j].qty <= sale[q].lines[back[j].line].qty

Returnable(q, back) ==
    \A j \in 1..Len(back) :
        /\ back[j].line \in 1..Len(sale[q].lines)
        /\ back[j].qty <= sale[q].lines[back[j].line].qty
                            - ReturnedQty(q, back[j].line)

ReturnBegin(w, n, q, back, restock) ==
    /\ At(w, "idle")
    /\ returned[n] = NoReturn /\ \A x \in Worker : job[x].return # n
    /\ sale[q].status = "COMPLETED" /\ Returnable(q, back)
    /\ Become(w, [Idle EXCEPT !.at = "return", !.sale = q, !.return = n,
                    !.back = back, !.lines = sale[q].lines, !.restock = restock,
                    !.todo = IF restock THEN Restocks(sale[q].lines, back)
                                        ELSE <<>>])
    /\ UNCHANGED <<bookVars, rowVars, deskVars, lockVars>>

Restock(w) == At(w, "return") /\ AdjustNext(w, "SALE_RETURN")

ReturnedVariants(w) ==
    {job[w].lines[job[w].back[j].line].variant : j \in 1..Len(job[w].back)}

ReturnCommit(w) ==
    /\ At(w, "return") /\ job[w].todo = <<>>
    /\ saleLock[job[w].sale] = Nobody
    /\ \A v \in ReturnedVariants(w) : CanLock(w, v)
    /\ returned' = [returned EXCEPT ![job[w].return] =
                      [sale |-> job[w].sale, lines |-> job[w].back,
                       restock |-> job[w].restock]]
    /\ Commit(w) /\ Release(w) /\ Become(w, Idle)
    /\ UNCHANGED <<shift, closure, sale>>

----------------------------------------------------------------------------
(* open_shift: look for an open shift of the cashier, insert the new one. *)

OpenCheck(w, s) ==
    /\ At(w, "idle")
    /\ shift[s] = "NONE" /\ \A x \in Worker : job[x].shift # s
    /\ \A t \in Shift : CashierOf[t] = CashierOf[s] => shift[t] # "OPEN"
    /\ Become(w, [Idle EXCEPT !.at = "open", !.shift = s])
    /\ UNCHANGED <<bookVars, rowVars, deskVars, lockVars>>

OpenInsert(w) ==
    /\ At(w, "open")
    /\ shift' = [shift EXCEPT ![job[w].shift] = "OPEN"]
    /\ Become(w, Idle)
    /\ UNCHANGED <<bookVars, rowVars, closure, sale, returned, lockVars>>

----------------------------------------------------------------------------
(* close_shift: read the shift, list its held sales, void them one by one, *)
(* sum the completed sales, then insert the closure and close the shift in *)
(* one transaction that waits for whoever has locked the shift.            *)

HeldSales(s) == {q \in Sale : sale[q].shift = s /\ sale[q].status = "OPEN"}
CompletedSales(s) ==
    {q \in Sale : sale[q].shift = s /\ sale[q].status = "COMPLETED"}

CloseBegin(w, s) ==
    /\ At(w, "idle") /\ shift[s] = "OPEN"
    /\ Become(w, [Idle EXCEPT !.at = "list", !.shift = s])
    /\ UNCHANGED <<bookVars, rowVars, deskVars, lockVars>>

CloseList(w) ==
    /\ At(w, "list")
    /\ job' = [job EXCEPT ![w].at = "discard",
                          ![w].sales = HeldSales(job[w].shift)]
    /\ UNCHANGED <<bookVars, rowVars, deskVars, lockVars>>

CloseDiscard(w, q) ==
    /\ At(w, "discard") /\ q \in job[w].sales
    /\ saleLock[q] = Nobody
    /\ sale' = [sale EXCEPT ![q].status = "VOIDED"]
    /\ job' = [job EXCEPT ![w].sales = @ \ {q}]
    /\ UNCHANGED <<bookVars, rowVars, shift, closure, returned, lockVars>>

(* Counts the held sales of the shift as well. *)
CloseTotals_AllSales(w) ==
    /\ At(w, "discard") /\ job[w].sales = {}
    /\ job' = [job EXCEPT ![w].at = "write",
                          ![w].sales = {q \in Sale : sale[q].shift = job[w].shift}]
    /\ UNCHANGED <<bookVars, rowVars, deskVars, lockVars>>

CloseTotals(w) ==
    /\ At(w, "discard") /\ job[w].sales = {}
    /\ job' = [job EXCEPT ![w].at = "write",
                          ![w].sales = CompletedSales(job[w].shift)]
    /\ UNCHANGED <<bookVars, rowVars, deskVars, lockVars>>

(* The one-to-one key of ShiftClosure does not stop a second closure. *)
CloseWrite_Twice(w) ==
    /\ At(w, "write") /\ shiftLock[job[w].shift] = Nobody
    /\ closure' = [closure EXCEPT ![job[w].shift] = job[w].sales]
    /\ shift' = [shift EXCEPT ![job[w].shift] = "CLOSED"]
    /\ Become(w, Idle)
    /\ UNCHANGED <<bookVars, rowVars, sale, returned, lockVars>>

CloseWrite(w) ==
    /\ At(w, "write") /\ shiftLock[job[w].shift] = Nobody
    /\ closure[job[w].shift] = NoRef
    /\ closure' = [closure EXCEPT ![job[w].shift] = job[w].sales]
    /\ shift' = [shift EXCEPT ![job[w].shift] = "CLOSED"]
    /\ Become(w, Idle)
    /\ UNCHANGED <<bookVars, rowVars, sale, returned, lockVars>>

(* The one-to-one key of ShiftClosure refuses a second closure. *)
CloseFails(w) ==
    /\ At(w, "write") /\ closure[job[w].shift] # NoRef
    /\ Become(w, Idle)
    /\ UNCHANGED <<bookVars, rowVars, deskVars, lockVars>>

----------------------------------------------------------------------------
(* The environment: the catalogue retires a variant, a worker dies, and    *)
(* PostgreSQL aborts one transaction of a cycle of waiting ones.           *)

DeleteVariant(w, v) ==
    /\ At(w, "idle") /\ RetireVariant(v)
    /\ UNCHANGED <<deskVars, lockVars, job>>

Crash(w) == ~At(w, "idle") /\ Abort(w)

(* Whom w waits for.  Requests without a transaction hold no lock. *)
WaitsFor(w) ==
    LET next == job[w].todo
        wanted ==
          CASE next # <<>> -> {holder[Head(next).variant]}
            [] At(w, "return") /\ next = <<>> ->
                 {saleLock[job[w].sale]} \cup {holder[v] : v \in ReturnedVariants(w)}
            [] At(w, "hold") ->
                 {holder[job[w].lines[i].variant] : i \in 1..Len(job[w].lines)}
            [] OTHER -> {}
    IN  wanted \ {w, Nobody}

(* w belongs to a smallest set of workers that all wait for one another. *)
WaitingSet(C) == \A x \in C : WaitsFor(x) \cap C # {}
InDeadlock(w) ==
    \E C \in SUBSET Worker :
        /\ w \in C /\ WaitingSet(C)
        /\ \A D \in SUBSET C : D # {} /\ D # C => ~WaitingSet(D)

DeadlockAbort(w) == InDeadlock(w) /\ Abort(w)

----------------------------------------------------------------------------
Request(w) ==
    \/ \E q \in Sale, s \in Shift, lines \in Carts :
            SellBegin(w, q, s, lines) \/ HoldBegin(w, q, s, lines)
    \/ \E q \in Sale : VoidBegin(w, q)
    \/ \E n \in Return, q \in Sale, back \in ReturnBodies, restock \in BOOLEAN :
            ReturnBegin(w, n, q, back, restock)
    \/ \E s \in Shift : OpenCheck(w, s) \/ CloseBegin(w, s)
    \/ \E v \in Variant : DeleteVariant(w, v)

Step(w) ==
    \/ Deduct(w) \/ SellCommit(w) \/ HoldCommit(w)
    \/ Restore(w) \/ VoidCommit(w)
    \/ Restock(w) \/ ReturnCommit(w)
    \/ AdjustFails(w)
    \/ OpenInsert(w)
    \/ CloseList(w) \/ (\E q \in Sale : CloseDiscard(w, q))
    \/ CloseTotals(w) \/ CloseWrite(w) \/ CloseFails(w)

Next == \E w \in Worker : Request(w) \/ Step(w) \/ DeadlockAbort(w) \/ Crash(w)

Spec == Init /\ [][Next]_vars

(* PostgreSQL grants a row lock to its waiters in order of arrival, hence  *)
(* strong fairness of a request's steps, and looks for deadlocks after     *)
(* deadlock_timeout.                                                       *)
Fairness == \A w \in Worker : SF_vars(Step(w)) /\ WF_vars(DeadlockAbort(w))

FairSpec == Spec /\ Fairness

----------------------------------------------------------------------------
(* Properties that hold however the requests interleave *)

DeskTypeOK ==
    /\ shift \in [Shift -> {"NONE", "OPEN", "CLOSED"}]
    /\ closure \in [Shift -> (SUBSET Sale) \cup {NoRef}]
    /\ shiftLock \in [Shift -> Worker \cup {Nobody}]
    /\ sale \in [Sale -> SaleRow]
    /\ saleLock \in [Sale -> Worker \cup {Nobody}]
    /\ returned \in [Return -> ReturnRow]

(* Every variable has its type; no quantity on hand is ever negative.      *)
TypeOK ==
    BookTypeOK /\ RowsTypeOK /\ DeskTypeOK /\ job \in [Worker -> Job]

Units(lines, v) ==
    SumFunction([i \in 1..Len(lines) |->
                    IF lines[i].variant = v THEN lines[i].qty ELSE 0])

(* The sales that stand, and the returns that went back on the shelf. *)
Standing == {q \in Sale : sale[q].status = "COMPLETED"}
Restocked == {n \in Return : returned[n].restock}

(* Units of v that return n put back. *)
PutBack(n, v) ==
    LET lines == sale[returned[n].sale].lines
        back == returned[n].lines
    IN  SumFunction([j \in 1..Len(back) |->
                        IF lines[back[j].line].variant = v
                        THEN back[j].qty ELSE 0])

(* The books reconcile at every moment: what is on hand is what there was, *)
(* less the units of the sales that stand, plus the restocked returns      *)
(* (create_sale, void_sale and initiate_return each change documents and   *)
(* stock in one transaction, against lost updates, double voids, partial   *)
(* commits and deadlock aborts).                                           *)
BooksReconcile ==
    \A v \in Variant :
        stock[v] = InitialStock[v]
            - SumFunction([q \in Standing |-> Units(sale[q].lines, v)])
            + SumFunction([n \in Restocked |-> PutBack(n, v)])

(* What the movements of a log that refer to q add up to. *)
PostedFor(q, log) ==
    SumFunction([i \in 1..Len(log) |->
                    IF log[i].ref = q THEN log[i].delta ELSE 0])

(* A sale is in the movement log exactly when it was completed, with all   *)
(* its lines and once, whether or not it was voided later.                 *)
SaleIsPosted ==
    \A q \in Sale, v \in Variant :
        PostedFor(q, ledger[v])
          = IF sale[q].paid THEN 0 - Units(sale[q].lines, v) ELSE 0

(* A sale is only ever completed on a shift that is open at that moment    *)
(* (create_sale locks and checks the shift; close_shift takes no lock but  *)
(* its final UPDATE waits for the sale).                                   *)
SaleOnOpenShift ==
    [][\A q \in Sale :
          sale[q].status # "COMPLETED" /\ sale'[q].status = "COMPLETED"
            => shift[sale'[q].shift] = "OPEN"]_vars

(* A closure is immutable and a closed shift stays closed, also when two   *)
(* requests close the same shift (ShiftClosure's one-to-one key).          *)
ClosureIsFinal ==
    [][\A s \in Shift : closure[s] # NoRef =>
          closure'[s] = closure[s] /\ shift[s] = "CLOSED"
                                   /\ shift'[s] = "CLOSED"]_vars

(* Every request ends: no lock is waited for forever, although carts lock  *)
(* their variants in cart order and returns and voids wait for each other. *)
RequestsEnd == \A w \in Worker : ~At(w, "idle") ~> At(w, "idle")

----------------------------------------------------------------------------
(* Properties of serial executions *)

(* The closure of a shift counts exactly its completed sales, and stays    *)
(* true afterwards (the aggregate of close_shift; no void and no sale on a *)
(* closed shift).                                                          *)
ClosureIsExact ==
    \A s \in Shift : shift[s] = "CLOSED" => closure[s] = CompletedSales(s)

(* No more units of a line come back than were sold                        *)
(* (validate_return_eligibility).                                          *)
NeverOverReturned ==
    \A q \in Sale : \A i \in 1..Len(sale[q].lines) :
        ReturnedQty(q, i) <= sale[q].lines[i].qty
=============================================================================
