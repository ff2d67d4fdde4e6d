----------------------------- MODULE TillProofs -----------------------------
(***************************************************************************)
(* The till is safe for every number of workers, variants, sales, shifts   *)
(* and carts.  Its inductive invariant adds to the isolation of the stock  *)
(* rows what the requests in progress rely on (JobOK): a sale holds the    *)
(* lock of a shift that is open, the shift of an open_shift request is     *)
(* nobody else's, and a shift being closed has been opened.                *)
(***************************************************************************)
EXTENDS Till, StockBookProofs

----------------------------------------------------------------------------
(***************************************************************************)
(* The row lock makes stock transactions safe: each operator of StockRows  *)
(* preserves the audit chain of the committed rows and the isolation of    *)
(* the uncommitted ones.  Every client of StockRows inherits its invariant *)
(* from these lemmas.                                                      *)
(***************************************************************************)
RowsInv == BookTypeOK /\ RowsTypeOK /\ LedgerInv /\ Isolation

LEMMA RowsInitInv == RowsInit => RowsInv
<1> SUFFICES ASSUME RowsInit PROVE RowsInv
  OBVIOUS
<1>1. BookTypeOK /\ RowsTypeOK
  BY StockBookAssumption DEF RowsInit, BookInit, BookTypeOK, RowsTypeOK
<1>2. LedgerInv /\ Isolation
  BY ChainEmpty DEF RowsInit, BookInit, LedgerInv, Isolation
<1> QED
  BY <1>1, <1>2 DEF RowsInv

(* What a transaction sees of a row is a quantity. *)
LEMMA SeenType ==
    ASSUME RowsInv, NEW w \in Worker, NEW v \in Variant
    PROVE  Seen(w, v) \in Nat
<1>1. writes[w][v] \in Seq(Movement) /\ stock[v] \in Nat
  BY DEF RowsInv, BookTypeOK, RowsTypeOK
<1> QED
  BY <1>1, EndOfType DEF Seen

(* adjust_stock under the row lock touches nothing that is committed and   *)
(* continues the writer's own chain.                                       *)
LEMMA AdjustKeepsRows ==
    ASSUME RowsInv, NEW w \in Worker, NEW v \in Variant, NEW d \in Int,
           NEW reason \in Reason, NEW ref \in Ref \cup {NoRef},
           AdjustStock(w, v, d, reason, ref)
    PROVE  RowsInv' /\ UNCHANGED bookVars
<1> DEFINE q == Seen(w, v)
           m == Entry(q, d, reason, ref)
<1>1. /\ stock \in [Variant -> Nat]
      /\ holder \in [Variant -> Worker \cup {Nobody}]
      /\ writes \in [Worker -> [Variant -> Seq(Movement)]]
      /\ UNCHANGED bookVars
  BY DEF RowsInv, BookTypeOK, RowsTypeOK, AdjustStock
<1>2. q \in Nat /\ q + d >= 0
  BY SeenType DEF AdjustStock
<1>3. m \in Movement
  BY <1>2, EntryType
<1>4. m.before = q /\ m.after = m.before + m.delta
  BY <1>2, EntryFields
<1>5. /\ holder' = [holder EXCEPT ![v] = w]
      /\ writes' = [writes EXCEPT ![w][v] = Append(@, m)]
  BY DEF AdjustStock
<1> HIDE DEF m
<1>6. RowsTypeOK'
  BY <1>1, <1>3, <1>5 DEF RowsTypeOK
<1>7. ASSUME NEW x \in Worker, NEW y \in Variant
      PROVE  /\ writes'[x][y] # <<>> => holder'[y] = x /\ y \notin deleted'
             /\ Chained(writes'[x][y], stock'[y])
  <2>1. /\ writes[x][y] # <<>> => holder[y] = x /\ y \notin deleted
        /\ Chained(writes[x][y], stock[y])
        /\ stock'[y] = stock[y] /\ deleted' = deleted
    BY <1>1 DEF RowsInv, Isolation, bookVars
  <2>2. CASE x = w /\ y = v
    <3>1. writes'[x][y] = Append(writes[w][v], m) /\ holder'[y] = x
      BY <1>1, <1>5, <2>2
    <3>2. v \notin deleted
      BY DEF AdjustStock
    <3>3. Chained(Append(writes[w][v], m), stock[v])
      <4>1. writes[w][v] \in Seq(Movement) /\ stock[v] \in Nat
        BY <1>1
      <4> QED
        BY <1>3, <1>4, <2>1, <2>2, <4>1, ChainAppend DEF Seen
    <3> QED
      BY <2>1, <2>2, <3>1, <3>2, <3>3
  <2>3. CASE y # v
    <3>1. writes'[x][y] = writes[x][y] /\ holder'[y] = holder[y]
      BY <1>1, <1>5, <2>3
    <3> QED
      BY <2>1, <3>1
  <2>4. CASE x # w /\ y = v
    <3>1. writes'[x][y] = writes[x][y]
      BY <1>1, <1>5, <2>4
    <3>2. writes[x][y] = <<>>
      BY <2>1, <2>4, StockRowsAssumption DEF AdjustStock, CanLock
    <3> QED
      BY <2>1, <3>1, <3>2
  <2> QED
    BY <2>2, <2>3, <2>4
<1>8. Isolation'
  BY <1>7 DEF Isolation
<1>9. BookTypeOK' /\ LedgerInv'
  BY <1>1 DEF RowsInv, bookVars, BookTypeOK, LedgerInv
<1> QED
  BY <1>1, <1>6, <1>8, <1>9 DEF RowsInv

(* The end of a transaction frees its rows and forgets its writes.         *)
LEMMA EndKeepsRows ==
    ASSUME RowsInv, NEW w \in Worker, EndTransaction(w),
           \A x \in Worker \ {w}, v \in Variant :
              writes[x][v] # <<>> => stock'[v] = stock[v],
           deleted' = deleted
    PROVE  RowsTypeOK' /\ Isolation'
<1>1. /\ holder \in [Variant -> Worker \cup {Nobody}]
      /\ writes \in [Worker -> [Variant -> Seq(Movement)]]
  BY DEF RowsInv, RowsTypeOK
<1>2. [v \in Variant |-> <<>>] \in [Variant -> Seq(Movement)]
  OBVIOUS
<1>3. RowsTypeOK'
  BY <1>1, <1>2 DEF EndTransaction, RowsTypeOK
<1>4. ASSUME NEW x \in Worker, NEW v \in Variant
      PROVE  /\ writes'[x][v] # <<>> => holder'[v] = x /\ v \notin deleted'
             /\ Chained(writes'[x][v], stock'[v])
  <2>1. CASE x = w
    <3>1. writes'[x][v] = <<>>
      BY <1>1, <2>1 DEF EndTransaction
    <3> QED
      BY <3>1, ChainEmpty
  <2>2. CASE x # w
    <3>1. /\ writes'[x][v] = writes[x][v]
          /\ holder[v] = x => holder'[v] = x
      BY <1>1, <2>2 DEF EndTransaction
    <3>2. /\ writes[x][v] # <<>> => holder[v] = x /\ v \notin deleted
          /\ Chained(writes[x][v], stock[v])
      BY DEF RowsInv, Isolation
    <3>3. CASE writes[x][v] = <<>>
      BY <3>1, <3>3, ChainEmpty
    <3>4. CASE writes[x][v] # <<>>
      BY <2>2, <3>1, <3>2, <3>4
    <3> QED
      BY <3>3, <3>4
  <2> QED
    BY <2>1, <2>2
<1>5. Isolation'
  BY <1>4 DEF Isolation
<1> QED
  BY <1>3, <1>5

LEMMA RollbackKeepsRows ==
    ASSUME RowsInv, NEW w \in Worker, Rollback(w)
    PROVE  RowsInv' /\ UNCHANGED bookVars
<1>1. EndTransaction(w) /\ UNCHANGED bookVars
  BY DEF Rollback
<1>2. stock' = stock /\ deleted' = deleted
  BY <1>1 DEF bookVars
<1>3. RowsTypeOK' /\ Isolation'
  BY <1>1, <1>2, EndKeepsRows
<1>4. BookTypeOK' /\ LedgerInv'
  BY <1>1 DEF RowsInv, bookVars, BookTypeOK, LedgerInv
<1> QED
  BY <1>1, <1>3, <1>4 DEF RowsInv

(* A commit appends the transaction's movements to the log in one step of  *)
(* the stock book: its chains start where the committed ones end, because  *)
(* nobody else could write those rows meanwhile.                           *)
LEMMA CommitKeepsRows ==
    ASSUME RowsInv, NEW w \in Worker, Commit(w)
    PROVE  RowsInv' /\ Post
<1>1. ASSUME NEW v \in Variant
      PROVE  /\ stock'[v] \in Nat
             /\ ledger'[v] \in Seq(Movement)
             /\ Chained(ledger'[v], InitialStock[v])
             /\ stock'[v] = EndOf(ledger'[v], InitialStock[v])
             /\ Len(ledger[v]) <= Len(ledger'[v])
             /\ SubSeq(ledger'[v], 1, Len(ledger[v])) = ledger[v]
             /\ v \in deleted => ledger'[v] = ledger[v]
  <2>1. /\ ledger[v] \in Seq(Movement) /\ writes[w][v] \in Seq(Movement)
        /\ InitialStock[v] \in Nat
        /\ Chained(ledger[v], InitialStock[v])
        /\ stock[v] = EndOf(ledger[v], InitialStock[v])
        /\ Chained(writes[w][v], stock[v])
        /\ v \in deleted => writes[w][v] = <<>>
    BY StockBookAssumption
    DEF RowsInv, BookTypeOK, RowsTypeOK, LedgerInv, Isolation
  <2>2. stock'[v] = EndOf(writes[w][v], stock[v]) /\ ledger'[v] = ledger[v] \o writes[w][v]
    BY DEF Commit, Seen
  <2>3. /\ Chained(ledger'[v], InitialStock[v])
        /\ stock'[v] = EndOf(ledger'[v], InitialStock[v])
    BY <2>1, <2>2, ChainConcat
  <2>4. /\ Len(ledger[v]) <= Len(ledger'[v])
        /\ SubSeq(ledger'[v], 1, Len(ledger[v])) = ledger[v]
    BY <2>1, <2>2, PrefixOfConcat
  <2>5. ledger'[v] \in Seq(Movement) /\ (v \in deleted => ledger'[v] = ledger[v])
    BY <2>1, <2>2, ConcatType
  <2>6. stock'[v] \in Nat
    BY <2>1, <2>2, SeenType DEF Seen
  <2> QED
    BY <2>3, <2>4, <2>5, <2>6
<1>2. /\ stock' = [v \in Variant |-> stock'[v]]
      /\ ledger' = [v \in Variant |-> ledger'[v]]
      /\ deleted' = deleted
      /\ EndTransaction(w)
  BY DEF Commit
<1>3. ASSUME NEW x \in Worker \ {w}, NEW v \in Variant, writes[x][v] # <<>>
      PROVE  stock'[v] = stock[v]
  <2>1. holder[v] = x
    BY <1>3 DEF RowsInv, Isolation
  <2>2. writes[w][v] = <<>>
    BY <2>1 DEF RowsInv, Isolation
  <2> QED
    BY <2>2, ChainEmpty DEF Commit, Seen
<1>4. RowsTypeOK' /\ Isolation'
  BY <1>2, <1>3, EndKeepsRows
<1>5. BookTypeOK'
  BY <1>1, <1>2 DEF RowsInv, BookTypeOK
<1>6. LedgerInv' /\ Post
  BY <1>1, <1>2 DEF LedgerInv, Post
<1> QED
  BY <1>4, <1>5, <1>6 DEF RowsInv

LEMMA RetireKeepsRows ==
    ASSUME RowsInv, NEW v \in Variant, RetireVariant(v)
    PROVE  RowsInv' /\ Retire
<1>1. UNCHANGED <<stock, ledger, holder, writes>> /\ deleted' = deleted \cup {v}
  BY DEF RetireVariant, rowVars
<1>2. BookTypeOK' /\ RowsTypeOK' /\ LedgerInv' /\ Retire
  BY <1>1 DEF RowsInv, BookTypeOK, RowsTypeOK, LedgerInv, Retire
<1>3. ASSUME NEW x \in Worker, NEW y \in Variant, writes[x][y] # <<>>
      PROVE  y # v
  <2>1. holder[y] = x /\ holder[v] = Nobody
    BY <1>3 DEF RowsInv, Isolation, RetireVariant
  <2> QED
    BY <2>1, StockRowsAssumption
<1>4. Isolation'
  BY <1>1, <1>3 DEF RowsInv, Isolation
<1> QED
  BY <1>2, <1>4 DEF RowsInv

LEMMA SameRows ==
    ASSUME RowsInv, UNCHANGED <<bookVars, rowVars>>
    PROVE  RowsInv'
BY DEF RowsInv, BookTypeOK, RowsTypeOK, LedgerInv, Isolation, bookVars, rowVars

----------------------------------------------------------------------------
(* The desk. *)

JobOK(w) ==
    /\ At(w, "sell") => /\ job[w].shift \in Shift
                        /\ shiftLock[job[w].shift] = w
                        /\ shift[job[w].shift] = "OPEN"
    /\ At(w, "open") => /\ job[w].shift \in Shift
                        /\ shift[job[w].shift] = "NONE"
                        /\ \A x \in Worker \ {w} : job[x].shift # job[w].shift
    /\ job[w].at \in {"list", "discard", "write"} =>
                        /\ job[w].shift \in Shift
                        /\ shift[job[w].shift] # "NONE"

DeskInv ==
    /\ DeskTypeOK
    /\ job \in [Worker -> Job]
    /\ \A s \in Shift : closure[s] # NoRef => shift[s] = "CLOSED"
    /\ \A w \in Worker : JobOK(w)

TillInv == RowsInv /\ DeskInv

----------------------------------------------------------------------------
(* The adjustments of a request are well formed. *)

LEMMA DeductionsType ==
    ASSUME NEW lines \in Seq(CartLine)
    PROVE  Deductions(lines) \in Seq(Adjustment)
<1>1. ASSUME NEW i \in 1..Len(lines)
      PROVE  [variant |-> lines[i].variant, delta |-> 0 - lines[i].qty]
                \in Adjustment
  <2>1. lines[i] \in CartLine
    BY <1>1
  <2> QED
    BY <2>1 DEF CartLine, Adjustment
<1> QED
  BY <1>1 DEF Deductions

LEMMA RestorationsType ==
    ASSUME NEW lines \in Seq(CartLine)
    PROVE  Restorations(lines) \in Seq(Adjustment)
<1>1. ASSUME NEW i \in 1..Len(lines)
      PROVE  [variant |-> lines[i].variant, delta |-> lines[i].qty]
                \in Adjustment
  <2>1. lines[i] \in CartLine
    BY <1>1
  <2> QED
    BY <2>1 DEF CartLine, Adjustment
<1> QED
  BY <1>1 DEF Restorations

LEMMA RestocksType ==
    ASSUME NEW lines \in Seq(CartLine), NEW back \in Seq(ReturnLine),
           \A j \in 1..Len(back) : back[j].line \in 1..Len(lines)
    PROVE  Restocks(lines, back) \in Seq(Adjustment)
<1>1. ASSUME NEW j \in 1..Len(back)
      PROVE  [variant |-> lines[back[j].line].variant, delta |-> back[j].qty]
                \in Adjustment
  <2>1. lines[back[j].line] \in CartLine /\ back[j] \in ReturnLine
    BY <1>1
  <2> QED
    BY <2>1 DEF CartLine, ReturnLine, Adjustment
<1> QED
  BY <1>1 DEF Restocks

(* A worker with nothing to do. *)
LEMMA IdleType ==
    /\ Idle \in Job
    /\ Idle.at = "idle" /\ Idle.shift = NoRef
BY DEF Idle, Job

(* The first adjustment a request has to make, and those left after it. *)
LEMMA HeadOfTodo ==
    ASSUME NEW todo \in Seq(Adjustment), todo # <<>>
    PROVE  /\ Head(todo).variant \in Variant /\ Head(todo).delta \in Int
           /\ Tail(todo) \in Seq(Adjustment)
<1>1. Head(todo) \in Adjustment /\ Tail(todo) \in Seq(Adjustment)
  OBVIOUS
<1> QED
  BY <1>1 DEF Adjustment

(* The cells of the job table after a request of w moved on. *)
LEMMA BecomeJob ==
    ASSUME job \in [Worker -> Job], NEW w \in Worker, NEW r \in Job,
           Become(w, r)
    PROVE  /\ job' \in [Worker -> Job]
           /\ job'[w] = r
           /\ \A x \in Worker \ {w} : job'[x] = job[x]
BY DEF Become

----------------------------------------------------------------------------
(* What a single step may do to the sales and to the closures. *)

SaleStep ==
    \A q \in Sale :
        sale[q].status # "COMPLETED" /\ sale'[q].status = "COMPLETED"
          => shift[sale'[q].shift] = "OPEN"

ClosureStep ==
    \A s \in Shift : closure[s] # NoRef =>
        closure'[s] = closure[s] /\ shift[s] = "CLOSED" /\ shift'[s] = "CLOSED"

GoodStep ==
    /\ RowsInv' /\ DeskInv'
    /\ [BookNext]_bookVars
    /\ SaleStep /\ ClosureStep

(* A step of w that changes no shift and no closure keeps the desk in      *)
(* order, if it takes no lock from others and leaves w's own job in order. *)
LEMMA DeskStays ==
    ASSUME TillInv, NEW w \in Worker,
           job' \in [Worker -> Job],
           \A x \in Worker \ {w} : job'[x] = job[x],
           shift' = shift, closure' = closure,
           shiftLock' \in [Shift -> Worker \cup {Nobody}],
           \A x \in Worker \ {w}, s \in Shift :
              shiftLock[s] = x => shiftLock'[s] = x,
           sale' \in [Sale -> SaleRow],
           saleLock' \in [Sale -> Worker \cup {Nobody}],
           returned' \in [Return -> ReturnRow],
           JobOK(w)',
           \A x \in Worker \ {w} : At(x, "open") => job'[w].shift # job[x].shift
    PROVE  DeskInv' /\ ClosureStep
<1>1. ASSUME NEW x \in Worker PROVE JobOK(x)'
  <2>1. CASE x = w
    BY <2>1
  <2>2. CASE x # w
    <3>1. JobOK(x) /\ job'[x] = job[x]
      BY <2>2 DEF TillInv, DeskInv
    <3>2. At(x, "sell")' =>
             /\ job'[x].shift \in Shift
             /\ shiftLock'[job'[x].shift] = x
             /\ shift'[job'[x].shift] = "OPEN"
      BY <2>2, <3>1 DEF JobOK, At
    <3>3. At(x, "open")' =>
             /\ job'[x].shift \in Shift
             /\ shift'[job'[x].shift] = "NONE"
             /\ \A y \in Worker \ {x} : job'[y].shift # job'[x].shift
      BY <2>2, <3>1 DEF JobOK, At
    <3>4. job'[x].at \in {"list", "discard", "write"} =>
             job'[x].shift \in Shift /\ shift'[job'[x].shift] # "NONE"
      BY <3>1 DEF JobOK
    <3> QED
      BY <3>2, <3>3, <3>4 DEF JobOK
  <2> QED
    BY <2>1, <2>2
<1>2. DeskTypeOK'
  BY DEF TillInv, DeskInv, DeskTypeOK
<1> QED
  BY <1>1, <1>2 DEF TillInv, DeskInv, ClosureStep

(* A worker without a request has no duty. *)
LEMMA IdleJobOK ==
    ASSUME TillInv, NEW w \in Worker, job'[w] = Idle
    PROVE  /\ JobOK(w)'
           /\ \A x \in Worker \ {w} :
                 At(x, "open") => job'[w].shift # job[x].shift
<1>1. JobOK(w)'
  BY IdleType DEF JobOK, At
<1>2. \A x \in Worker : At(x, "open") => job[x].shift # NoRef
  BY TillAssumption DEF TillInv, DeskInv, JobOK
<1> QED
  BY <1>1, <1>2, IdleType

(* Locks are released by their holder only. *)
LEMMA ReleaseKeeps ==
    ASSUME TillInv, NEW w \in Worker, Release(w)
    PROVE  /\ shiftLock' \in [Shift -> Worker \cup {Nobody}]
           /\ saleLock' \in [Sale -> Worker \cup {Nobody}]
           /\ \A x \in Worker \ {w}, s \in Shift :
                 shiftLock[s] = x => shiftLock'[s] = x
BY DEF TillInv, DeskInv, DeskTypeOK, Release

LEMMA AbortIsGood ==
    ASSUME TillInv, NEW w \in Worker, Abort(w)
    PROVE  GoodStep
<1>1. /\ Become(w, Idle) /\ Rollback(w) /\ Release(w)
      /\ UNCHANGED <<shift, closure, sale, returned>>
  BY DEF Abort, deskVars
<1>2. RowsInv' /\ UNCHANGED bookVars
  BY <1>1, RollbackKeepsRows DEF TillInv
<1>3. /\ job' \in [Worker -> Job] /\ job'[w] = Idle
      /\ \A x \in Worker \ {w} : job'[x] = job[x]
  BY <1>1, BecomeJob, IdleType DEF TillInv, DeskInv
<1>4. /\ sale' \in [Sale -> SaleRow] /\ returned' \in [Return -> ReturnRow]
  BY <1>1 DEF TillInv, DeskInv, DeskTypeOK
<1>5. DeskInv' /\ ClosureStep
  BY <1>1, <1>3, <1>4, ReleaseKeeps, IdleJobOK, DeskStays
<1> QED
  BY <1>1, <1>2, <1>5 DEF GoodStep, SaleStep

(* One adjust_stock call inside a request changes nothing that is          *)
(* committed: for the stock book it is a stutter.                          *)
LEMMA AdjustNextIsGood ==
    ASSUME TillInv, NEW w \in Worker, NEW reason \in Reason,
           AdjustNext(w, reason)
    PROVE  GoodStep
<1> DEFINE line == Head(job[w].todo)
<1>1. job[w] \in Job /\ job[w].todo # <<>>
  BY DEF TillInv, DeskInv, AdjustNext
<1>2. /\ job[w].todo \in Seq(Adjustment)
      /\ job[w].sale \in Ref \cup {NoRef}
  BY <1>1, TillAssumption DEF Job
<1>3. /\ line.variant \in Variant /\ line.delta \in Int
      /\ Tail(job[w].todo) \in Seq(Adjustment)
  BY <1>1, <1>2, HeadOfTodo
<1>4. /\ AdjustStock(w, line.variant, line.delta, reason, job[w].sale)
      /\ job' = [job EXCEPT ![w].todo = Tail(@)]
      /\ UNCHANGED <<shift, closure, sale, returned, shiftLock, saleLock>>
  BY DEF AdjustNext, deskVars, lockVars
<1>5. RowsInv' /\ UNCHANGED bookVars
  BY <1>2, <1>3, <1>4, AdjustKeepsRows DEF TillInv
<1>6. [job[w] EXCEPT !.todo = Tail(@)] \in Job
  BY <1>1, <1>3 DEF Job
<1>7. /\ job' \in [Worker -> Job]
      /\ \A x \in Worker \ {w} : job'[x] = job[x]
      /\ job'[w] = [job[w] EXCEPT !.todo = Tail(@)]
  BY <1>4, <1>6 DEF TillInv, DeskInv
<1>8. job'[w].at = job[w].at /\ job'[w].shift = job[w].shift
  BY <1>1, <1>7 DEF Job
<1>9. JobOK(w)'
  <2>1. JobOK(w)
    BY DEF TillInv, DeskInv
  <2> QED
    BY <1>4, <1>7, <1>8, <2>1 DEF JobOK, At
<1>10. \A x \in Worker \ {w} : At(x, "open") => job'[w].shift # job[x].shift
  BY <1>8 DEF TillInv, DeskInv, JobOK
<1>11. DeskInv' /\ ClosureStep
  BY <1>4, <1>7, <1>9, <1>10, DeskStays DEF TillInv, DeskInv, DeskTypeOK
<1> QED
  BY <1>4, <1>5, <1>11 DEF GoodStep, SaleStep

----------------------------------------------------------------------------
(* Accepting a request: nothing is written yet. *)

(* The request r is recorded, and perhaps a lock is taken. *)
LEMMA BeginIsGood ==
    ASSUME TillInv, NEW w \in Worker, NEW r \in Job, Become(w, r),
           UNCHANGED <<bookVars, rowVars, deskVars>>,
           shiftLock' \in [Shift -> Worker \cup {Nobody}],
           \A x \in Worker \ {w}, s \in Shift :
              shiftLock[s] = x => shiftLock'[s] = x,
           saleLock' \in [Sale -> Worker \cup {Nobody}],
           JobOK(w)',
           \A x \in Worker \ {w} : At(x, "open") => r.shift # job[x].shift
    PROVE  GoodStep
<1>1. /\ job' \in [Worker -> Job] /\ job'[w] = r
      /\ \A x \in Worker \ {w} : job'[x] = job[x]
  BY BecomeJob DEF TillInv, DeskInv
<1>2. UNCHANGED <<shift, closure, sale, returned>> /\ UNCHANGED bookVars
  BY DEF deskVars
<1>3. RowsInv'
  BY SameRows DEF TillInv
<1>4. DeskInv' /\ ClosureStep
  BY <1>1, <1>2, DeskStays DEF TillInv, DeskInv, DeskTypeOK
<1> QED
  BY <1>2, <1>3, <1>4 DEF GoodStep, SaleStep

(* The shift of an open_shift request does not exist for anybody else yet. *)
LEMMA OpenIsNone ==
    ASSUME TillInv, NEW x \in Worker, At(x, "open")
    PROVE  job[x].shift \in Shift /\ shift[job[x].shift] = "NONE"
BY DEF TillInv, DeskInv, JobOK

LEMMA SellBeginIsGood ==
    ASSUME TillInv, NEW w \in Worker, NEW q \in Sale, NEW s \in Shift,
           NEW lines \in Carts, SellBegin(w, q, s, lines)
    PROVE  GoodStep
<1> DEFINE r == [Idle EXCEPT !.at = "sell", !.sale = q, !.shift = s,
                             !.lines = lines, !.todo = Deductions(lines)]
<1>1. lines \in Seq(CartLine) /\ Deductions(lines) \in Seq(Adjustment)
  BY TillAssumption, DeductionsType
<1>2. r \in Job /\ r.at = "sell" /\ r.shift = s
  <2>1. Idle \in Job /\ Idle.shift = NoRef
    BY IdleType
  <2> QED
    BY <1>1, <2>1 DEF Job
<1>3. /\ Become(w, r) /\ shift[s] = "OPEN" /\ shiftLock[s] = Nobody
      /\ shiftLock' = [shiftLock EXCEPT ![s] = w]
      /\ UNCHANGED <<bookVars, rowVars, deskVars>> /\ saleLock' = saleLock
  BY DEF SellBegin
<1> HIDE DEF r
<1>4. job'[w] = r /\ shift' = shift
  BY <1>2, <1>3, BecomeJob DEF TillInv, DeskInv, deskVars
<1>5. /\ shiftLock' \in [Shift -> Worker \cup {Nobody}]
      /\ saleLock' \in [Sale -> Worker \cup {Nobody}]
      /\ shiftLock'[s] = w
      /\ \A x \in Worker \ {w}, t \in Shift :
            shiftLock[t] = x => shiftLock'[t] = x
  BY <1>3, StockRowsAssumption DEF TillInv, DeskInv, DeskTypeOK
<1>6. JobOK(w)'
  BY <1>2, <1>3, <1>4, <1>5 DEF JobOK, At
<1>7. \A x \in Worker \ {w} : At(x, "open") => r.shift # job[x].shift
  BY <1>2, <1>3, OpenIsNone
<1> QED
  BY <1>2, <1>3, <1>5, <1>6, <1>7, BeginIsGood

LEMMA HoldBeginIsGood ==
    ASSUME TillInv, NEW w \in Worker, NEW q \in Sale, NEW s \in Shift,
           NEW lines \in Carts, HoldBegin(w, q, s, lines)
    PROVE  GoodStep
<1> DEFINE r == [Idle EXCEPT !.at = "hold", !.sale = q, !.shift = s,
                             !.lines = lines]
<1>1. lines \in Seq(CartLine)
  BY TillAssumption
<1>2. r \in Job /\ r.at = "hold" /\ r.shift = s
  <2>1. Idle \in Job /\ Idle.shift = NoRef
    BY IdleType
  <2> QED
    BY <1>1, <2>1 DEF Job
<1>3. /\ Become(w, r) /\ shift[s] # "NONE" /\ shiftLock[s] = Nobody
      /\ shiftLock' = [shiftLock EXCEPT ![s] = w]
      /\ UNCHANGED <<bookVars, rowVars, deskVars>> /\ saleLock' = saleLock
  BY DEF HoldBegin
<1> HIDE DEF r
<1>4. job'[w] = r
  BY <1>2, <1>3, BecomeJob DEF TillInv, DeskInv
<1>5. /\ shiftLock' \in [Shift -> Worker \cup {Nobody}]
      /\ saleLock' \in [Sale -> Worker \cup {Nobody}]
      /\ \A x \in Worker \ {w}, t \in Shift :
            shiftLock[t] = x => shiftLock'[t] = x
  BY <1>3, StockRowsAssumption DEF TillInv, DeskInv, DeskTypeOK
<1>6. JobOK(w)'
  BY <1>2, <1>4 DEF JobOK, At
<1>7. \A x \in Worker \ {w} : At(x, "open") => r.shift # job[x].shift
  BY <1>2, <1>3, OpenIsNone
<1> QED
  BY <1>2, <1>3, <1>5, <1>6, <1>7, BeginIsGood

(* The cases that take no shift lock. *)
LEMMA UnlockedBeginIsGood ==
    ASSUME TillInv, NEW w \in Worker, NEW r \in Job, Become(w, r),
           UNCHANGED <<bookVars, rowVars, deskVars, shiftLock>>,
           saleLock' \in [Sale -> Worker \cup {Nobody}],
           r.at \in {"void", "return"} /\ r.shift = NoRef
    PROVE  GoodStep
<1>1. job'[w] = r
  BY BecomeJob DEF TillInv, DeskInv
<1>2. JobOK(w)'
  BY <1>1 DEF JobOK, At
<1>3. \A x \in Worker \ {w} : At(x, "open") => r.shift # job[x].shift
  BY OpenIsNone, TillAssumption
<1>4. shiftLock' = shiftLock /\ UNCHANGED <<bookVars, rowVars, deskVars>>
  OBVIOUS
<1> QED
  BY <1>2, <1>3, <1>4, BeginIsGood DEF TillInv, DeskInv, DeskTypeOK

LEMMA VoidBeginIsGood ==
    ASSUME TillInv, NEW w \in Worker, NEW q \in Sale, VoidBegin(w, q)
    PROVE  GoodStep
<1> DEFINE r == [Idle EXCEPT !.at = "void", !.sale = q,
                             !.todo = Restorations(sale[q].lines)]
<1>1. sale[q].lines \in Seq(CartLine)
  BY DEF TillInv, DeskInv, DeskTypeOK, SaleRow
<1>2. Restorations(sale[q].lines) \in Seq(Adjustment)
  BY <1>1, RestorationsType
<1>3. r \in Job /\ r.at = "void" /\ r.shift = NoRef
  <2>1. Idle \in Job /\ Idle.shift = NoRef
    BY IdleType
  <2> QED
    BY <1>2, <2>1 DEF Job
<1>4. /\ Become(w, r) /\ saleLock' = [saleLock EXCEPT ![q] = w]
      /\ UNCHANGED <<bookVars, rowVars, deskVars, shiftLock>>
  BY DEF VoidBegin
<1> HIDE DEF r
<1>5. saleLock' \in [Sale -> Worker \cup {Nobody}]
  BY <1>4 DEF TillInv, DeskInv, DeskTypeOK
<1> QED
  BY <1>3, <1>4, <1>5, UnlockedBeginIsGood

LEMMA ReturnBeginIsGood ==
    ASSUME TillInv, NEW w \in Worker, NEW n \in Return, NEW q \in Sale,
           NEW back \in ReturnBodies, NEW restock \in BOOLEAN,
           ReturnBegin(w, n, q, back, restock)
    PROVE  GoodStep
<1> DEFINE todo == IF restock THEN Restocks(sale[q].lines, back) ELSE <<>>
           r == [Idle EXCEPT !.at = "return", !.sale = q, !.return = n,
                    !.back = back, !.lines = sale[q].lines,
                    !.restock = restock, !.todo = todo]
<1>1. sale[q].lines \in Seq(CartLine) /\ back \in Seq(ReturnLine)
  BY TillAssumption DEF TillInv, DeskInv, DeskTypeOK, SaleRow
<1>2. \A j \in 1..Len(back) : back[j].line \in 1..Len(sale[q].lines)
  BY DEF ReturnBegin, Returnable
<1>3. todo \in Seq(Adjustment)
  BY <1>1, <1>2, RestocksType
<1>4. Become(w, r) /\ UNCHANGED <<bookVars, rowVars, deskVars, lockVars>>
  BY DEF ReturnBegin
<1> HIDE DEF todo
<1>5. r \in Job /\ r.at = "return" /\ r.shift = NoRef
  BY <1>1, <1>3 DEF Idle, Job
<1> HIDE DEF r
<1>6. saleLock' \in [Sale -> Worker \cup {Nobody}] /\ shiftLock' = shiftLock
  BY <1>4 DEF TillInv, DeskInv, DeskTypeOK, lockVars
<1> QED
  BY <1>4, <1>5, <1>6, UnlockedBeginIsGood

LEMMA OpenCheckIsGood ==
    ASSUME TillInv, NEW w \in Worker, NEW s \in Shift, OpenCheck(w, s)
    PROVE  GoodStep
<1> DEFINE r == [Idle EXCEPT !.at = "open", !.shift = s]
<1>1. r \in Job /\ r.at = "open" /\ r.shift = s
  BY IdleType DEF Job
<1>2. /\ Become(w, r) /\ UNCHANGED <<bookVars, rowVars, deskVars, lockVars>>
      /\ shift[s] = "NONE" /\ \A x \in Worker : job[x].shift # s
  BY DEF OpenCheck
<1> HIDE DEF r
<1>3. job'[w] = r /\ \A x \in Worker \ {w} : job'[x] = job[x]
  BY <1>1, <1>2, BecomeJob DEF TillInv, DeskInv
<1>4. shift' = shift /\ shiftLock' = shiftLock /\ saleLock' = saleLock
  BY <1>2 DEF deskVars, lockVars
<1>5. JobOK(w)'
  BY <1>1, <1>2, <1>3, <1>4 DEF JobOK, At
<1>6. \A x \in Worker \ {w} : At(x, "open") => r.shift # job[x].shift
  BY <1>1, <1>2
<1> QED
  BY <1>1, <1>2, <1>4, <1>5, <1>6, BeginIsGood DEF TillInv, DeskInv, DeskTypeOK

LEMMA CloseBeginIsGood ==
    ASSUME TillInv, NEW w \in Worker, NEW s \in Shift, CloseBegin(w, s)
    PROVE  GoodStep
<1> DEFINE r == [Idle EXCEPT !.at = "list", !.shift = s]
<1>1. r \in Job /\ r.at = "list" /\ r.shift = s
  BY IdleType DEF Job
<1>2. /\ Become(w, r) /\ UNCHANGED <<bookVars, rowVars, deskVars, lockVars>>
      /\ shift[s] = "OPEN"
  BY DEF CloseBegin
<1> HIDE DEF r
<1>3. job'[w] = r
  BY <1>1, <1>2, BecomeJob DEF TillInv, DeskInv
<1>4. shift' = shift /\ shiftLock' = shiftLock /\ saleLock' = saleLock
  BY <1>2 DEF deskVars, lockVars
<1>5. JobOK(w)'
  BY <1>1, <1>2, <1>3, <1>4 DEF JobOK, At
<1>6. \A x \in Worker \ {w} : At(x, "open") => r.shift # job[x].shift
  BY <1>1, <1>2, OpenIsNone
<1> QED
  BY <1>1, <1>2, <1>4, <1>5, <1>6, BeginIsGood DEF TillInv, DeskInv, DeskTypeOK

LEMMA DeleteVariantIsGood ==
    ASSUME TillInv, NEW w \in Worker, NEW v \in Variant, DeleteVariant(w, v)
    PROVE  GoodStep
<1>1. /\ RetireVariant(v)
      /\ UNCHANGED <<shift, closure, sale, returned, shiftLock, saleLock, job>>
  BY DEF DeleteVariant, deskVars, lockVars
<1>2. RowsInv' /\ Retire
  BY <1>1, RetireKeepsRows DEF TillInv
<1>3. DeskInv' /\ ClosureStep
  BY <1>1 DEF TillInv, DeskInv, DeskTypeOK, JobOK, At, ClosureStep
<1> QED
  BY <1>1, <1>2, <1>3 DEF GoodStep, SaleStep, BookNext

----------------------------------------------------------------------------
(* The commits: each is one step of the stock book, and each frees the     *)
(* locks of its request.                                                   *)

LEMMA CommitIsGood ==
    ASSUME TillInv, NEW w \in Worker,
           Commit(w), Release(w), Become(w, Idle),
           UNCHANGED <<shift, closure>>,
           sale' \in [Sale -> SaleRow], returned' \in [Return -> ReturnRow],
           SaleStep
    PROVE  GoodStep
<1>1. RowsInv' /\ Post
  BY CommitKeepsRows DEF TillInv
<1>2. /\ job' \in [Worker -> Job] /\ job'[w] = Idle
      /\ \A x \in Worker \ {w} : job'[x] = job[x]
  BY BecomeJob, IdleType DEF TillInv, DeskInv
<1>3. DeskInv' /\ ClosureStep
  BY <1>2, ReleaseKeeps, IdleJobOK, DeskStays
<1> QED
  BY <1>1, <1>3 DEF GoodStep, BookNext

(* The only step that completes a sale: its shift is open because the sale *)
(* still holds the shift's lock.                                           *)
LEMMA SellCommitIsGood ==
    ASSUME TillInv, NEW w \in Worker, SellCommit(w)
    PROVE  GoodStep
<1> DEFINE row == [status |-> "COMPLETED", shift |-> job[w].shift,
                   lines |-> job[w].lines, paid |-> TRUE]
<1>1. /\ job[w].shift \in Shift /\ shift[job[w].shift] = "OPEN"
  BY DEF SellCommit, TillInv, DeskInv, JobOK
<1>2. job[w].lines \in Seq(CartLine)
  BY DEF TillInv, DeskInv, Job
<1>3. row \in SaleRow /\ row.shift = job[w].shift
  BY <1>1, <1>2 DEF SaleRow
<1>4. /\ sale' = [sale EXCEPT ![job[w].sale] = row]
      /\ UNCHANGED <<shift, closure, returned>>
      /\ Commit(w) /\ Release(w) /\ Become(w, Idle)
  BY DEF SellCommit
<1> HIDE DEF row
<1>5. sale' \in [Sale -> SaleRow] /\ returned' \in [Return -> ReturnRow]
  BY <1>3, <1>4 DEF TillInv, DeskInv, DeskTypeOK
<1>6. SaleStep
  BY <1>1, <1>3, <1>4 DEF SaleStep, TillInv, DeskInv, DeskTypeOK
<1> QED
  BY <1>4, <1>5, <1>6, CommitIsGood

LEMMA HoldCommitIsGood ==
    ASSUME TillInv, NEW w \in Worker, HoldCommit(w)
    PROVE  GoodStep
<1> DEFINE row == [status |-> "OPEN", shift |-> job[w].shift,
                   lines |-> job[w].lines, paid |-> FALSE]
<1>1. job[w].lines \in Seq(CartLine) /\ job[w].shift \in Shift \cup {NoRef}
  BY DEF TillInv, DeskInv, Job
<1>2. row \in SaleRow /\ row.status = "OPEN"
  BY <1>1 DEF SaleRow
<1>3. /\ sale' = [sale EXCEPT ![job[w].sale] = row]
      /\ UNCHANGED <<shift, closure, returned>>
      /\ Commit(w) /\ Release(w) /\ Become(w, Idle)
  BY DEF HoldCommit
<1> HIDE DEF row
<1>4. sale' \in [Sale -> SaleRow] /\ returned' \in [Return -> ReturnRow]
  BY <1>2, <1>3 DEF TillInv, DeskInv, DeskTypeOK
<1>5. SaleStep
  BY <1>2, <1>3 DEF SaleStep, TillInv, DeskInv, DeskTypeOK
<1> QED
  BY <1>3, <1>4, <1>5, CommitIsGood

(* Marking a sale VOIDED completes none. *)
LEMMA VoidedStep ==
    ASSUME TillInv, NEW q, sale' = [sale EXCEPT ![q].status = "VOIDED"]
    PROVE  sale' \in [Sale -> SaleRow] /\ SaleStep
<1>1. sale \in [Sale -> SaleRow]
  BY DEF TillInv, DeskInv, DeskTypeOK
<1>2. ASSUME NEW x \in Sale
      PROVE  sale'[x] \in SaleRow /\ sale'[x].status \in {"VOIDED", sale[x].status}
                /\ (sale'[x].status = "VOIDED" \/ sale'[x] = sale[x])
  BY <1>1 DEF SaleRow
<1>3. sale' = [x \in Sale |-> sale'[x]]
  BY <1>1
<1>4. sale' \in [Sale -> SaleRow]
  BY <1>2, <1>3
<1>5. SaleStep
  BY <1>2 DEF SaleStep
<1> QED
  BY <1>4, <1>5

LEMMA VoidCommitIsGood ==
    ASSUME TillInv, NEW w \in Worker, VoidCommit(w)
    PROVE  GoodStep
<1>1. /\ sale' = [sale EXCEPT ![job[w].sale].status = "VOIDED"]
      /\ UNCHANGED <<shift, closure, returned>>
      /\ Commit(w) /\ Release(w) /\ Become(w, Idle)
  BY DEF VoidCommit
<1>2. sale' \in [Sale -> SaleRow] /\ SaleStep
  BY <1>1, VoidedStep
<1>3. returned' \in [Return -> ReturnRow]
  BY <1>1 DEF TillInv, DeskInv, DeskTypeOK
<1> QED
  BY <1>1, <1>2, <1>3, CommitIsGood

LEMMA ReturnCommitIsGood ==
    ASSUME TillInv, NEW w \in Worker, ReturnCommit(w)
    PROVE  GoodStep
<1> DEFINE row == [sale |-> job[w].sale, lines |-> job[w].back,
                   restock |-> job[w].restock]
<1>1. row \in ReturnRow
  BY DEF TillInv, DeskInv, Job, ReturnRow
<1>2. /\ returned' = [returned EXCEPT ![job[w].return] = row]
      /\ UNCHANGED <<shift, closure, sale>>
      /\ Commit(w) /\ Release(w) /\ Become(w, Idle)
  BY DEF ReturnCommit
<1> HIDE DEF row
<1>3. sale' \in [Sale -> SaleRow] /\ returned' \in [Return -> ReturnRow]
  BY <1>1, <1>2 DEF TillInv, DeskInv, DeskTypeOK
<1>4. SaleStep
  BY <1>2 DEF SaleStep
<1> QED
  BY <1>2, <1>3, <1>4, CommitIsGood

----------------------------------------------------------------------------
(* open_shift and close_shift *)

(* The steps of close_shift before its final write move on in the request. *)
LEMMA CloseStepIsGood ==
    ASSUME TillInv, NEW w \in Worker,
           job[w].at \in {"list", "discard"},
           NEW r \in Job, job' = [job EXCEPT ![w] = r],
           r.at \in {"discard", "write"}, r.shift = job[w].shift,
           UNCHANGED <<bookVars, rowVars, shift, closure, returned, lockVars>>,
           sale' \in [Sale -> SaleRow], SaleStep
    PROVE  GoodStep
<1>1. /\ job' \in [Worker -> Job] /\ job'[w] = r
      /\ \A x \in Worker \ {w} : job'[x] = job[x]
  BY DEF TillInv, DeskInv
<1>2. job[w].shift \in Shift /\ shift[job[w].shift] # "NONE"
  BY DEF TillInv, DeskInv, JobOK
<1>3. JobOK(w)'
  BY <1>1, <1>2 DEF JobOK, At
<1>4. \A x \in Worker \ {w} : At(x, "open") => job'[w].shift # job[x].shift
  BY <1>1, <1>2, OpenIsNone
<1>5. DeskInv' /\ ClosureStep
  BY <1>1, <1>3, <1>4, DeskStays DEF TillInv, DeskInv, DeskTypeOK, lockVars
<1>6. RowsInv'
  BY SameRows DEF TillInv
<1> QED
  BY <1>5, <1>6 DEF GoodStep

LEMMA CloseListIsGood ==
    ASSUME TillInv, NEW w \in Worker, CloseList(w)
    PROVE  GoodStep
<1> DEFINE r == [job[w] EXCEPT !.at = "discard", !.sales = HeldSales(job[w].shift)]
<1>1. job[w] \in Job /\ HeldSales(job[w].shift) \in SUBSET Sale
  BY DEF TillInv, DeskInv, HeldSales
<1>2. r \in Job /\ r.at = "discard" /\ r.shift = job[w].shift
  BY <1>1 DEF Job
<1>3. /\ job' = [job EXCEPT ![w] = r] /\ job[w].at = "list"
      /\ UNCHANGED <<bookVars, rowVars, shift, closure, sale, returned, lockVars>>
  BY DEF CloseList, At, deskVars
<1> HIDE DEF r
<1>4. sale' \in [Sale -> SaleRow] /\ SaleStep
  BY <1>3 DEF TillInv, DeskInv, DeskTypeOK, SaleStep
<1> QED
  BY <1>2, <1>3, <1>4, CloseStepIsGood

LEMMA CloseDiscardIsGood ==
    ASSUME TillInv, NEW w \in Worker, NEW q \in Sale, CloseDiscard(w, q)
    PROVE  GoodStep
<1> DEFINE r == [job[w] EXCEPT !.sales = @ \ {q}]
<1>1. job[w] \in Job /\ job[w].at = "discard"
  BY DEF TillInv, DeskInv, CloseDiscard, At
<1>2. r \in Job /\ r.at = "discard" /\ r.shift = job[w].shift
  BY <1>1 DEF Job
<1>3. /\ job' = [job EXCEPT ![w] = r]
      /\ sale' = [sale EXCEPT ![q].status = "VOIDED"]
      /\ UNCHANGED <<bookVars, rowVars, shift, closure, returned, lockVars>>
  BY DEF CloseDiscard
<1> HIDE DEF r
<1>4. sale' \in [Sale -> SaleRow] /\ SaleStep
  BY <1>3, VoidedStep
<1> QED
  BY <1>1, <1>2, <1>3, <1>4, CloseStepIsGood

LEMMA CloseTotalsIsGood ==
    ASSUME TillInv, NEW w \in Worker, CloseTotals(w)
    PROVE  GoodStep
<1> DEFINE r == [job[w] EXCEPT !.at = "write",
                               !.sales = CompletedSales(job[w].shift)]
<1>1. job[w] \in Job /\ CompletedSales(job[w].shift) \in SUBSET Sale
  BY DEF TillInv, DeskInv, CompletedSales
<1>2. r \in Job /\ r.at = "write" /\ r.shift = job[w].shift
  BY <1>1 DEF Job
<1>3. /\ job' = [job EXCEPT ![w] = r] /\ job[w].at = "discard"
      /\ UNCHANGED <<bookVars, rowVars, shift, closure, sale, returned, lockVars>>
  BY DEF CloseTotals, At, deskVars
<1> HIDE DEF r
<1>4. sale' \in [Sale -> SaleRow] /\ SaleStep
  BY <1>3 DEF TillInv, DeskInv, DeskTypeOK, SaleStep
<1> QED
  BY <1>2, <1>3, <1>4, CloseStepIsGood

(* The two writes of a shift row: they bring down no other request. *)
LEMMA ShiftWriteIsGood ==
    ASSUME TillInv, NEW w \in Worker, NEW s \in Shift, NEW c \in {"OPEN", "CLOSED"},
           Become(w, Idle),
           shift' = [shift EXCEPT ![s] = c],
           closure' \in [Shift -> (SUBSET Sale) \cup {NoRef}],
           \A t \in Shift \ {s} : closure'[t] = closure[t],
           c = "OPEN" => closure'[s] = closure[s],
           closure[s] = NoRef,
           \A x \in Worker \ {w} : At(x, "open") => job[x].shift # s,
           c = "CLOSED" => shiftLock[s] = Nobody,
           UNCHANGED <<bookVars, rowVars, sale, returned, lockVars>>
    PROVE  GoodStep
<1>1. /\ job' \in [Worker -> Job] /\ job'[w] = Idle
      /\ \A x \in Worker \ {w} : job'[x] = job[x]
  BY BecomeJob, IdleType DEF TillInv, DeskInv
<1>2. /\ shift' \in [Shift -> {"NONE", "OPEN", "CLOSED"}]
      /\ shift'[s] = c /\ \A t \in Shift \ {s} : shift'[t] = shift[t]
      /\ shiftLock' = shiftLock
  BY DEF TillInv, DeskInv, DeskTypeOK, lockVars
<1>3. \A t \in Shift : closure'[t] # NoRef => shift'[t] = "CLOSED"
  BY <1>2 DEF TillInv, DeskInv
<1>4. ClosureStep
  BY <1>2 DEF TillInv, DeskInv, ClosureStep
<1>5. ASSUME NEW x \in Worker PROVE JobOK(x)'
  <2>1. CASE x = w
    BY <1>1, <2>1, IdleJobOK
  <2>2. CASE x # w
    <3>1. JobOK(x) /\ job'[x] = job[x]
      BY <1>1, <2>2 DEF TillInv, DeskInv
    <3>2. At(x, "sell")' =>
             /\ job'[x].shift \in Shift
             /\ shiftLock'[job'[x].shift] = x
             /\ shift'[job'[x].shift] = "OPEN"
      BY <1>2, <2>2, <3>1, StockRowsAssumption DEF JobOK, At
    <3>3. At(x, "open")' =>
             /\ job'[x].shift \in Shift
             /\ shift'[job'[x].shift] = "NONE"
             /\ \A y \in Worker \ {x} : job'[y].shift # job'[x].shift
      <4>1. SUFFICES ASSUME At(x, "open")
                     PROVE  /\ job[x].shift \in Shift
                            /\ shift'[job[x].shift] = "NONE"
                            /\ \A y \in Worker \ {x} : job'[y].shift # job[x].shift
        BY <3>1 DEF At
      <4>2. /\ job[x].shift \in Shift /\ job[x].shift # s
            /\ shift[job[x].shift] = "NONE"
            /\ \A y \in Worker \ {x} : job[y].shift # job[x].shift
        BY <2>2, <3>1, <4>1 DEF JobOK
      <4>3. job'[w].shift # job[x].shift
        BY <1>1, <4>2, IdleType, TillAssumption
      <4> QED
        BY <1>1, <1>2, <4>2, <4>3
    <3>4. job'[x].at \in {"list", "discard", "write"} =>
             job'[x].shift \in Shift /\ shift'[job'[x].shift] # "NONE"
      BY <1>2, <3>1 DEF JobOK
    <3> QED
      BY <3>2, <3>3, <3>4 DEF JobOK
  <2> QED
    BY <2>1, <2>2
<1>6. DeskTypeOK'
  BY <1>2 DEF TillInv, DeskInv, DeskTypeOK, lockVars
<1>7. DeskInv'
  BY <1>1, <1>3, <1>5, <1>6 DEF DeskInv
<1>8. RowsInv'
  BY SameRows DEF TillInv
<1> QED
  BY <1>4, <1>7, <1>8 DEF GoodStep, SaleStep

LEMMA OpenInsertIsGood ==
    ASSUME TillInv, NEW w \in Worker, OpenInsert(w)
    PROVE  GoodStep
<1> DEFINE s == job[w].shift
<1>1. /\ s \in Shift /\ shift[s] = "NONE"
      /\ \A x \in Worker \ {w} : job[x].shift # s
  BY DEF OpenInsert, TillInv, DeskInv, JobOK
<1>2. /\ Become(w, Idle) /\ shift' = [shift EXCEPT ![s] = "OPEN"]
      /\ UNCHANGED <<bookVars, rowVars, closure, sale, returned, lockVars>>
  BY DEF OpenInsert
<1>3. closure[s] = NoRef /\ closure' \in [Shift -> (SUBSET Sale) \cup {NoRef}]
  BY <1>1, <1>2 DEF TillInv, DeskInv, DeskTypeOK
<1> HIDE DEF s
<1> QED
  BY <1>1, <1>2, <1>3, ShiftWriteIsGood

LEMMA CloseWriteIsGood ==
    ASSUME TillInv, NEW w \in Worker, CloseWrite(w)
    PROVE  GoodStep
<1> DEFINE s == job[w].shift
<1>1. s \in Shift /\ shift[s] # "NONE"
  BY DEF CloseWrite, At, TillInv, DeskInv, JobOK
<1>2. /\ Become(w, Idle) /\ shift' = [shift EXCEPT ![s] = "CLOSED"]
      /\ closure' = [closure EXCEPT ![s] = job[w].sales]
      /\ closure[s] = NoRef /\ shiftLock[s] = Nobody
      /\ UNCHANGED <<bookVars, rowVars, sale, returned, lockVars>>
  BY DEF CloseWrite
<1>3. job[w].sales \in SUBSET Sale
  BY DEF TillInv, DeskInv, Job
<1>4. /\ closure' \in [Shift -> (SUBSET Sale) \cup {NoRef}]
      /\ \A t \in Shift \ {s} : closure'[t] = closure[t]
  BY <1>2, <1>3 DEF TillInv, DeskInv, DeskTypeOK
<1>5. \A x \in Worker \ {w} : At(x, "open") => job[x].shift # s
  BY <1>1, OpenIsNone
<1> HIDE DEF s
<1> QED
  BY <1>1, <1>2, <1>4, <1>5, ShiftWriteIsGood

LEMMA CloseFailsIsGood ==
    ASSUME TillInv, NEW w \in Worker, CloseFails(w)
    PROVE  GoodStep
<1>1. Become(w, Idle) /\ UNCHANGED <<bookVars, rowVars, deskVars, lockVars>>
  BY DEF CloseFails
<1>2. /\ job'[w] = Idle /\ Idle \in Job
  BY <1>1, BecomeJob, IdleType DEF TillInv, DeskInv
<1>3. shiftLock' = shiftLock /\ saleLock' = saleLock
  BY <1>1 DEF lockVars
<1>4. /\ JobOK(w)'
      /\ \A x \in Worker \ {w} : At(x, "open") => Idle.shift # job[x].shift
  BY <1>2, IdleJobOK
<1> QED
  BY <1>1, <1>2, <1>3, <1>4, BeginIsGood DEF TillInv, DeskInv, DeskTypeOK

----------------------------------------------------------------------------
LEMMA TillInitInv == Init => TillInv
<1> SUFFICES ASSUME Init PROVE TillInv
  OBVIOUS
<1>1. RowsInv
  BY RowsInitInv DEF Init
<1>2. NoSale \in SaleRow /\ NoReturn \in ReturnRow
  BY DEF NoSale, SaleRow, NoReturn, ReturnRow
<1>3. DeskTypeOK
  <2>1. shift \in [Shift -> {"NONE", "OPEN", "CLOSED"}]
    BY DEF Init
  <2>2. closure \in [Shift -> (SUBSET Sale) \cup {NoRef}]
    BY DEF Init
  <2>3. /\ shiftLock \in [Shift -> Worker \cup {Nobody}]
        /\ saleLock \in [Sale -> Worker \cup {Nobody}]
    BY DEF Init
  <2>4. sale \in [Sale -> SaleRow] /\ returned \in [Return -> ReturnRow]
    BY <1>2 DEF Init
  <2> QED
    BY <2>1, <2>2, <2>3, <2>4 DEF DeskTypeOK
<1>4. job \in [Worker -> Job]
  BY IdleType DEF Init
<1>5. \A w \in Worker : JobOK(w)
  BY IdleType DEF Init, JobOK, At
<1>6. \A s \in Shift : closure[s] # NoRef => shift[s] = "CLOSED"
  BY DEF Init
<1> QED
  BY <1>1, <1>3, <1>4, <1>5, <1>6 DEF TillInv, DeskInv

LEMMA RequestIsGood ==
    ASSUME TillInv, NEW w \in Worker, Request(w)
    PROVE  GoodStep
<1>1. ASSUME NEW q \in Sale, NEW s \in Shift, NEW lines \in Carts,
             SellBegin(w, q, s, lines) \/ HoldBegin(w, q, s, lines)
      PROVE  GoodStep
  BY <1>1, SellBeginIsGood, HoldBeginIsGood
<1>2. ASSUME NEW q \in Sale, VoidBegin(w, q) PROVE GoodStep
  BY <1>2, VoidBeginIsGood
<1>3. ASSUME NEW n \in Return, NEW q \in Sale, NEW back \in ReturnBodies,
             NEW restock \in BOOLEAN, ReturnBegin(w, n, q, back, restock)
      PROVE  GoodStep
  BY <1>3, ReturnBeginIsGood
<1>4. ASSUME NEW s \in Shift, OpenCheck(w, s) \/ CloseBegin(w, s)
      PROVE  GoodStep
  BY <1>4, OpenCheckIsGood, CloseBeginIsGood
<1>5. ASSUME NEW v \in Variant, DeleteVariant(w, v) PROVE GoodStep
  BY <1>5, DeleteVariantIsGood
<1> QED
  BY <1>1, <1>2, <1>3, <1>4, <1>5 DEF Request

LEMMA StepIsGood ==
    ASSUME TillInv, NEW w \in Worker, Step(w)
    PROVE  GoodStep
<1>1. CASE Deduct(w) \/ Restore(w) \/ Restock(w)
  BY <1>1, AdjustNextIsGood DEF Deduct, Restore, Restock, Reason
<1>2. CASE SellCommit(w) \/ HoldCommit(w) \/ VoidCommit(w) \/ ReturnCommit(w)
  BY <1>2, SellCommitIsGood, HoldCommitIsGood, VoidCommitIsGood, ReturnCommitIsGood
<1>3. CASE AdjustFails(w)
  BY <1>3, AbortIsGood DEF AdjustFails
<1>4. CASE OpenInsert(w) \/ CloseList(w) \/ CloseTotals(w)
  BY <1>4, OpenInsertIsGood, CloseListIsGood, CloseTotalsIsGood
<1>5. CASE \E q \in Sale : CloseDiscard(w, q)
  BY <1>5, CloseDiscardIsGood
<1>6. CASE CloseWrite(w) \/ CloseFails(w)
  BY <1>6, CloseWriteIsGood, CloseFailsIsGood
<1> QED
  BY <1>1, <1>2, <1>3, <1>4, <1>5, <1>6 DEF Step

(* Every step preserves the inductive invariant, is a step of the stock    *)
(* book or a stutter, and respects the sales and the closures.             *)
LEMMA NextIsGood ==
    ASSUME TillInv, [Next]_vars
    PROVE  GoodStep
<1>1. ASSUME NEW w \in Worker,
             Request(w) \/ Step(w) \/ DeadlockAbort(w) \/ Crash(w)
      PROVE  GoodStep
  <2>1. CASE Request(w)
    BY <2>1, RequestIsGood
  <2>2. CASE Step(w)
    BY <2>2, StepIsGood
  <2>3. CASE DeadlockAbort(w) \/ Crash(w)
    BY <2>3, AbortIsGood DEF DeadlockAbort, Crash
  <2> QED
    BY <1>1, <2>1, <2>2, <2>3
<1>2. CASE UNCHANGED vars
  <2>1. /\ UNCHANGED <<bookVars, rowVars, job>>
        /\ UNCHANGED <<shift, closure, sale, returned, shiftLock, saleLock>>
    BY <1>2 DEF vars, deskVars, lockVars
  <2>2. RowsInv'
    BY <2>1, SameRows DEF TillInv
  <2>3. DeskInv' /\ ClosureStep
    BY <2>1 DEF TillInv, DeskInv, DeskTypeOK, JobOK, At, ClosureStep
  <2> QED
    BY <2>1, <2>2, <2>3 DEF GoodStep, SaleStep
<1> QED
  BY <1>1, <1>2 DEF Next

LEMMA TillInductive == Spec => []TillInv
<1>1. TillInv /\ [Next]_vars => TillInv'
  BY NextIsGood DEF GoodStep, TillInv
<1> QED
  BY TillInitInv, <1>1, PTL DEF Spec

----------------------------------------------------------------------------
(* Every state of the till is well typed; stock is never negative, however *)
(* many tills sell, void and return at once (AdjustStock under row locks). *)
THEOREM TillType == Spec => []TypeOK
<1>1. TillInv => TypeOK
  BY DEF TillInv, RowsInv, DeskInv, TypeOK
<1> QED
  BY TillInductive, <1>1, PTL

(* The audit log of every variant is an unbroken chain to the quantity on  *)
(* hand (create_sale, void_sale and initiate_return through adjust_stock). *)
THEOREM TillLedger == Spec => []LedgerInv
<1>1. TillInv => LedgerInv
  BY DEF TillInv, RowsInv
<1> QED
  BY TillInductive, <1>1, PTL

(* No transaction ever works on a row another one has written and not      *)
(* committed (select_for_update in adjust_stock).                          *)
THEOREM TillIsolation == Spec => []Isolation
<1>1. TillInv => Isolation
  BY DEF TillInv, RowsInv
<1> QED
  BY TillInductive, <1>1, PTL

(* The till implements the stock book: all that its requests commit are    *)
(* legal movements, whatever is aborted, crashes or interleaves.           *)
THEOREM TillRefinesBook == Spec => BookSpec
<1>1. Init => BookInit
  BY DEF Init, RowsInit
<1>2. TillInv /\ [Next]_vars => [BookNext]_bookVars
  BY NextIsGood DEF GoodStep
<1> QED
  BY TillInductive, <1>1, <1>2, PTL DEF Spec, BookSpec

(* No sale is completed on a shift that is not open, although close_shift  *)
(* never locks the shift: create_sale's lock makes the closing wait.       *)
THEOREM SalesAreOnOpenShifts == Spec => SaleOnOpenShift
<1>1. TillInv /\ [Next]_vars =>
        [\A q \in Sale :
            sale[q].status # "COMPLETED" /\ sale'[q].status = "COMPLETED"
              => shift[sale'[q].shift] = "OPEN"]_vars
  BY NextIsGood DEF GoodStep, SaleStep
<1> QED
  BY TillInductive, <1>1, PTL DEF Spec, SaleOnOpenShift

(* A closure, once written, and the CLOSED status of its shift never       *)
(* change, whoever closes or opens shifts at the same time.                *)
THEOREM ClosuresAreFinal == Spec => ClosureIsFinal
<1>1. TillInv /\ [Next]_vars =>
        [\A s \in Shift : closure[s] # NoRef =>
            closure'[s] = closure[s] /\ shift[s] = "CLOSED"
                                     /\ shift'[s] = "CLOSED"]_vars
  BY NextIsGood DEF GoodStep, ClosureStep
<1> QED
  BY TillInductive, <1>1, PTL DEF Spec, ClosureIsFinal

----------------------------------------------------------------------------
(***************************************************************************)
(* The till of a shop whose requests do not overlap: closures are exact    *)
(* for any sales, shifts, cashiers and carts, and any crashes between two  *)
(* statements.  With two workers that is false (run closed_shift), hence   *)
(* the hypothesis Worker = {w}.                                            *)
(*                                                                         *)
(* The invariant says of the one request in progress what it has checked   *)
(* and still knows; closing a shift, above all, is four statements that    *)
(* no transaction holds together.                                          *)
(***************************************************************************)

Closing == {"list", "discard", "write"}
JobKnows(w) ==
    /\ job[w].at \in {"sell", "hold"} =>
         job[w].sale \in Sale /\ sale[job[w].sale].status = "NONE"
    /\ At(w, "void") =>
         /\ job[w].sale \in Sale
         /\ sale[job[w].sale].status = "COMPLETED"
         /\ shift[sale[job[w].sale].shift] = "OPEN"
    /\ job[w].at \in Closing => shift[job[w].shift] = "OPEN"
    /\ At(w, "discard") => \A q \in job[w].sales : sale[q].status = "OPEN"
    /\ At(w, "write") => job[w].sales = CompletedSales(job[w].shift)

SerialTill(w) == TillInv /\ ClosureIsExact /\ JobKnows(w)

----------------------------------------------------------------------------
(* Steps that leave the completed sales of closed shifts alone. *)

LEMMA ShiftsStay ==
    ASSUME ClosureIsExact, UNCHANGED <<shift, closure>>,
           \A q \in Sale :
              \/ sale'[q] = sale[q]
              \/ /\ sale[q].status = "COMPLETED"
                      => shift[sale[q].shift] # "CLOSED"
                 /\ sale'[q].status = "COMPLETED"
                      => shift[sale'[q].shift] # "CLOSED"
    PROVE  ClosureIsExact'
<1>2. ASSUME NEW s \in Shift, shift[s] = "CLOSED"
      PROVE  CompletedSales(s)' = CompletedSales(s)
  BY <1>2 DEF CompletedSales
<1> QED
  BY <1>2 DEF ClosureIsExact

(* A request that has nothing left to do knows nothing. *)
LEMMA IdleKnows ==
    ASSUME NEW w \in Worker, job'[w] = Idle
    PROVE  JobKnows(w)'
BY IdleType DEF JobKnows, At, Closing

LEMMA BecomeIdle ==
    ASSUME TillInv, NEW w \in Worker, Become(w, Idle)
    PROVE  JobKnows(w)'
BY IdleKnows DEF Become, TillInv, DeskInv

LEMMA AbortKeepsShifts ==
    ASSUME NEW w \in Worker, SerialTill(w), Abort(w)
    PROVE  ClosureIsExact' /\ JobKnows(w)'
<1>1. ClosureIsExact'
  BY ShiftsStay DEF SerialTill, Abort, deskVars
<1>2. JobKnows(w)'
  BY BecomeIdle DEF SerialTill, Abort
<1> QED
  BY <1>1, <1>2

(* One more adjustment: the request knows what it knew. *)
LEMMA AdjustKeepsShifts ==
    ASSUME NEW w \in Worker, SerialTill(w), NEW reason, AdjustNext(w, reason)
    PROVE  ClosureIsExact' /\ JobKnows(w)'
<1>1. UNCHANGED <<shift, closure, sale>>
  BY DEF AdjustNext, deskVars
<1>2. job[w] \in Job
  BY DEF SerialTill, TillInv, DeskInv
<1>3. /\ job'[w].at = job[w].at /\ job'[w].sale = job[w].sale
      /\ job'[w].shift = job[w].shift /\ job'[w].sales = job[w].sales
  BY <1>2 DEF AdjustNext, SerialTill, TillInv, DeskInv, Job
<1>4. JobKnows(w)'
  BY <1>1, <1>3 DEF SerialTill, JobKnows, At, Closing, CompletedSales
<1>5. ClosureIsExact'
  BY <1>1, ShiftsStay DEF SerialTill
<1> QED
  BY <1>4, <1>5

----------------------------------------------------------------------------
(* What the first step of a request has checked. *)

LEMMA BeginKeepsShifts ==
    ASSUME NEW w \in Worker, SerialTill(w), NEW r \in Job, Become(w, r),
           UNCHANGED deskVars
    PROVE  /\ ClosureIsExact' /\ job'[w] = r
           /\ UNCHANGED <<shift, closure, sale>>
<1>1. UNCHANGED <<shift, closure, sale>>
  BY DEF deskVars
<1>2. job'[w] = r
  BY DEF Become, SerialTill, TillInv, DeskInv
<1> QED
  BY <1>1, <1>2, ShiftsStay DEF SerialTill

LEMMA SellBeginKnows ==
    ASSUME NEW w \in Worker, SerialTill(w), NEW q \in Sale, NEW s \in Shift,
           NEW lines \in Carts,
           SellBegin(w, q, s, lines) \/ HoldBegin(w, q, s, lines)
    PROVE  ClosureIsExact' /\ JobKnows(w)'
<1>1. sale[q].status = "NONE"
  BY DEF SellBegin, HoldBegin, FreshSale, NoSale
<1>2. lines \in Seq(CartLine) /\ Deductions(lines) \in Seq(Adjustment)
  BY TillAssumption, DeductionsType
<1>3. PICK r \in Job : /\ Become(w, r) /\ r.at \in {"sell", "hold"}
                       /\ r.sale = q
  <2> DEFINE r1 == [Idle EXCEPT !.at = "sell", !.sale = q, !.shift = s,
                                !.lines = lines, !.todo = Deductions(lines)]
             r2 == [Idle EXCEPT !.at = "hold", !.sale = q, !.shift = s,
                                !.lines = lines]
  <2>1. r1 \in Job /\ r1.at = "sell" /\ r1.sale = q
    BY <1>2, IdleType DEF Job
  <2>2. r2 \in Job /\ r2.at = "hold" /\ r2.sale = q
    BY <1>2, IdleType DEF Job
  <2>3. Become(w, r1) \/ Become(w, r2)
    BY DEF SellBegin, HoldBegin
  <2> HIDE DEF r1, r2
  <2> QED
    BY <2>1, <2>2, <2>3
<1>4. UNCHANGED deskVars
  BY DEF SellBegin, HoldBegin
<1>5. /\ ClosureIsExact' /\ job'[w] = r
      /\ UNCHANGED <<shift, closure, sale>>
  BY <1>3, <1>4, BeginKeepsShifts
<1>6. JobKnows(w)'
  BY <1>1, <1>3, <1>5 DEF JobKnows, At, Closing
<1> QED
  BY <1>5, <1>6

LEMMA VoidBeginKnows ==
    ASSUME NEW w \in Worker, SerialTill(w), NEW q \in Sale, VoidBegin(w, q)
    PROVE  ClosureIsExact' /\ JobKnows(w)'
<1> DEFINE r == [Idle EXCEPT !.at = "void", !.sale = q,
                             !.todo = Restorations(sale[q].lines)]
<1>1. sale[q].lines \in Seq(CartLine)
  BY DEF SerialTill, TillInv, DeskInv, DeskTypeOK, SaleRow
<1>2. Restorations(sale[q].lines) \in Seq(Adjustment)
  BY <1>1, RestorationsType
<1>3. r \in Job /\ r.at = "void" /\ r.sale = q
  BY <1>2, IdleType DEF Job
<1>4. /\ Become(w, r) /\ UNCHANGED deskVars
      /\ sale[q].status = "COMPLETED" /\ shift[sale[q].shift] = "OPEN"
  BY DEF VoidBegin
<1> HIDE DEF r
<1>5. /\ ClosureIsExact' /\ job'[w] = r
      /\ UNCHANGED <<shift, closure, sale>>
  BY <1>3, <1>4, BeginKeepsShifts
<1>6. JobKnows(w)'
  BY <1>3, <1>4, <1>5 DEF JobKnows, At, Closing
<1> QED
  BY <1>5, <1>6

LEMMA ReturnBeginKnows ==
    ASSUME NEW w \in Worker, SerialTill(w), NEW n \in Return, NEW q \in Sale,
           NEW back \in ReturnBodies, NEW restock \in BOOLEAN,
           ReturnBegin(w, n, q, back, restock)
    PROVE  ClosureIsExact' /\ JobKnows(w)'
<1> DEFINE todo == IF restock THEN Restocks(sale[q].lines, back) ELSE <<>>
           r == [Idle EXCEPT !.at = "return", !.sale = q, !.return = n,
                    !.back = back, !.lines = sale[q].lines,
                    !.restock = restock, !.todo = todo]
<1>1. Become(w, r) /\ UNCHANGED deskVars
  BY DEF ReturnBegin
<1> HIDE DEF todo
<1>2. r.at = "return"
  BY DEF Idle
<1> HIDE DEF r
<1>3. job'[w] = r
  BY <1>1 DEF Become, SerialTill, TillInv, DeskInv
<1>4. ClosureIsExact'
  BY <1>1, ShiftsStay DEF SerialTill, deskVars
<1>5. JobKnows(w)'
  BY <1>2, <1>3 DEF JobKnows, At, Closing
<1> QED
  BY <1>4, <1>5

LEMMA OpenCheckKnows ==
    ASSUME NEW w \in Worker, SerialTill(w), NEW s \in Shift, OpenCheck(w, s)
    PROVE  ClosureIsExact' /\ JobKnows(w)'
<1> DEFINE r == [Idle EXCEPT !.at = "open", !.shift = s]
<1>1. r \in Job /\ r.at = "open" /\ r.shift = s
  BY IdleType DEF Job
<1>2. /\ Become(w, r) /\ UNCHANGED deskVars
  BY DEF OpenCheck
<1> HIDE DEF r
<1>3. /\ ClosureIsExact' /\ job'[w] = r
      /\ UNCHANGED <<shift, closure, sale>>
  BY <1>1, <1>2, BeginKeepsShifts
<1>4. JobKnows(w)'
  BY <1>1, <1>2, <1>3 DEF JobKnows, At, Closing
<1> QED
  BY <1>3, <1>4

LEMMA CloseBeginKnows ==
    ASSUME NEW w \in Worker, SerialTill(w), NEW s \in Shift, CloseBegin(w, s)
    PROVE  ClosureIsExact' /\ JobKnows(w)'
<1> DEFINE r == [Idle EXCEPT !.at = "list", !.shift = s]
<1>1. r \in Job /\ r.at = "list" /\ r.shift = s
  BY IdleType DEF Job
<1>2. Become(w, r) /\ UNCHANGED deskVars /\ shift[s] = "OPEN"
  BY DEF CloseBegin
<1> HIDE DEF r
<1>3. /\ ClosureIsExact' /\ job'[w] = r
      /\ UNCHANGED <<shift, closure, sale>>
  BY <1>1, <1>2, BeginKeepsShifts
<1>4. JobKnows(w)'
  BY <1>1, <1>2, <1>3 DEF JobKnows, At, Closing
<1> QED
  BY <1>3, <1>4

LEMMA DeletionKeepsShifts ==
    ASSUME NEW w \in Worker, SerialTill(w), NEW v \in Variant,
           DeleteVariant(w, v)
    PROVE  ClosureIsExact' /\ JobKnows(w)'
<1>1. UNCHANGED <<shift, closure, sale, job>>
  BY DEF DeleteVariant, deskVars
<1>2. ClosureIsExact'
  BY <1>1, ShiftsStay DEF SerialTill
<1>3. JobKnows(w)'
  BY <1>1 DEF SerialTill, JobKnows, At, CompletedSales
<1> QED
  BY <1>2, <1>3

----------------------------------------------------------------------------
(* The commits. *)

LEMMA SellCommitKeepsShifts ==
    ASSUME NEW w \in Worker, SerialTill(w), SellCommit(w) \/ HoldCommit(w)
    PROVE  ClosureIsExact' /\ JobKnows(w)'
<1> DEFINE q == job[w].sale
<1>1. q \in Sale /\ sale[q].status = "NONE"
  BY DEF SellCommit, HoldCommit, At, SerialTill, JobKnows
<1>2. \A x \in Sale \ {q} : sale'[x] = sale[x]
  BY DEF SellCommit, HoldCommit, SerialTill, TillInv, DeskInv, DeskTypeOK
<1>3. sale'[q].status = "COMPLETED" => shift[sale'[q].shift] = "OPEN"
  <2>1. CASE SellCommit(w)
    <3>1. shift[job[w].shift] = "OPEN"
      BY <2>1 DEF SellCommit, SerialTill, TillInv, DeskInv, JobOK
    <3>2. sale'[q].shift = job[w].shift
      BY <1>1, <2>1 DEF SellCommit, SerialTill, TillInv, DeskInv, DeskTypeOK
    <3> QED
      BY <3>1, <3>2
  <2>2. CASE HoldCommit(w)
    <3>1. sale'[q].status = "OPEN"
      BY <1>1, <2>2 DEF HoldCommit, SerialTill, TillInv, DeskInv, DeskTypeOK
    <3> QED
      BY <3>1
  <2> QED
    BY <2>1, <2>2
<1>4. UNCHANGED <<shift, closure>> /\ Become(w, Idle)
  BY DEF SellCommit, HoldCommit
<1> HIDE DEF q
<1>5. ClosureIsExact'
  BY <1>1, <1>2, <1>3, <1>4, ShiftsStay DEF SerialTill
<1>6. JobKnows(w)'
  BY <1>4, BecomeIdle DEF SerialTill
<1> QED
  BY <1>5, <1>6

(* A sale that is voided leaves no closed shift. *)
LEMMA Voiding ==
    ASSUME NEW w \in Worker, SerialTill(w), NEW q \in Sale,
           sale' = [sale EXCEPT ![q].status = "VOIDED"],
           UNCHANGED <<shift, closure>>,
           sale[q].status = "COMPLETED" => shift[sale[q].shift] = "OPEN"
    PROVE  /\ ClosureIsExact'
           /\ \A x \in Sale \ {q} : sale'[x] = sale[x]
<1>1. /\ \A x \in Sale \ {q} : sale'[x] = sale[x]
      /\ sale'[q].status = "VOIDED"
  BY DEF SerialTill, TillInv, DeskInv, DeskTypeOK, SaleRow
<1>2. ClosureIsExact'
  BY <1>1, ShiftsStay DEF SerialTill
<1> QED
  BY <1>1, <1>2

LEMMA VoidCommitKeepsShifts ==
    ASSUME NEW w \in Worker, SerialTill(w), VoidCommit(w)
    PROVE  ClosureIsExact' /\ JobKnows(w)'
<1>1. job[w].sale \in Sale /\ shift[sale[job[w].sale].shift] = "OPEN"
  BY DEF VoidCommit, SerialTill, JobKnows
<1>2. ClosureIsExact'
  BY <1>1, Voiding DEF VoidCommit
<1>3. JobKnows(w)'
  BY BecomeIdle DEF VoidCommit, SerialTill
<1> QED
  BY <1>2, <1>3

LEMMA ReturnCommitKeepsShifts ==
    ASSUME NEW w \in Worker, SerialTill(w), ReturnCommit(w)
    PROVE  ClosureIsExact' /\ JobKnows(w)'
<1>1. ClosureIsExact'
  BY ShiftsStay DEF ReturnCommit, SerialTill
<1>2. JobKnows(w)'
  BY BecomeIdle DEF ReturnCommit, SerialTill
<1> QED
  BY <1>1, <1>2

----------------------------------------------------------------------------
(* Opening and closing a shift. *)

LEMMA OpenInsertKeepsShifts ==
    ASSUME NEW w \in Worker, SerialTill(w), OpenInsert(w)
    PROVE  ClosureIsExact' /\ JobKnows(w)'
<1> DEFINE s == job[w].shift
<1>1. s \in Shift /\ shift[s] = "NONE"
  BY DEF OpenInsert, SerialTill, TillInv, DeskInv, JobOK, JobKnows
<1>2. /\ shift'[s] = "OPEN" /\ \A t \in Shift \ {s} : shift'[t] = shift[t]
      /\ UNCHANGED <<closure, sale>> /\ Become(w, Idle)
  BY <1>1 DEF OpenInsert, SerialTill, TillInv, DeskInv, DeskTypeOK
<1> HIDE DEF s
<1>4. ClosureIsExact'
  BY <1>1, <1>2 DEF SerialTill, ClosureIsExact, CompletedSales
<1>5. JobKnows(w)'
  BY <1>2, BecomeIdle DEF SerialTill
<1> QED
  BY <1>4, <1>5

LEMMA CloseListKnows ==
    ASSUME NEW w \in Worker, SerialTill(w), CloseList(w)
    PROVE  ClosureIsExact' /\ JobKnows(w)'
<1>1. UNCHANGED <<shift, closure, sale>>
  BY DEF CloseList, deskVars
<1>2. /\ job'[w].at = "discard" /\ job'[w].shift = job[w].shift
      /\ job'[w].sales = HeldSales(job[w].shift)
  BY DEF CloseList, SerialTill, TillInv, DeskInv, Job
<1>3. shift[job[w].shift] = "OPEN"
  BY DEF CloseList, SerialTill, JobKnows, At, Closing
<1>4. JobKnows(w)'
  BY <1>1, <1>2, <1>3 DEF JobKnows, At, Closing, HeldSales
<1>5. ClosureIsExact'
  BY <1>1, ShiftsStay DEF SerialTill
<1> QED
  BY <1>4, <1>5

LEMMA CloseDiscardKnows ==
    ASSUME NEW w \in Worker, SerialTill(w), NEW q \in Sale, CloseDiscard(w, q)
    PROVE  ClosureIsExact' /\ JobKnows(w)'
<1>1. /\ job[w].at = "discard" /\ q \in job[w].sales
      /\ sale' = [sale EXCEPT ![q].status = "VOIDED"]
      /\ UNCHANGED <<shift, closure>>
  BY DEF CloseDiscard, At
<1>2. /\ \A x \in job[w].sales : sale[x].status = "OPEN"
      /\ shift[job[w].shift] = "OPEN"
  BY <1>1 DEF SerialTill, JobKnows, At, Closing
<1>3. ClosureIsExact' /\ \A x \in Sale \ {q} : sale'[x] = sale[x]
  BY <1>1, <1>2, Voiding
<1>4. /\ job'[w].at = "discard" /\ job'[w].shift = job[w].shift
      /\ job'[w].sales = job[w].sales \ {q} /\ job[w].sales \subseteq Sale
  BY <1>1 DEF CloseDiscard, SerialTill, TillInv, DeskInv, Job
<1>5. JobKnows(w)'
  BY <1>1, <1>2, <1>3, <1>4 DEF JobKnows, At, Closing
<1> QED
  BY <1>3, <1>5

LEMMA CloseTotalsKnows ==
    ASSUME NEW w \in Worker, SerialTill(w), CloseTotals(w)
    PROVE  ClosureIsExact' /\ JobKnows(w)'
<1>1. UNCHANGED <<shift, closure, sale>>
  BY DEF CloseTotals, deskVars
<1>2. /\ job'[w].at = "write" /\ job'[w].shift = job[w].shift
      /\ job'[w].sales = CompletedSales(job[w].shift)
  BY DEF CloseTotals, SerialTill, TillInv, DeskInv, Job
<1>3. shift[job[w].shift] = "OPEN"
  BY DEF CloseTotals, SerialTill, JobKnows, At, Closing
<1>4. JobKnows(w)'
  BY <1>1, <1>2, <1>3 DEF JobKnows, At, Closing, CompletedSales
<1>5. ClosureIsExact'
  BY <1>1, ShiftsStay DEF SerialTill
<1> QED
  BY <1>4, <1>5

(* The closure counts the sales of this very moment. *)
LEMMA CloseWriteKeepsShifts ==
    ASSUME NEW w \in Worker, SerialTill(w), CloseWrite(w)
    PROVE  ClosureIsExact' /\ JobKnows(w)'
<1> DEFINE s == job[w].shift
<1>1. s \in Shift /\ job[w].sales = CompletedSales(s)
  BY DEF CloseWrite, At, SerialTill, TillInv, DeskInv, JobOK, JobKnows
<1>2. /\ shift'[s] = "CLOSED" /\ \A t \in Shift \ {s} : shift'[t] = shift[t]
      /\ closure'[s] = job[w].sales
      /\ \A t \in Shift \ {s} : closure'[t] = closure[t]
      /\ sale' = sale /\ Become(w, Idle)
  BY <1>1 DEF CloseWrite, SerialTill, TillInv, DeskInv, DeskTypeOK
<1> HIDE DEF s
<1>3. \A t \in Shift : CompletedSales(t)' = CompletedSales(t)
  BY <1>2 DEF CompletedSales
<1>5. ClosureIsExact'
  BY <1>1, <1>2, <1>3 DEF SerialTill, ClosureIsExact
<1>6. JobKnows(w)'
  BY <1>2, BecomeIdle DEF SerialTill
<1> QED
  BY <1>5, <1>6

LEMMA CloseFailsKeepsShifts ==
    ASSUME NEW w \in Worker, SerialTill(w), CloseFails(w)
    PROVE  ClosureIsExact' /\ JobKnows(w)'
<1>1. ClosureIsExact'
  BY ShiftsStay DEF CloseFails, SerialTill, deskVars
<1>2. JobKnows(w)'
  BY BecomeIdle DEF CloseFails, SerialTill
<1> QED
  BY <1>1, <1>2

----------------------------------------------------------------------------
(* Every step, and the specification. *)

LEMMA SerialRequest ==
    ASSUME NEW w \in Worker, SerialTill(w), Request(w)
    PROVE  ClosureIsExact' /\ JobKnows(w)'
<1>1. ASSUME NEW q \in Sale, NEW s \in Shift, NEW lines \in Carts,
             SellBegin(w, q, s, lines) \/ HoldBegin(w, q, s, lines)
      PROVE  ClosureIsExact' /\ JobKnows(w)'
  BY <1>1, SellBeginKnows
<1>2. ASSUME NEW q \in Sale, VoidBegin(w, q)
      PROVE  ClosureIsExact' /\ JobKnows(w)'
  BY <1>2, VoidBeginKnows
<1>3. ASSUME NEW n \in Return, NEW q \in Sale, NEW back \in ReturnBodies,
             NEW restock \in BOOLEAN, ReturnBegin(w, n, q, back, restock)
      PROVE  ClosureIsExact' /\ JobKnows(w)'
  BY <1>3, ReturnBeginKnows
<1>4. ASSUME NEW s \in Shift, OpenCheck(w, s) \/ CloseBegin(w, s)
      PROVE  ClosureIsExact' /\ JobKnows(w)'
  BY <1>4, OpenCheckKnows, CloseBeginKnows
<1>5. ASSUME NEW v \in Variant, DeleteVariant(w, v)
      PROVE  ClosureIsExact' /\ JobKnows(w)'
  BY <1>5, DeletionKeepsShifts
<1> QED
  BY <1>1, <1>2, <1>3, <1>4, <1>5 DEF Request

LEMMA SerialStep ==
    ASSUME NEW w \in Worker, SerialTill(w), Step(w)
    PROVE  ClosureIsExact' /\ JobKnows(w)'
<1>1. CASE Deduct(w) \/ Restore(w) \/ Restock(w)
  BY <1>1, AdjustKeepsShifts DEF Deduct, Restore, Restock
<1>2. CASE SellCommit(w) \/ HoldCommit(w) \/ VoidCommit(w) \/ ReturnCommit(w)
  BY <1>2, SellCommitKeepsShifts, VoidCommitKeepsShifts, ReturnCommitKeepsShifts
<1>3. CASE AdjustFails(w)
  BY <1>3, AbortKeepsShifts DEF AdjustFails
<1>4. CASE OpenInsert(w) \/ CloseList(w) \/ CloseTotals(w)
  BY <1>4, OpenInsertKeepsShifts, CloseListKnows, CloseTotalsKnows
<1>5. CASE \E q \in Sale : CloseDiscard(w, q)
  BY <1>5, CloseDiscardKnows
<1>6. CASE CloseWrite(w) \/ CloseFails(w)
  BY <1>6, CloseWriteKeepsShifts, CloseFailsKeepsShifts
<1> QED
  BY <1>1, <1>2, <1>3, <1>4, <1>5, <1>6 DEF Step

LEMMA SerialNext ==
    ASSUME NEW w \in Worker, Worker = {w}, SerialTill(w), [Next]_vars
    PROVE  SerialTill(w)'
<1>1. TillInv'
  BY NextIsGood DEF GoodStep, TillInv, SerialTill
<1>2. ClosureIsExact' /\ JobKnows(w)'
  <2>1. CASE Request(w)
    BY <2>1, SerialRequest
  <2>2. CASE Step(w)
    BY <2>2, SerialStep
  <2>3. CASE DeadlockAbort(w) \/ Crash(w)
    BY <2>3, AbortKeepsShifts DEF DeadlockAbort, Crash
  <2>4. CASE UNCHANGED vars
    <3>1. UNCHANGED <<shift, closure, sale, job>>
      BY <2>4 DEF vars, deskVars
    <3>2. ClosureIsExact'
      BY <3>1, ShiftsStay DEF SerialTill
    <3>3. JobKnows(w)'
      BY <3>1 DEF SerialTill, JobKnows, At, CompletedSales
    <3> QED
      BY <3>2, <3>3
  <2> QED
    BY <2>1, <2>2, <2>3, <2>4 DEF Next
<1> QED
  BY <1>1, <1>2 DEF SerialTill

LEMMA SerialInit ==
    ASSUME NEW w \in Worker, Init
    PROVE  SerialTill(w)
<1>1. TillInv
  BY TillInitInv
<1>2. job[w].at = "idle"
  BY IdleType DEF Init
<1>3. JobKnows(w)
  BY <1>2 DEF JobKnows, At, Closing
<1>4. ClosureIsExact
  BY DEF Init, ClosureIsExact
<1> QED
  BY <1>1, <1>3, <1>4 DEF SerialTill

LEMMA SpecSerialTill ==
    ASSUME NEW w \in Worker, Worker = {w}
    PROVE  Spec => []SerialTill(w)
<1>1. Init => SerialTill(w)
  BY SerialInit
<1>2. SerialTill(w) /\ [Next]_vars => SerialTill(w)'
  BY SerialNext
<1> QED
  BY <1>1, <1>2, PTL DEF Spec

----------------------------------------------------------------------------
(* The closure of a shift counts exactly its completed sales, now and ever *)
(* after, if requests do not overlap: close_shift reads the sales and      *)
(* writes the closure in separate statements, and void_sale only reads the *)
(* status of the shift.                                                    *)
THEOREM SerialClosureIsExact ==
    ASSUME NEW w \in Worker, Worker = {w}
    PROVE  Spec => []ClosureIsExact
<1>1. SerialTill(w) => ClosureIsExact
  BY DEF SerialTill
<1> QED
  BY <1>1, SpecSerialTill, PTL
=============================================================================
