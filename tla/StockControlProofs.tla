------------------------- MODULE StockControlProofs -------------------------
(***************************************************************************)
(* Stock control keeps the audit chain, for any number of workers,         *)
(* variants and stock takes: it implements StockBook, and a stock-take     *)
(* correction is all or nothing.                                           *)
(*                                                                         *)
(* Movements become visible in one way, Commit; CommitKeepsBook is the     *)
(* argument for the book.  The inductive invariant adds OpenInv to the     *)
(* types and the chain: an approval whose transaction is open has drafted  *)
(* or still has to draft each discrepancy of its session, from the counts  *)
(* and the quantities that are there, because no one else can write.       *)
(***************************************************************************)
EXTENDS StockControl, StockBookProofs, FiniteSetTheorems

Drafted(w, v) ==
    /\ v \notin deleted
    /\ stock[v] + (counted[on[w]][v] - system[on[w]][v]) >= 0
    /\ draft[w][v] = Entry(stock[v], counted[on[w]][v] - system[on[w]][v],
                           "STOCK_TAKE_ADJUSTMENT", on[w])

OpenInv ==
    \A w \in Worker :
        /\ pc[w] # "post" => draft[w] = NoRows
        /\ pc[w] = "post" =>
            /\ \A u \in Worker : pc[u] = "post" => u = w
            /\ DOMAIN rows[w] \cup DOMAIN draft[w] = Discrepancies(on[w])
            /\ \A v \in DOMAIN rows[w] :
                  rows[w][v] = counted[on[w]][v] - system[on[w]][v]
            /\ \A v \in DOMAIN draft[w] : Drafted(w, v)

IInv == TypeOK /\ LedgerInv /\ OpenInv

(* Committing movements that continue from the quantities on hand keeps    *)
(* the book in order.                                                      *)
LEMMA CommitKeepsBook ==
    ASSUME BookTypeOK, LedgerInv,
           NEW moves, DOMAIN moves \subseteq Variant,
           \A v \in DOMAIN moves :
              /\ v \notin deleted /\ moves[v] \in Movement
              /\ moves[v].before = stock[v]
              /\ moves[v].after = moves[v].before + moves[v].delta,
           Commit(moves)
    PROVE  BookTypeOK' /\ LedgerInv' /\ Post
<1> USE StockBookAssumption
<1>1. ASSUME NEW v \in Variant
      PROVE  /\ stock'[v] \in Nat
             /\ ledger'[v] \in Seq(Movement)
             /\ Chained(ledger'[v], InitialStock[v])
             /\ stock'[v] = EndOf(ledger'[v], InitialStock[v])
             /\ Len(ledger[v]) <= Len(ledger'[v])
             /\ SubSeq(ledger'[v], 1, Len(ledger[v])) = ledger[v]
             /\ v \in deleted => ledger'[v] = ledger[v]
  <2>0. /\ stock[v] \in Nat /\ ledger[v] \in Seq(Movement)
        /\ InitialStock[v] \in Nat
        /\ Chained(ledger[v], InitialStock[v])
        /\ stock[v] = EndOf(ledger[v], InitialStock[v])
    BY DEF BookTypeOK, LedgerInv
  <2>1. CASE v \in DOMAIN moves
    <3>1. PICK m \in Movement : m = moves[v]
      BY <2>1
    <3>2. /\ v \notin deleted /\ m.before = stock[v]
          /\ m.after = m.before + m.delta /\ m.after \in Nat
      BY <2>1, <3>1 DEF Movement
    <3>3. stock'[v] = m.after /\ ledger'[v] = Append(ledger[v], m)
      BY <2>1, <3>1 DEF Commit
    <3>4. /\ Chained(Append(ledger[v], m), InitialStock[v])
          /\ EndOf(Append(ledger[v], m), InitialStock[v]) = m.after
      BY <2>0, <3>2, ChainAppend
    <3>5. /\ Len(ledger[v]) <= Len(Append(ledger[v], m))
          /\ SubSeq(Append(ledger[v], m), 1, Len(ledger[v])) = ledger[v]
      BY <2>0, PrefixOfAppend
    <3> QED
      BY <2>0, <3>2, <3>3, <3>4, <3>5
  <2>2. CASE v \notin DOMAIN moves
    <3>1. stock'[v] = stock[v] /\ ledger'[v] = ledger[v]
      BY <2>2 DEF Commit
    <3> QED
      BY <2>0, <3>1
  <2> QED
    BY <2>1, <2>2
<1>2. /\ deleted' = deleted
      /\ stock' = [v \in Variant |-> stock'[v]]
      /\ ledger' = [v \in Variant |-> ledger'[v]]
  BY DEF Commit
<1>3. BookTypeOK'
  BY <1>1, <1>2 DEF BookTypeOK
<1>4. LedgerInv'
  BY <1>1 DEF LedgerInv
<1>5. Post
  BY <1>1, <1>2 DEF Post
<1> QED
  BY <1>3, <1>4, <1>5

LEMMA AdjustKeepsBook ==
    ASSUME BookTypeOK, LedgerInv, NEW v \in Variant, NEW d \in Int,
           AdjustStock(v, d)
    PROVE  BookTypeOK' /\ LedgerInv' /\ Post
<1> DEFINE new == Entry(stock[v], d, "MANUAL_ADJUSTMENT", NoRef)
           moves == [x \in {v} |-> new]
<1>1. stock[v] \in Nat /\ v \notin deleted /\ stock[v] + d >= 0
  BY DEF BookTypeOK, AdjustStock, CanAdjust
<1>2. new \in Movement
  BY <1>1, EntryType DEF Reason
<1>3. new.before = stock[v] /\ new.delta = d /\ new.after = stock[v] + d
  BY <1>1, EntryFields
<1>4. Commit(moves)
  BY DEF AdjustStock
<1>5. DOMAIN moves = {v} /\ moves[v] = new
  OBVIOUS
<1> HIDE DEF new, moves
<1> QED
  BY <1>1, <1>2, <1>3, <1>4, <1>5, CommitKeepsBook

(* The discrepancies of a session are integers, one per discrepant item.   *)
LEMMA DiscrepancyType ==
    ASSUME TakeTypeOK, NEW s \in Session
    PROVE  /\ DOMAIN Discrepancy(s) = Discrepancies(s)
           /\ Discrepancies(s) \subseteq Variant
           /\ \A v \in Discrepancies(s) :
                 /\ Discrepancy(s)[v] = counted[s][v] - system[s][v]
                 /\ Discrepancy(s)[v] \in Int
<1>1. ASSUME NEW v \in Discrepancies(s)
      PROVE  counted[s][v] - system[s][v] \in Int
  <2>1. v \in Variant /\ counted[s][v] # Null /\ system[s][v] # Null
    BY DEF Discrepancies, Items, Uncounted
  <2>2. counted[s][v] \in Nat /\ system[s][v] \in Nat
    BY <2>1 DEF TakeTypeOK, Quantity
  <2> QED
    BY <2>2
<1> QED
  BY <1>1 DEF Discrepancy, Discrepancies, Items

(* What an approval has drafted when nothing remains: the movement of each *)
(* discrepancy of its session, from the quantity on hand.                  *)
LEMMA DraftIsWhole ==
    ASSUME IInv, NEW w \in Worker, pc[w] = "post", DOMAIN rows[w] = {},
           NEW s \in Session, s = on[w]
    PROVE  /\ DOMAIN draft[w] = Discrepancies(s)
           /\ Discrepancies(s) \subseteq Variant
           /\ \A v \in Discrepancies(s) :
                 /\ v \notin deleted /\ draft[w][v] \in Movement
                 /\ draft[w][v].before = stock[v]
                 /\ draft[w][v].delta = counted[s][v] - system[s][v]
                 /\ draft[w][v].after =
                       draft[w][v].before + draft[w][v].delta
                 /\ draft[w][v].ref = s
<1>1. DOMAIN draft[w] = Discrepancies(s)
  BY DEF IInv, OpenInv
<1>2. ASSUME NEW v \in Discrepancies(s)
      PROVE  /\ v \notin deleted /\ draft[w][v] \in Movement
             /\ draft[w][v].before = stock[v]
             /\ draft[w][v].delta = counted[s][v] - system[s][v]
             /\ draft[w][v].after = draft[w][v].before + draft[w][v].delta
             /\ draft[w][v].ref = s
  <2> DEFINE d == counted[s][v] - system[s][v]
  <2>1. d \in Int /\ v \in Variant
    BY DiscrepancyType DEF IInv, TypeOK
  <2>2. /\ v \notin deleted /\ stock[v] + d >= 0
        /\ draft[w][v] = Entry(stock[v], d, "STOCK_TAKE_ADJUSTMENT", s)
    BY <1>1 DEF IInv, OpenInv, Drafted
  <2>3. stock[v] \in Nat
    BY <2>1 DEF IInv, TypeOK, BookTypeOK
  <2> HIDE DEF d
  <2>4. /\ draft[w][v].before = stock[v]
        /\ draft[w][v].delta = d
        /\ draft[w][v].after = stock[v] + d
    BY <2>1, <2>2, <2>3, EntryFields
  <2>5. draft[w][v].ref = s
    BY <2>2 DEF Entry, Routed
  <2>6. draft[w][v] \in Movement
    <3>1. "STOCK_TAKE_ADJUSTMENT" \in Reason /\ s \in Ref \cup {NoRef}
      BY StockControlAssumption DEF Reason
    <3> QED
      BY <2>1, <2>2, <2>3, <3>1, EntryType
  <2> QED
    BY <2>2, <2>4, <2>5, <2>6 DEF d
<1> QED
  BY <1>1, <1>2, DiscrepancyType DEF IInv, TypeOK

LEMMA ApprovalKeepsBook ==
    ASSUME IInv, NEW w \in Worker, CommitApproval(w)
    PROVE  BookTypeOK' /\ LedgerInv' /\ Post
<1>1. PICK s \in Session : s = on[w]
  BY DEF CommitApproval, IInv, TypeOK, WorkerTypeOK, SessionLabel
<1> DEFINE moves == draft[w]
<1>2. /\ DOMAIN moves \subseteq Variant
      /\ \A v \in DOMAIN moves :
            /\ v \notin deleted /\ moves[v] \in Movement
            /\ moves[v].before = stock[v]
            /\ moves[v].after = moves[v].before + moves[v].delta
  BY <1>1, DraftIsWhole DEF CommitApproval
<1>3. Commit(moves)
  BY DEF CommitApproval
<1> HIDE DEF moves
<1> QED
  BY <1>2, <1>3, CommitKeepsBook DEF IInv, TypeOK

----------------------------------------------------------------------------
(* Types of the workers' part *)

Values(label) == IF label = "post" THEN Int ELSE Quantity

LEMMA GotoType ==
    ASSUME WorkerTypeOK, NEW w \in Worker, NEW label \in Label,
           NEW s \in Session \cup {NoRef}, label \in SessionLabel => s \in Session,
           NEW values, DOMAIN values \subseteq Variant,
           values \in [DOMAIN values -> Values(label)],
           Goto(w, label, s, values)
    PROVE  WorkerTypeOK'
<1>1. /\ pc' \in [Worker -> Label]
      /\ on' \in [Worker -> Session \cup {NoRef}]
      /\ DOMAIN rows' = Worker
      /\ todo' = todo /\ draft' = draft
  BY DEF WorkerTypeOK, Goto
<1>2. ASSUME NEW x \in Worker
      PROVE  /\ DOMAIN rows'[x] \subseteq Variant
             /\ rows'[x] \in [DOMAIN rows'[x] -> Values(pc'[x])]
             /\ pc'[x] \in SessionLabel => on'[x] \in Session
  <2>1. CASE x = w
    <3>1. rows'[x] = values /\ pc'[x] = label /\ on'[x] = s
      BY <2>1 DEF WorkerTypeOK, Goto
    <3> QED
      BY <3>1
  <2>2. CASE x # w
    <3>1. rows'[x] = rows[x] /\ pc'[x] = pc[x] /\ on'[x] = on[x]
      BY <2>2 DEF WorkerTypeOK, Goto
    <3> QED
      BY <3>1 DEF WorkerTypeOK, Values
  <2> QED
    BY <2>1, <2>2
<1> QED
  BY <1>1, <1>2 DEF WorkerTypeOK, Values

LEMMA NoRowsType ==
    /\ DOMAIN NoRows = {}
    /\ \A S : NoRows \in [DOMAIN NoRows -> S]
    /\ \A label : NoRows \in [DOMAIN NoRows -> Values(label)]
BY DEF NoRows

LEMMA RespondType ==
    ASSUME WorkerTypeOK, NEW w \in Worker, Respond(w)
    PROVE  WorkerTypeOK'
<1>1. /\ pc' \in [Worker -> Label]
      /\ on' \in [Worker -> Session \cup {NoRef}]
      /\ DOMAIN rows' = Worker /\ DOMAIN draft' = Worker
      /\ todo' \in [Worker -> Seq(Adjustment)]
  BY DEF WorkerTypeOK, Respond, Label
<1>2. ASSUME NEW x \in Worker
      PROVE  /\ DOMAIN rows'[x] \subseteq Variant
             /\ rows'[x] \in [DOMAIN rows'[x] -> Values(pc'[x])]
             /\ DOMAIN draft'[x] \subseteq Variant
             /\ draft'[x] \in [DOMAIN draft'[x] -> Movement]
             /\ pc'[x] \in SessionLabel => on'[x] \in Session
  <2>1. CASE x = w
    <3>1. rows'[x] = NoRows /\ pc'[x] = "idle" /\ draft'[x] = NoRows
      BY <2>1 DEF WorkerTypeOK, Respond
    <3> QED
      BY <3>1, NoRowsType DEF SessionLabel
  <2>2. CASE x # w
    <3>1. /\ rows'[x] = rows[x] /\ pc'[x] = pc[x] /\ on'[x] = on[x]
          /\ draft'[x] = draft[x]
      BY <2>2 DEF WorkerTypeOK, Respond
    <3> QED
      BY <3>1 DEF WorkerTypeOK, Values
  <2> QED
    BY <2>1, <2>2
<1> QED
  BY <1>1, <1>2 DEF WorkerTypeOK, Values

(* Writing typed rows over a typed table leaves a typed table. *)
LEMMA OverwriteType ==
    ASSUME NEW f, f \in [DOMAIN f -> Quantity],
           NEW table \in [Variant -> Quantity]
    PROVE  Overwrite(f, table) \in [Variant -> Quantity]
BY DEF Overwrite

(* Drafting one movement keeps the types. *)
LEMMA PostType ==
    ASSUME IInv, NEW w \in Worker, NEW v, PostCorrection(w, v)
    PROVE  WorkerTypeOK'
<1>1. WorkerTypeOK /\ on[w] \in Session /\ v \in Variant /\ rows[w][v] \in Int
  BY DEF PostCorrection, IInv, TypeOK, WorkerTypeOK, SessionLabel
<1>2. Correction(w, v) \in Movement
  <2>1. stock[v] \in Nat /\ stock[v] + rows[w][v] >= 0
    BY <1>1 DEF PostCorrection, CanCorrect, CanAdjust, IInv, TypeOK, BookTypeOK
  <2>2. "STOCK_TAKE_ADJUSTMENT" \in Reason /\ on[w] \in Ref \cup {NoRef}
    BY <1>1, StockControlAssumption DEF Reason
  <2> QED
    BY <1>1, <2>1, <2>2, EntryType DEF Correction
<1> DEFINE more == [x \in DOMAIN draft[w] \cup {v} |->
                      IF x = v THEN Correction(w, v) ELSE draft[w][x]]
<1>3. /\ DOMAIN draft' = Worker /\ draft'[w] = more
      /\ \A x \in Worker : x # w => draft'[x] = draft[x]
  BY <1>1 DEF PostCorrection, WorkerTypeOK
<1>4. DOMAIN more \subseteq Variant /\ more \in [DOMAIN more -> Movement]
  BY <1>1, <1>2 DEF WorkerTypeOK
<1>5. /\ DOMAIN rows' = Worker /\ rows'[w] = Remaining(w, v)
      /\ \A x \in Worker : x # w => rows'[x] = rows[x]
  BY <1>1 DEF PostCorrection, WorkerTypeOK
<1>6. /\ DOMAIN Remaining(w, v) \subseteq Variant
      /\ Remaining(w, v) \in [DOMAIN Remaining(w, v) -> Int]
  BY <1>1 DEF Remaining, WorkerTypeOK, PostCorrection
<1>7. UNCHANGED <<pc, on, todo>> /\ pc[w] = "post"
  BY DEF PostCorrection
<1> HIDE DEF more
<1>8. ASSUME NEW x \in Worker
      PROVE  /\ DOMAIN rows'[x] \subseteq Variant
             /\ rows'[x] \in [DOMAIN rows'[x] -> Values(pc'[x])]
             /\ DOMAIN draft'[x] \subseteq Variant
             /\ draft'[x] \in [DOMAIN draft'[x] -> Movement]
  <2>1. CASE x = w
    BY <1>3, <1>4, <1>5, <1>6, <1>7, <2>1 DEF Values
  <2>2. CASE x # w
    BY <1>1, <1>3, <1>5, <1>7, <2>2 DEF WorkerTypeOK, Values
  <2> QED
    BY <2>1, <2>2
<1> QED
  BY <1>1, <1>3, <1>5, <1>7, <1>8 DEF WorkerTypeOK, Values

----------------------------------------------------------------------------
(* The invariant is inductive, and every step is a step of the book *)

LEMMA InitInv == Init => IInv
<1> SUFFICES ASSUME Init PROVE IInv
  OBVIOUS
<1>1. BookTypeOK
  BY StockBookAssumption DEF Init, BookInit, BookTypeOK
<1>2. TakeTypeOK
  BY DEF Init, TakeTypeOK, Status, Quantity
<1>3. WorkerTypeOK
  <2>1. todo \in [Worker -> Seq(Adjustment)] /\ on \in [Worker -> Session \cup {NoRef}]
    BY DEF Init
  <2>2. DOMAIN rows = Worker /\ pc \in [Worker -> Label]
    BY DEF Init, Label
  <2>3. /\ DOMAIN draft = Worker
        /\ \A w \in Worker : /\ rows[w] = NoRows /\ draft[w] = NoRows
                              /\ pc[w] \notin SessionLabel /\ pc[w] # "post"
    BY DEF Init, SessionLabel
  <2> QED
    BY <2>1, <2>2, <2>3, NoRowsType DEF WorkerTypeOK
<1>4. LedgerInv
  BY StockBookAssumption, ChainEmpty DEF Init, BookInit, LedgerInv
<1>5. OpenInv
  BY DEF Init, OpenInv
<1> QED
  BY <1>1, <1>2, <1>3, <1>4, <1>5 DEF IInv, TypeOK

(* The one-step requests and the first statements of the others.           *)
LEMMA RequestStep ==
    ASSUME IInv, NEW w \in Worker, Request(w)
    PROVE  TypeOK' /\ LedgerInv' /\ [BookNext]_bookVars
<1> USE DEF IInv, TypeOK
<1>1. ASSUME NEW v \in Variant, NEW d \in Deltas, Adjust(w, v, d)
      PROVE  TypeOK' /\ LedgerInv' /\ [BookNext]_bookVars
  <2>1. d \in Int
    BY StockControlAssumption
  <2>2. BookTypeOK' /\ LedgerInv' /\ Post
    BY <1>1, <2>1, AdjustKeepsBook DEF Adjust
  <2>3. TakeTypeOK' /\ WorkerTypeOK'
    BY <1>1 DEF Adjust, takeVars, workerVars, TakeTypeOK, WorkerTypeOK
  <2> QED
    BY <2>2, <2>3 DEF BookNext
<1>2. ASSUME NEW v \in Variant, DeleteVariant(w, v)
      PROVE  TypeOK' /\ LedgerInv' /\ [BookNext]_bookVars
  <2>1. BookTypeOK' /\ LedgerInv'
    BY <1>2 DEF DeleteVariant, BookTypeOK, LedgerInv
  <2>2. TakeTypeOK' /\ WorkerTypeOK'
    BY <1>2 DEF DeleteVariant, takeVars, workerVars, TakeTypeOK, WorkerTypeOK
  <2>3. Retire
    BY <1>2 DEF DeleteVariant, Retire
  <2> QED
    BY <2>1, <2>2, <2>3 DEF BookNext
<1>3. ASSUME NEW v \in Variant, ReadVariant(w, v)
      PROVE  TypeOK' /\ LedgerInv' /\ [BookNext]_bookVars
  <2> DEFINE f == [x \in {v} |-> stock[v]]
  <2>1. DOMAIN f \subseteq Variant /\ f \in [DOMAIN f -> Values("edit")]
    BY DEF BookTypeOK, Quantity, Values
  <2>2. Goto(w, "edit", NoRef, f)
    BY <1>3 DEF ReadVariant
  <2> HIDE DEF f
  <2>3. "edit" \in Label /\ "edit" \notin SessionLabel
    BY DEF Label, SessionLabel
  <2>4. WorkerTypeOK'
    BY <2>1, <2>2, <2>3, GotoType
  <2> QED
    BY <1>3, <2>4 DEF ReadVariant, bookVars, takeVars, BookTypeOK, LedgerInv, TakeTypeOK
<1>4. ASSUME NEW batch \in Batches, BulkStart(w, batch)
      PROVE  TypeOK' /\ LedgerInv' /\ [BookNext]_bookVars
  <2>1. batch \in Seq(Adjustment)
    BY StockControlAssumption
  <2>2. WorkerTypeOK'
    BY <1>4, <2>1 DEF BulkStart, WorkerTypeOK, Label, SessionLabel
  <2> QED
    BY <1>4, <2>2 DEF BulkStart, bookVars, takeVars, BookTypeOK, LedgerInv, TakeTypeOK
<1>5. CASE StartTake(w)
  <2>1. "create" \in Label /\ "create" \notin SessionLabel
    BY DEF Label, SessionLabel
  <2>2. WorkerTypeOK'
    BY <1>5, <2>1, GotoType, NoRowsType DEF StartTake
  <2> QED
    BY <1>5, <2>2 DEF StartTake, bookVars, takeVars, BookTypeOK, LedgerInv, TakeTypeOK
<1>6. ASSUME NEW s \in Session, NEW v \in Variant, NEW q \in 0..MaxCount \cup {Null},
             ReadItem(w, s, v, q)
      PROVE  TypeOK' /\ LedgerInv' /\ [BookNext]_bookVars
  <2> DEFINE f == [x \in {v} |-> q]
  <2>1. DOMAIN f \subseteq Variant /\ f \in [DOMAIN f -> Values("count")]
    BY StockControlAssumption DEF Quantity, Values
  <2>2. Goto(w, "count", s, f)
    BY <1>6 DEF ReadItem
  <2> HIDE DEF f
  <2>3. "count" \in Label
    BY DEF Label
  <2>4. WorkerTypeOK'
    BY <2>1, <2>2, <2>3, GotoType
  <2> QED
    BY <1>6, <2>4 DEF ReadItem, bookVars, takeVars, BookTypeOK, LedgerInv, TakeTypeOK
<1>7. ASSUME NEW s \in Session, Complete(w, s) \/ ReadForApproval(w, s) \/ ReadForRejection(w, s)
      PROVE  TypeOK' /\ LedgerInv' /\ [BookNext]_bookVars
  <2>1. {"list", "apply", "reject"} \subseteq Label
    BY DEF Label
  <2>2. WorkerTypeOK'
    BY <1>7, <2>1, GotoType, NoRowsType DEF Complete, ReadForApproval, ReadForRejection
  <2> QED
    BY <1>7, <2>2
    DEF Complete, ReadForApproval, ReadForRejection,
        bookVars, takeVars, BookTypeOK, LedgerInv, TakeTypeOK
<1> QED
  BY <1>1, <1>2, <1>3, <1>4, <1>5, <1>6, <1>7 DEF Request

(* The later statements of a request, and its death.                       *)
LEMMA LaterStep ==
    ASSUME IInv, NEW w \in Worker, Step(w) \/ Crash(w)
    PROVE  TypeOK' /\ LedgerInv' /\ [BookNext]_bookVars
<1> USE DEF IInv, TypeOK
<1>1. CASE SaveVariant(w) \/ BulkEnd(w) \/ ApprovalRefused(w) \/ Crash(w)
  <2>1. Respond(w) /\ UNCHANGED <<bookVars, takeVars>>
    BY <1>1 DEF SaveVariant, BulkEnd, ApprovalRefused, Crash
  <2>2. WorkerTypeOK'
    BY <2>1, RespondType
  <2> QED
    BY <2>1, <2>2 DEF bookVars, takeVars, BookTypeOK, LedgerInv, TakeTypeOK
<1>2. CASE BulkLine(w)
  <2> DEFINE line == Head(todo[w])
  <2>1. line \in Adjustment /\ Tail(todo[w]) \in Seq(Adjustment)
    BY <1>2 DEF BulkLine, WorkerTypeOK
  <2>2. line.variant \in Variant /\ line.delta \in Int
    BY <2>1 DEF Adjustment
  <2>3. BookTypeOK' /\ LedgerInv' /\ Post
    BY <1>2, <2>2, AdjustKeepsBook DEF BulkLine
  <2>4. TakeTypeOK'
    BY <1>2 DEF BulkLine, takeVars, TakeTypeOK
  <2>5. WorkerTypeOK'
    BY <1>2, <2>1 DEF BulkLine, WorkerTypeOK
  <2> QED
    BY <2>3, <2>4, <2>5 DEF BookNext
<1>3. ASSUME NEW s \in Session, CreateSession(w, s)
      PROVE  TypeOK' /\ LedgerInv' /\ [BookNext]_bookVars
  <2>1. "snapshot" \in Label
    BY DEF Label
  <2>2. WorkerTypeOK'
    BY <1>3, <2>1, GotoType, NoRowsType DEF CreateSession
  <2>3. TakeTypeOK'
    BY <1>3 DEF CreateSession, TakeTypeOK, Status
  <2> QED
    BY <1>3, <2>2, <2>3 DEF CreateSession, bookVars, BookTypeOK, LedgerInv
<1>4. ASSUME NEW scope \in Scopes, SnapshotVariants(w, scope)
      PROVE  TypeOK' /\ LedgerInv' /\ [BookNext]_bookVars
  <2> DEFINE f == [v \in scope \ deleted |-> stock[v]]
  <2>1. DOMAIN f \subseteq Variant /\ f \in [DOMAIN f -> Values("populate")]
    BY StockControlAssumption DEF BookTypeOK, Quantity, Values
  <2>2. Goto(w, "populate", on[w], f)
    BY <1>4 DEF SnapshotVariants
  <2> HIDE DEF f
  <2>3. "populate" \in Label /\ on[w] \in Session
    BY <1>4 DEF SnapshotVariants, Label, SessionLabel, WorkerTypeOK
  <2>4. WorkerTypeOK'
    BY <2>1, <2>2, <2>3, GotoType
  <2> QED
    BY <1>4, <2>4 DEF SnapshotVariants, bookVars, takeVars, BookTypeOK, LedgerInv, TakeTypeOK
<1>5. CASE PopulateItems(w)
  <2>1. on[w] \in Session /\ rows[w] \in [DOMAIN rows[w] -> Quantity]
    BY <1>5 DEF PopulateItems, WorkerTypeOK, SessionLabel
  <2>2. Overwrite(rows[w], system[on[w]]) \in [Variant -> Quantity]
    BY <2>1, OverwriteType DEF TakeTypeOK
  <2>3. TakeTypeOK'
    BY <1>5, <2>1, <2>2 DEF PopulateItems, TakeTypeOK
  <2>4. WorkerTypeOK'
    BY <1>5, RespondType DEF PopulateItems
  <2> QED
    BY <1>5, <2>3, <2>4 DEF PopulateItems, bookVars, BookTypeOK, LedgerInv
<1>6. CASE SaveCount(w) \/ FillUncounted(w)
  <2>1. on[w] \in Session /\ rows[w] \in [DOMAIN rows[w] -> Quantity]
    BY <1>6 DEF SaveCount, FillUncounted, WorkerTypeOK, SessionLabel
  <2>2. Overwrite(rows[w], counted[on[w]]) \in [Variant -> Quantity]
    BY <2>1, OverwriteType DEF TakeTypeOK
  <2>3. TakeTypeOK'
    BY <1>6, <2>1, <2>2 DEF SaveCount, FillUncounted, TakeTypeOK
  <2>4. CASE SaveCount(w)
    <3>1. WorkerTypeOK'
      BY <2>4, RespondType DEF SaveCount
    <3> QED
      BY <2>3, <2>4, <3>1 DEF SaveCount, bookVars, BookTypeOK, LedgerInv
  <2>5. CASE FillUncounted(w)
    <3>1. "submit" \in Label
      BY DEF Label
    <3>2. WorkerTypeOK'
      BY <2>1, <2>5, <3>1, GotoType, NoRowsType DEF FillUncounted
    <3> QED
      BY <2>3, <2>5, <3>2 DEF FillUncounted, bookVars, BookTypeOK, LedgerInv
  <2> QED
    BY <1>6, <2>4, <2>5
<1>7. CASE ListUncounted(w)
  <2>1. on[w] \in Session /\ "fill" \in Label
    BY <1>7 DEF ListUncounted, WorkerTypeOK, SessionLabel, Label
  <2> DEFINE f == [v \in Uncounted(on[w]) |-> system[on[w]][v]]
  <2>2. DOMAIN f \subseteq Variant /\ f \in [DOMAIN f -> Values("fill")]
    BY <2>1 DEF TakeTypeOK, Uncounted, Items, Values
  <2>3. Goto(w, "fill", on[w], f)
    BY <1>7 DEF ListUncounted
  <2> HIDE DEF f
  <2>4. WorkerTypeOK'
    BY <2>1, <2>2, <2>3, GotoType
  <2> QED
    BY <1>7, <2>4 DEF ListUncounted, bookVars, takeVars, BookTypeOK, LedgerInv, TakeTypeOK
<1>8. CASE Submit(w) \/ Reject(w)
  <2>1. TakeTypeOK'
    BY <1>8 DEF Submit, Reject, TakeTypeOK, Status
  <2>2. WorkerTypeOK'
    BY <1>8, RespondType DEF Submit, Reject
  <2> QED
    BY <1>8, <2>1, <2>2 DEF Submit, Reject, bookVars, BookTypeOK, LedgerInv
<1>9. CASE BeginApproval(w)
  <2>1. on[w] \in Session /\ "post" \in Label
    BY <1>9 DEF BeginApproval, WorkerTypeOK, SessionLabel, Label
  <2> DEFINE f == Discrepancy(on[w])
  <2>2. DOMAIN f \subseteq Variant /\ f \in [DOMAIN f -> Values("post")]
    <3>1. /\ DOMAIN f = Discrepancies(on[w])
          /\ Discrepancies(on[w]) \subseteq Variant
          /\ \A v \in Discrepancies(on[w]) : f[v] \in Int
      BY <2>1, DiscrepancyType
    <3>2. f = [v \in Discrepancies(on[w]) |-> counted[on[w]][v] - system[on[w]][v]]
      BY DEF Discrepancy
    <3> QED
      BY <3>1, <3>2 DEF Values
  <2>3. Goto(w, "post", on[w], f)
    BY <1>9 DEF BeginApproval
  <2> HIDE DEF f
  <2>4. WorkerTypeOK'
    BY <2>1, <2>2, <2>3, GotoType
  <2> QED
    BY <1>9, <2>4 DEF BeginApproval, bookVars, takeVars, BookTypeOK, LedgerInv, TakeTypeOK
<1>10. ASSUME NEW v \in Variant, PostCorrection(w, v)
       PROVE  TypeOK' /\ LedgerInv' /\ [BookNext]_bookVars
  <2>1. WorkerTypeOK'
    BY <1>10, PostType
  <2> QED
    BY <1>10, <2>1 DEF PostCorrection, bookVars, takeVars, BookTypeOK, LedgerInv, TakeTypeOK
<1>11. CASE CommitApproval(w)
  <2>1. on[w] \in Session
    BY <1>11 DEF CommitApproval, WorkerTypeOK, SessionLabel
  <2>2. BookTypeOK' /\ LedgerInv' /\ Post
    BY <1>11, ApprovalKeepsBook
  <2>3. TakeTypeOK'
    BY <1>11 DEF CommitApproval, TakeTypeOK, Status
  <2>4. WorkerTypeOK'
    BY <1>11, RespondType DEF CommitApproval
  <2> QED
    BY <2>2, <2>3, <2>4 DEF BookNext
<1> QED
  BY <1>1, <1>2, <1>3, <1>4, <1>5, <1>6, <1>7, <1>8, <1>9, <1>10, <1>11 DEF Step

----------------------------------------------------------------------------
(* The open transaction: whoever has it is the only one who can write, so  *)
(* that what it has read and drafted stays current.                        *)

LEMMA GotoElse ==
    ASSUME WorkerTypeOK, NEW w \in Worker, NEW label, NEW s, NEW f,
           Goto(w, label, s, f)
    PROVE  /\ pc'[w] = label /\ on'[w] = s /\ rows'[w] = f
           /\ draft' = draft
           /\ \A x \in Worker : x # w =>
                 pc'[x] = pc[x] /\ on'[x] = on[x] /\ rows'[x] = rows[x]
BY DEF WorkerTypeOK, Goto

LEMMA RespondElse ==
    ASSUME WorkerTypeOK, NEW w \in Worker, Respond(w)
    PROVE  /\ pc'[w] = "idle" /\ draft'[w] = NoRows
           /\ \A x \in Worker : x # w =>
                 /\ pc'[x] = pc[x] /\ on'[x] = on[x] /\ rows'[x] = rows[x]
                 /\ draft'[x] = draft[x]
BY DEF WorkerTypeOK, Respond

(* A step of w that touches no table, and leaves w without a transaction.  *)
LEMMA LocalKeepsOpen ==
    ASSUME IInv, NEW w \in Worker, UNCHANGED <<bookVars, takeVars>>,
           pc'[w] # "post", draft'[w] = NoRows,
           \A x \in Worker : x # w =>
              /\ pc'[x] = pc[x] /\ on'[x] = on[x] /\ rows'[x] = rows[x]
              /\ draft'[x] = draft[x]
    PROVE  OpenInv'
<1>1. ASSUME NEW x \in Worker, pc'[x] # "post"
      PROVE  draft'[x] = NoRows
  BY <1>1 DEF IInv, OpenInv
<1>2. ASSUME NEW x \in Worker, pc'[x] = "post"
      PROVE  /\ \A u \in Worker : pc'[u] = "post" => u = x
             /\ DOMAIN rows'[x] \cup DOMAIN draft'[x] = Discrepancies(on[x])'
             /\ \A v \in DOMAIN rows'[x] :
                   rows'[x][v] = counted'[on'[x]][v] - system'[on'[x]][v]
             /\ \A v \in DOMAIN draft'[x] : Drafted(x, v)'
  <2>1. x # w /\ pc[x] = "post" /\ on'[x] = on[x]
    BY <1>2
  <2>2. Discrepancies(on[x])' = Discrepancies(on[x])
    BY <2>1 DEF Discrepancies, Items, Uncounted, takeVars
  <2>3. \A v \in DOMAIN draft[x] : Drafted(x, v)' <=> Drafted(x, v)
    BY <2>1 DEF Drafted, takeVars, bookVars
  <2> QED
    BY <2>1, <2>2, <2>3 DEF IInv, OpenInv, takeVars
<1> QED
  BY <1>1, <1>2 DEF OpenInv

(* A step that writes, and the end of the open transaction: nothing is open *)
(* afterwards.                                                             *)
LEMMA NoneOpen ==
    ASSUME \A x \in Worker : pc'[x] # "post" /\ draft'[x] = NoRows
    PROVE  OpenInv'
BY DEF OpenInv

LEMMA WriteKeepsOpen ==
    ASSUME IInv, NEW w \in Worker, Writable, pc'[w] # "post",
           draft'[w] = NoRows \/ draft'[w] = draft[w],
           \A x \in Worker : x # w =>
              pc'[x] = pc[x] /\ draft'[x] = draft[x]
    PROVE  OpenInv'
<1>1. \A x \in Worker : pc'[x] # "post" /\ draft'[x] = NoRows
  BY DEF Writable, IInv, OpenInv
<1> QED
  BY <1>1, NoneOpen

(* BEGIN: the discrepancies are read, and nothing is drafted yet. *)
LEMMA BeginKeepsOpen ==
    ASSUME IInv, NEW w \in Worker, BeginApproval(w)
    PROVE  OpenInv'
<1>1. PICK s \in Session : s = on[w]
  BY DEF BeginApproval, IInv, TypeOK, WorkerTypeOK, SessionLabel
<1>2. /\ pc'[w] = "post" /\ on'[w] = s /\ rows'[w] = Discrepancy(s)
      /\ draft' = draft /\ UNCHANGED <<bookVars, takeVars>>
      /\ \A x \in Worker : x # w => pc'[x] = pc[x]
  BY <1>1, GotoElse DEF BeginApproval, IInv, TypeOK
<1>3. \A x \in Worker : pc[x] # "post" /\ draft[x] = NoRows
  BY DEF BeginApproval, Writable, IInv, OpenInv
<1>4. Discrepancies(s)' = Discrepancies(s)
  BY <1>2 DEF Discrepancies, Items, Uncounted, takeVars
<1>5. /\ DOMAIN Discrepancy(s) = Discrepancies(s)
      /\ \A v \in Discrepancies(s) :
            Discrepancy(s)[v] = counted[s][v] - system[s][v]
  BY DiscrepancyType DEF IInv, TypeOK
<1>6. DOMAIN NoRows = {}
  BY NoRowsType
<1>7. ASSUME NEW x \in Worker, pc'[x] = "post"
      PROVE  /\ \A u \in Worker : pc'[u] = "post" => u = x
             /\ DOMAIN rows'[x] \cup DOMAIN draft'[x] = Discrepancies(on[x])'
             /\ \A v \in DOMAIN rows'[x] :
                   rows'[x][v] = counted'[on'[x]][v] - system'[on'[x]][v]
             /\ \A v \in DOMAIN draft'[x] : Drafted(x, v)'
  <2>1. x = w
    BY <1>2, <1>3, <1>7
  <2>2. Discrepancies(on[x])' = Discrepancies(s)'
    BY <1>2, <2>1 DEF Discrepancies, Items, Uncounted
  <2> QED
    BY <1>2, <1>3, <1>4, <1>5, <1>6, <2>1, <2>2 DEF takeVars
<1> QED
  BY <1>2, <1>3, <1>7 DEF OpenInv

(* One more discrepancy is drafted from the quantity on hand. *)
LEMMA PostKeepsOpen ==
    ASSUME IInv, NEW w \in Worker, NEW v, PostCorrection(w, v)
    PROVE  OpenInv'
<1>1. /\ pc[w] = "post" /\ v \in DOMAIN rows[w] /\ CanAdjust(v, rows[w][v])
      /\ UNCHANGED <<pc, on>> /\ UNCHANGED <<bookVars, takeVars>>
  BY DEF PostCorrection, CanCorrect
<1>2. /\ DOMAIN rows = Worker /\ DOMAIN draft = Worker
      /\ rows[w][v] = counted[on[w]][v] - system[on[w]][v]
  BY <1>1 DEF IInv, TypeOK, WorkerTypeOK, OpenInv
<1>3. /\ DOMAIN rows'[w] = DOMAIN rows[w] \ {v}
      /\ \A x \in DOMAIN rows'[w] : rows'[w][x] = rows[w][x]
      /\ \A x \in Worker : x # w => rows'[x] = rows[x]
  BY <1>2 DEF PostCorrection, Remaining
<1>4. /\ DOMAIN draft'[w] = DOMAIN draft[w] \cup {v}
      /\ draft'[w][v] = Correction(w, v)
      /\ \A x \in DOMAIN draft[w] : x # v => draft'[w][x] = draft[w][x]
      /\ \A x \in Worker : x # w => draft'[x] = draft[x]
  BY <1>2 DEF PostCorrection
<1>5. Discrepancies(on[w])' = Discrepancies(on[w])
  BY <1>1 DEF Discrepancies, Items, Uncounted, takeVars
<1>6. ASSUME NEW x \in DOMAIN draft'[w]
      PROVE  Drafted(w, x)'
  <2>1. CASE x = v
    BY <1>1, <1>2, <1>4, <2>1
       DEF Drafted, Correction, CanAdjust, takeVars, bookVars
  <2>2. CASE x # v
    <3>1. Drafted(w, x)
      BY <1>1, <1>4, <2>2 DEF IInv, OpenInv
    <3> QED
      BY <1>1, <1>4, <2>2, <3>1 DEF Drafted, takeVars, bookVars
  <2> QED
    BY <2>1, <2>2
<1>7. /\ \A u \in Worker : pc[u] = "post" => u = w
      /\ DOMAIN rows[w] \cup DOMAIN draft[w] = Discrepancies(on[w])
      /\ \A x \in DOMAIN rows[w] :
            rows[w][x] = counted[on[w]][x] - system[on[w]][x]
  BY <1>1 DEF IInv, OpenInv
<1>8. DOMAIN rows'[w] \cup DOMAIN draft'[w] = Discrepancies(on[w])'
  BY <1>1, <1>3, <1>4, <1>5, <1>7
<1>9. \A x \in Worker : x # w => pc'[x] # "post" /\ draft'[x] = NoRows
  BY <1>1, <1>4, <1>7 DEF IInv, OpenInv
<1>10. \A x \in DOMAIN rows'[w] :
          rows'[w][x] = counted'[on'[w]][x] - system'[on'[w]][x]
  BY <1>1, <1>3, <1>7 DEF takeVars
<1> QED
  BY <1>1, <1>6, <1>7, <1>8, <1>9, <1>10 DEF OpenInv

LEMMA OpenStep ==
    ASSUME IInv, NEW w \in Worker, Request(w) \/ Step(w) \/ Crash(w)
    PROVE  OpenInv'
<1>0. WorkerTypeOK /\ (pc[w] # "post" => draft[w] = NoRows)
  BY DEF IInv, TypeOK, OpenInv
<1>1. ASSUME NEW label, label # "post", NEW s, NEW f, Goto(w, label, s, f),
             pc[w] # "post", Writable \/ UNCHANGED <<bookVars, takeVars>>
      PROVE  OpenInv'
  <2>1. /\ pc'[w] # "post" /\ draft' = draft
        /\ \A x \in Worker : x # w =>
              pc'[x] = pc[x] /\ on'[x] = on[x] /\ rows'[x] = rows[x]
    BY <1>0, <1>1, GotoElse
  <2> QED
    BY <1>0, <1>1, <2>1, LocalKeepsOpen, WriteKeepsOpen
<1>2. ASSUME Respond(w), Writable \/ UNCHANGED <<bookVars, takeVars>>
      PROVE  OpenInv'
  <2>1. /\ pc'[w] # "post" /\ draft'[w] = NoRows
        /\ \A x \in Worker : x # w =>
              /\ pc'[x] = pc[x] /\ on'[x] = on[x] /\ rows'[x] = rows[x]
              /\ draft'[x] = draft[x]
    BY <1>0, <1>2, RespondElse
  <2> QED
    BY <1>2, <2>1, LocalKeepsOpen, WriteKeepsOpen
<1>3. ASSUME Writable, UNCHANGED <<pc, draft>>
      PROVE  OpenInv'
  <2>1. pc[w] # "post"
    BY <1>3 DEF Writable
  <2> QED
    BY <1>3, <2>1, WriteKeepsOpen
<1>4. CASE Request(w)
  <2>1. ASSUME NEW v \in Variant, NEW d \in Deltas, Adjust(w, v, d)
        PROVE  OpenInv'
    BY <1>3, <2>1 DEF Adjust, AdjustStock, workerVars
  <2>2. ASSUME NEW v \in Variant, DeleteVariant(w, v)
        PROVE  OpenInv'
    BY <1>3, <2>2 DEF DeleteVariant, workerVars
  <2>3. ASSUME NEW v \in Variant, ReadVariant(w, v)
        PROVE  OpenInv'
    BY <1>1, <2>3 DEF ReadVariant
  <2>4. ASSUME NEW batch \in Batches, BulkStart(w, batch)
        PROVE  OpenInv'
    <3>1. /\ pc[w] # "post" /\ draft' = draft /\ UNCHANGED <<bookVars, takeVars>>
          /\ pc'[w] # "post" /\ on' = on /\ rows' = rows
          /\ \A x \in Worker : x # w => pc'[x] = pc[x]
      BY <1>0, <2>4 DEF BulkStart, WorkerTypeOK
    <3> QED
      BY <1>0, <3>1, LocalKeepsOpen
  <2>5. CASE StartTake(w)
    BY <1>1, <2>5 DEF StartTake
  <2>6. ASSUME NEW s \in Session, NEW v \in Variant,
               NEW q \in 0..MaxCount \cup {Null}, ReadItem(w, s, v, q)
        PROVE  OpenInv'
    BY <1>1, <2>6 DEF ReadItem
  <2>7. ASSUME NEW s \in Session,
               Complete(w, s) \/ ReadForApproval(w, s) \/ ReadForRejection(w, s)
        PROVE  OpenInv'
    BY <1>1, <2>7 DEF Complete, ReadForApproval, ReadForRejection
  <2> QED
    BY <1>4, <2>1, <2>2, <2>3, <2>4, <2>5, <2>6, <2>7 DEF Request
<1>5. CASE SaveVariant(w) \/ PopulateItems(w) \/ SaveCount(w) \/ Submit(w)
           \/ Reject(w)
  <2>1. Respond(w) /\ Writable
    BY <1>5 DEF SaveVariant, PopulateItems, SaveCount, Submit, Reject
  <2> QED
    BY <1>2, <2>1
<1>6. CASE BulkEnd(w) \/ ApprovalRefused(w) \/ Crash(w)
  <2>1. Respond(w) /\ UNCHANGED <<bookVars, takeVars>>
    BY <1>6 DEF BulkEnd, ApprovalRefused, Crash
  <2> QED
    BY <1>2, <2>1
<1>7. CASE BulkLine(w)
  BY <1>3, <1>7 DEF BulkLine, AdjustStock
<1>8. ASSUME NEW s \in Session, CreateSession(w, s)
      PROVE  OpenInv'
  BY <1>1, <1>8 DEF CreateSession
<1>9. ASSUME NEW scope \in Scopes, SnapshotVariants(w, scope)
      PROVE  OpenInv'
  <2> DEFINE f == [v \in scope \ deleted |-> stock[v]]
  <2>1. Goto(w, "populate", on[w], f) /\ UNCHANGED <<bookVars, takeVars>>
        /\ pc[w] # "post"
    BY <1>9 DEF SnapshotVariants
  <2> HIDE DEF f
  <2> QED
    BY <1>1, <2>1
<1>10. CASE ListUncounted(w)
  <2> DEFINE f == [v \in Uncounted(on[w]) |-> system[on[w]][v]]
  <2>1. Goto(w, "fill", on[w], f) /\ UNCHANGED <<bookVars, takeVars>>
        /\ pc[w] # "post"
    BY <1>10 DEF ListUncounted
  <2> HIDE DEF f
  <2> QED
    BY <1>1, <2>1
<1>11. CASE FillUncounted(w)
  BY <1>1, <1>11 DEF FillUncounted
<1>12. CASE BeginApproval(w)
  BY <1>12, BeginKeepsOpen
<1>13. ASSUME NEW v \in Variant, PostCorrection(w, v)
       PROVE  OpenInv'
  BY <1>13, PostKeepsOpen
<1>14. CASE CommitApproval(w)
  <2>1. pc[w] = "post" /\ Respond(w)
    BY <1>14 DEF CommitApproval
  <2>2. \A x \in Worker : pc'[x] # "post" /\ draft'[x] = NoRows
    <3>1. /\ pc'[w] # "post" /\ draft'[w] = NoRows
          /\ \A x \in Worker : x # w => pc'[x] = pc[x] /\ draft'[x] = draft[x]
      BY <1>0, <2>1, RespondElse
    <3>2. \A x \in Worker : x # w => pc[x] # "post" /\ draft[x] = NoRows
      BY <2>1 DEF IInv, OpenInv
    <3> QED
      BY <3>1, <3>2
  <2> QED
    BY <2>2, NoneOpen
<1> QED
  BY <1>4, <1>5, <1>6, <1>7, <1>8, <1>9, <1>10, <1>11, <1>12, <1>13, <1>14
     DEF Step

LEMMA StepInv == IInv /\ [Next]_vars => IInv' /\ [BookNext]_bookVars
<1> SUFFICES ASSUME IInv, [Next]_vars PROVE IInv' /\ [BookNext]_bookVars
  OBVIOUS
<1>1. CASE Next
  BY <1>1, RequestStep, LaterStep, OpenStep DEF Next, IInv
<1>2. CASE UNCHANGED vars
  <2>1. BookTypeOK' /\ LedgerInv'
    BY <1>2 DEF vars, bookVars, IInv, TypeOK, BookTypeOK, LedgerInv
  <2>2. TakeTypeOK'
    BY <1>2 DEF vars, takeVars, IInv, TypeOK, TakeTypeOK
  <2>3. WorkerTypeOK'
    BY <1>2 DEF vars, workerVars, IInv, TypeOK, WorkerTypeOK
  <2>4. OpenInv'
    BY <1>2 DEF vars, bookVars, takeVars, workerVars, IInv, OpenInv, Drafted,
       Discrepancies, Items, Uncounted
  <2> QED
    BY <1>2, <2>1, <2>2, <2>3, <2>4 DEF IInv, TypeOK, vars
<1> QED
  BY <1>1, <1>2

----------------------------------------------------------------------------
(* Types hold, and no quantity on hand is ever negative, whatever requests *)
(* run (adjust_stock's refusal).                                           *)
THEOREM StockControlType == Spec => []TypeOK
<1>1. IInv => TypeOK
  BY DEF IInv
<1> QED
  BY <1>1, InitInv, StepInv, PTL DEF Spec

(* The audit log of every variant is an unbroken chain that ends at the    *)
(* quantity on hand, for any number of workers, variants and stock takes.  *)
THEOREM StockControlLedger == Spec => []LedgerInv
<1>1. IInv => LedgerInv
  BY DEF IInv
<1> QED
  BY <1>1, InitInv, StepInv, PTL DEF Spec

(* Stock control implements the abstract stock book: whatever a request    *)
(* does, it appends a legal chain of movements and never touches a deleted *)
(* variant.                                                                *)
THEOREM StockControlRefinesBook == Spec => BookSpec
<1>1. Init => BookInit
  BY DEF Init
<1> QED
  BY <1>1, InitInv, StepInv, PTL DEF Spec, BookSpec

----------------------------------------------------------------------------
(* Corrections are atomic *)

(* Movements that refer to something else do not count as posted for s.    *)
LEMMA PostedElsewhere ==
    ASSUME IInv, NEW s \in Session, NEW moves, Commit(moves), NEW v \in Variant,
           v \in DOMAIN moves => moves[v].ref # s
    PROVE  Posted(s, v)' = Posted(s, v)
<1> DEFINE new == moves[v]
<1>1. ledger[v] \in Seq(Movement)
  BY DEF IInv, TypeOK, BookTypeOK
<1>2. CASE v \in DOMAIN moves
  <2>1. ledger'[v] = Append(ledger[v], new) /\ new.ref # s
    BY <1>2 DEF Commit
  <2> HIDE DEF new
  <2>2. /\ Len(ledger'[v]) = Len(ledger[v]) + 1
        /\ ledger'[v][Len(ledger[v]) + 1] = new
        /\ \A i \in 1..Len(ledger[v]) : ledger'[v][i] = ledger[v][i]
    BY <1>1, <2>1
  <2>3. \A i \in 1..Len(ledger'[v]) :
           ledger'[v][i].ref = s <=> i \in 1..Len(ledger[v]) /\ ledger[v][i].ref = s
    BY <1>1, <2>1, <2>2
  <2>4. 1..Len(ledger[v]) \subseteq 1..Len(ledger'[v])
    BY <1>1, <2>2
  <2> QED
    BY <2>3, <2>4 DEF Posted
<1>3. CASE v \notin DOMAIN moves
  BY <1>3 DEF Commit, Posted
<1> QED
  BY <1>2, <1>3

LEMMA NotPosted ==
    ASSUME NEW s \in Session, ledger' = ledger
    PROVE  ~PostsForSession(s)
BY DEF PostsForSession, Posted

(* An approval posts for its own session only, and all of it.              *)
LEMMA ApproveIsAtomic ==
    ASSUME IInv, NEW w \in Worker, CommitApproval(w), NEW s \in Session,
           PostsForSession(s)
    PROVE  AppliesSession(s)
<1>1. PICK t \in Session : t = on[w]
  BY DEF CommitApproval, IInv, TypeOK, WorkerTypeOK, SessionLabel
<1> DEFINE moves == draft[w]
<1>2. /\ DOMAIN moves = Discrepancies(t)
      /\ \A v \in Discrepancies(t) :
            /\ moves[v].before = stock[v]
            /\ moves[v].delta = counted[t][v] - system[t][v]
            /\ moves[v].after = moves[v].before + moves[v].delta
            /\ moves[v].ref = t
  BY <1>1, DraftIsWhole DEF CommitApproval
<1>3. Commit(moves)
  BY DEF CommitApproval
<1> HIDE DEF moves
<1>4. s = t
  <2>1. ASSUME s # t PROVE FALSE
    <3>1. \A v \in Variant : Posted(s, v)' = Posted(s, v)
      BY <1>2, <1>3, <2>1, PostedElsewhere
    <3> QED
      BY <3>1 DEF PostsForSession
  <2> QED
    BY <2>1
<1>5. status'[s] = "APPROVED"
  BY <1>1, <1>4 DEF CommitApproval, IInv, TypeOK, TakeTypeOK
<1>6. \A v \in Discrepancies(s) :
         /\ Discrepancy(s)[v] = counted[s][v] - system[s][v]
         /\ Discrepancy(s)[v] \in Int
  BY DiscrepancyType DEF IInv, TypeOK
<1>7. ASSUME NEW v \in Variant
      PROVE  stock'[v] - stock[v] =
                IF v \in Discrepancies(s) THEN Discrepancy(s)[v] ELSE 0
  <2>1. stock[v] \in Nat
    BY DEF IInv, TypeOK, BookTypeOK
  <2>2. stock'[v] = IF v \in Discrepancies(s)
                    THEN stock[v] + Discrepancy(s)[v] ELSE stock[v]
    BY <1>2, <1>3, <1>4, <1>6 DEF Commit
  <2> QED
    BY <1>6, <2>1, <2>2
<1> QED
  BY <1>5, <1>7 DEF AppliesSession

(* A manual adjustment refers to no session.                               *)
LEMMA ManualRef ==
    ASSUME NEW v, NEW d, AdjustStock(v, d), NEW s \in Session
    PROVE  \E moves : Commit(moves) /\ \A x \in DOMAIN moves : moves[x].ref # s
<1> DEFINE new == Entry(stock[v], d, "MANUAL_ADJUSTMENT", NoRef)
           moves == [x \in {v} |-> new]
<1>1. Commit(moves)
  BY DEF AdjustStock
<1>2. \A x \in DOMAIN moves : moves[x].ref = NoRef
  BY DEF Entry, Routed
<1> HIDE DEF moves
<1> QED
  BY <1>1, <1>2, StockBookAssumption, StockControlAssumption

LEMMA ManualPostsNothing ==
    ASSUME IInv, NEW s \in Session, NEW x, NEW d, AdjustStock(x, d)
    PROVE  ~PostsForSession(s)
<1>1. \A v \in Variant : Posted(s, v)' = Posted(s, v)
  BY ManualRef, PostedElsewhere
<1> QED
  BY <1>1 DEF PostsForSession

LEMMA StepIsAtomic ==
    ASSUME IInv, [Next]_vars, NEW s \in Session, PostsForSession(s)
    PROVE  AppliesSession(s)
<1>1. ledger' # ledger
  BY NotPosted
<1>2. PICK w \in Worker : Request(w) \/ Step(w) \/ Crash(w)
  BY <1>1 DEF Next, vars, bookVars
<1>3. ASSUME NEW v \in Variant, NEW d \in Deltas, Adjust(w, v, d)
      PROVE  FALSE
  BY <1>3, ManualPostsNothing DEF Adjust
<1>4. ~BulkLine(w)
  BY ManualPostsNothing DEF BulkLine
<1>5. ~Request(w)
  BY <1>1, <1>3
  DEF Request, DeleteVariant, ReadVariant, BulkStart, StartTake, ReadItem,
      Complete, ReadForApproval, ReadForRejection, bookVars
<1>6. CommitApproval(w)
  BY <1>1, <1>2, <1>4, <1>5
  DEF Step, Crash, SaveVariant, BulkEnd, CreateSession, SnapshotVariants,
      PopulateItems, SaveCount, ListUncounted, FillUncounted, Submit,
      BeginApproval, PostCorrection, ApprovalRefused, Reject, bookVars
<1> QED
  BY <1>6, ApproveIsAtomic

(* A stock-take correction is all or nothing, however many workers run and *)
(* wherever its postings are refused or cut short: when one movement for a *)
(* session becomes visible, all of them do, and the session is APPROVED.   *)
THEOREM StockTakeAtomicity == Spec => ApprovalIsAtomic
<1>1. IInv /\ [Next]_vars =>
         [\A s \in Session : PostsForSession(s) => AppliesSession(s)]_vars
  BY StepIsAtomic
<1> QED
  BY <1>1, InitInv, StepInv, PTL DEF Spec, ApprovalIsAtomic

----------------------------------------------------------------------------
(***************************************************************************)
(* Stock takes of a shop whose requests do not overlap: what the stock-    *)
(* take API promises holds for any variants, any number of stock takes     *)
(* and any crashes between two statements.  With two workers each of these *)
(* theorems is false (run two_approvals), so "Worker = {w}" is what they   *)
(* need.                                                                   *)
(*                                                                         *)
(* The invariant says of the one request in progress what it has checked   *)
(* and still knows: the status of its session, and which counts it will    *)
(* fill in.                                                                *)
(***************************************************************************)

(* Like PostedExactlyOnce, with the movement named instead of counted. *)
Due(s, v) == status[s] = "APPROVED" /\ v \in Discrepancies(s)
PostedRight ==
    \A s \in Session, v \in Variant :
        IF Due(s, v)
        THEN \E i : /\ Posted(s, v) = {i}
                    /\ ledger[v][i].delta = counted[s][v] - system[s][v]
        ELSE Posted(s, v) = {}

TakesInv == CompletedIsFullyCounted /\ PostedRight

Editing == {"snapshot", "populate", "count", "list", "fill", "submit"}
JobInv(w) ==
    /\ pc[w] \in Editing => status[on[w]] = "IN_PROGRESS"
    /\ pc[w] \in {"apply", "post", "reject"} => status[on[w]] = "PENDING_APPROVAL"
    /\ pc[w] = "fill" =>
         /\ DOMAIN rows[w] = Uncounted(on[w])
         /\ \A v \in DOMAIN rows[w] : rows[w][v] # Null
    /\ pc[w] = "submit" => Uncounted(on[w]) = {}

SerialInv(w) == IInv /\ TakesInv /\ JobInv(w)

----------------------------------------------------------------------------
(* Steps that change no stock take. *)

LogKept ==
    \A s \in Session, v \in Variant :
        /\ Posted(s, v)' = Posted(s, v)
        /\ \A i \in Posted(s, v) : ledger'[v][i] = ledger[v][i]

LEMMA LogUntouched ==
    ASSUME ledger' = ledger
    PROVE  LogKept
BY DEF LogKept, Posted

LEMMA AppendsOnly ==
    ASSUME IInv, NEW moves, Commit(moves), NEW v \in Variant
    PROVE  \A i \in 1..Len(ledger[v]) : ledger'[v][i] = ledger[v][i]
<1> DEFINE new == moves[v]
<1>1. ledger[v] \in Seq(Movement)
  BY DEF IInv, TypeOK, BookTypeOK
<1>2. ledger'[v] = Append(ledger[v], new) \/ ledger'[v] = ledger[v]
  BY DEF Commit
<1> HIDE DEF new
<1> QED
  BY <1>1, <1>2

LEMMA ManualKeepsLog ==
    ASSUME IInv, NEW x, NEW d, AdjustStock(x, d)
    PROVE  LogKept
<1>1. ASSUME NEW s \in Session, NEW v \in Variant
      PROVE  /\ Posted(s, v)' = Posted(s, v)
             /\ \A i \in Posted(s, v) : ledger'[v][i] = ledger[v][i]
  <2>1. PICK moves : Commit(moves) /\ \A y \in DOMAIN moves : moves[y].ref # s
    BY ManualRef
  <2>2. Posted(s, v)' = Posted(s, v)
    BY <2>1, PostedElsewhere
  <2>3. \A i \in 1..Len(ledger[v]) : ledger'[v][i] = ledger[v][i]
    BY <2>1, AppendsOnly
  <2> QED
    BY <2>2, <2>3 DEF Posted
<1> QED
  BY <1>1 DEF LogKept

LEMMA TakesStay ==
    ASSUME TakesInv, UNCHANGED takeVars, LogKept
    PROVE  TakesInv'
<1>1. \A s \in Session :
        /\ Items(s)' = Items(s) /\ Uncounted(s)' = Uncounted(s)
        /\ Discrepancies(s)' = Discrepancies(s)
  BY DEF takeVars, Items, Uncounted, Discrepancies
<1>2. CompletedIsFullyCounted'
  BY <1>1 DEF TakesInv, CompletedIsFullyCounted, takeVars
<1>3. ASSUME NEW s \in Session, NEW v \in Variant
      PROVE  IF Due(s, v)'
             THEN \E i : /\ Posted(s, v)' = {i}
                         /\ ledger'[v][i].delta = counted'[s][v] - system'[s][v]
             ELSE Posted(s, v)' = {}
  <2>1. Due(s, v)' <=> Due(s, v)
    BY <1>1 DEF Due, takeVars
  <2> QED
    BY <2>1 DEF TakesInv, PostedRight, LogKept, takeVars
<1>4. PostedRight'
  BY <1>3 DEF PostedRight
<1> QED
  BY <1>2, <1>4 DEF TakesInv

(* A session in progress may be edited: nothing is due of it. *)
LEMMA EditKeepsTakes ==
    ASSUME TakesInv, NEW s \in Session, status[s] = "IN_PROGRESS",
           status' = status, ledger' = ledger,
           \A t \in Session \ {s} :
              system'[t] = system[t] /\ counted'[t] = counted[t]
    PROVE  TakesInv'
<1>1. \A t \in Session \ {s} :
        /\ Items(t)' = Items(t) /\ Uncounted(t)' = Uncounted(t)
        /\ Discrepancies(t)' = Discrepancies(t)
  BY DEF Items, Uncounted, Discrepancies
<1>2. CompletedIsFullyCounted'
  BY <1>1 DEF TakesInv, CompletedIsFullyCounted
<1>3. ASSUME NEW t \in Session, NEW v \in Variant
      PROVE  IF Due(t, v)'
             THEN \E i : /\ Posted(t, v)' = {i}
                         /\ ledger'[v][i].delta = counted'[t][v] - system'[t][v]
             ELSE Posted(t, v)' = {}
  <2>1. Posted(t, v)' = Posted(t, v)
    BY DEF Posted
  <2>2. CASE t = s
    BY <2>1, <2>2 DEF Due, TakesInv, PostedRight
  <2>3. CASE t # s
    <3>1. Due(t, v)' <=> Due(t, v)
      BY <1>1, <2>3 DEF Due
    <3> QED
      BY <2>1, <2>3, <3>1 DEF TakesInv, PostedRight
  <2> QED
    BY <2>2, <2>3
<1>4. PostedRight'
  BY <1>3 DEF PostedRight
<1> QED
  BY <1>2, <1>4 DEF TakesInv

(* A session that is not approved may change its status. *)
LEMMA MoveKeepsTakes ==
    ASSUME IInv, TakesInv, NEW s \in Session, NEW to,
           status[s] # "APPROVED", to # "APPROVED",
           status' = [status EXCEPT ![s] = to],
           UNCHANGED <<ledger, system, counted>>,
           to \notin {"NONE", "IN_PROGRESS"} =>
              Items(s) # {} /\ Uncounted(s) = {}
    PROVE  TakesInv'
<1>1. \A t \in Session : status'[t] = IF t = s THEN to ELSE status[t]
  BY DEF IInv, TypeOK, TakeTypeOK
<1>2. \A t \in Session :
        /\ Items(t)' = Items(t) /\ Uncounted(t)' = Uncounted(t)
        /\ Discrepancies(t)' = Discrepancies(t)
  BY DEF Items, Uncounted, Discrepancies
<1>4. CompletedIsFullyCounted'
  BY <1>1, <1>2 DEF TakesInv, CompletedIsFullyCounted
<1>5. ASSUME NEW t \in Session, NEW v \in Variant
      PROVE  IF Due(t, v)'
             THEN \E i : /\ Posted(t, v)' = {i}
                         /\ ledger'[v][i].delta = counted'[t][v] - system'[t][v]
             ELSE Posted(t, v)' = {}
  <2>1. Posted(t, v)' = Posted(t, v)
    BY DEF Posted
  <2>2. Due(t, v)' <=> Due(t, v)
    BY <1>1, <1>2 DEF Due
  <2> QED
    BY <2>1, <2>2 DEF TakesInv, PostedRight
<1>6. PostedRight'
  BY <1>5 DEF PostedRight
<1> QED
  BY <1>4, <1>6 DEF TakesInv

(* The approval of a complete session posts each of its discrepancies. *)
LEMMA ApproveKeepsTakes ==
    ASSUME IInv, TakesInv, NEW w \in Worker, CommitApproval(w),
           status[on[w]] = "PENDING_APPROVAL"
    PROVE  TakesInv'
<1>1. PICK s \in Session : s = on[w] /\ status[s] = "PENDING_APPROVAL"
  BY DEF CommitApproval, IInv, TypeOK, WorkerTypeOK, SessionLabel
<1> DEFINE moves == draft[w]
<1>2. /\ status' = [status EXCEPT ![s] = "APPROVED"]
      /\ UNCHANGED <<system, counted>> /\ Commit(moves)
  BY <1>1 DEF CommitApproval
<1>3. \A t \in Session : status'[t] = IF t = s THEN "APPROVED" ELSE status[t]
  BY <1>1, <1>2 DEF IInv, TypeOK, TakeTypeOK
<1>4. \A t \in Session :
        /\ Items(t)' = Items(t) /\ Uncounted(t)' = Uncounted(t)
        /\ Discrepancies(t)' = Discrepancies(t)
  BY <1>2 DEF Items, Uncounted, Discrepancies
<1>6. CompletedIsFullyCounted'
  BY <1>1, <1>3, <1>4 DEF TakesInv, CompletedIsFullyCounted
<1>7. /\ DOMAIN moves = Discrepancies(s)
      /\ \A v \in Discrepancies(s) :
            /\ moves[v].delta = counted[s][v] - system[s][v]
            /\ moves[v].ref = s
  BY <1>1, DraftIsWhole DEF CommitApproval
<1> HIDE DEF moves
<1>8. ASSUME NEW t \in Session, NEW v \in Variant
      PROVE  IF Due(t, v)'
             THEN \E i : /\ Posted(t, v)' = {i}
                         /\ ledger'[v][i].delta = counted'[t][v] - system'[t][v]
             ELSE Posted(t, v)' = {}
  <2>1. CASE t # s
    <3>1. v \in DOMAIN moves => moves[v].ref # t
      BY <1>7, <2>1
    <3>2. /\ Posted(t, v)' = Posted(t, v)
          /\ \A i \in Posted(t, v) : ledger'[v][i] = ledger[v][i]
      BY <1>2, <3>1, PostedElsewhere, AppendsOnly DEF Posted
    <3>3. Due(t, v)' <=> Due(t, v)
      BY <1>3, <1>4, <2>1 DEF Due
    <3> QED
      BY <1>2, <3>2, <3>3 DEF TakesInv, PostedRight
  <2>2. CASE t = s /\ v \notin Discrepancies(s)
    <3>1. ledger'[v] = ledger[v]
      BY <1>2, <1>7, <2>2 DEF Commit
    <3>2. Posted(s, v) = {} /\ ~Due(s, v)'
      BY <1>1, <1>4, <2>2 DEF TakesInv, PostedRight, Due
    <3> QED
      BY <2>2, <3>1, <3>2 DEF Posted
  <2>3. CASE t = s /\ v \in Discrepancies(s)
    <3> DEFINE new == moves[v]
               n == Len(ledger[v])
    <3>1. ledger'[v] = Append(ledger[v], new)
      BY <1>2, <1>7, <2>3 DEF Commit
    <3>2. new.ref = s
      BY <1>7, <2>3
    <3>3. new.delta = counted[s][v] - system[s][v]
      BY <1>7, <2>3
    <3>4. ledger[v] \in Seq(Movement)
      BY DEF IInv, TypeOK, BookTypeOK
    <3>5. Posted(s, v) = {}
      BY <1>1 DEF TakesInv, PostedRight, Due
    <3> HIDE DEF new
    <3>6. /\ Len(ledger'[v]) = n + 1 /\ n \in Nat
          /\ ledger'[v][n + 1] = new
          /\ \A i \in 1..n : ledger'[v][i] = ledger[v][i]
      BY <3>1, <3>4
    <3>7. \A i \in 1..n : ledger[v][i].ref # s
      BY <3>5 DEF Posted
    <3>8. Posted(s, v)' = {n + 1}
      BY <3>2, <3>6, <3>7 DEF Posted
    <3>9. ledger'[v][n + 1].delta = counted'[s][v] - system'[s][v]
      BY <1>2, <3>3, <3>6
    <3>10. Due(s, v)'
      BY <1>1, <1>3, <1>4, <2>3 DEF Due
    <3> QED
      BY <2>3, <3>8, <3>9, <3>10
  <2> QED
    BY <2>1, <2>2, <2>3
<1>9. PostedRight'
  BY <1>8 DEF PostedRight
<1> QED
  BY <1>6, <1>9 DEF TakesInv

----------------------------------------------------------------------------
(* The request in progress. *)

LEMMA RespondJob ==
    ASSUME WorkerTypeOK, NEW w \in Worker, Respond(w)
    PROVE  JobInv(w)'
<1>1. pc'[w] = "idle"
  BY DEF WorkerTypeOK, Respond
<1> QED
  BY <1>1 DEF JobInv, Editing

LEMMA GotoJob ==
    ASSUME WorkerTypeOK, NEW w \in Worker, NEW label, NEW s, NEW f,
           Goto(w, label, s, f)
    PROVE  pc'[w] = label /\ on'[w] = s /\ rows'[w] = f
BY DEF WorkerTypeOK, Goto

(* Requests of one statement, and first statements. *)
LEMMA RequestKeepsTakes ==
    ASSUME NEW w \in Worker, SerialInv(w), Request(w)
    PROVE  TakesInv' /\ JobInv(w)'
<1> USE DEF SerialInv, IInv, TypeOK
<1>1. ASSUME NEW v \in Variant, NEW d \in Deltas, Adjust(w, v, d)
      PROVE  TakesInv' /\ JobInv(w)'
  <2>2. TakesInv'
    BY <1>1, ManualKeepsLog, TakesStay DEF Adjust
  <2>3. JobInv(w)'
    BY <1>1 DEF Adjust, workerVars, JobInv, Editing
  <2> QED
    BY <2>2, <2>3
<1>2. CASE ledger' = ledger /\ UNCHANGED takeVars /\ Request(w)
  <2>1. TakesInv'
    BY <1>2, LogUntouched, TakesStay
  <2>2. ASSUME NEW v \in Variant, DeleteVariant(w, v)
        PROVE  JobInv(w)'
    BY <2>2 DEF DeleteVariant, workerVars, JobInv, Editing
  <2>3. ASSUME NEW v \in Variant, ReadVariant(w, v)
        PROVE  JobInv(w)'
    <3>1. pc'[w] = "edit"
      BY <2>3, GotoJob DEF ReadVariant
    <3> QED
      BY <3>1 DEF JobInv, Editing
  <2>4. ASSUME NEW batch \in Batches, BulkStart(w, batch)
        PROVE  JobInv(w)'
    <3>1. pc'[w] = "bulk"
      BY <2>4 DEF BulkStart, WorkerTypeOK
    <3> QED
      BY <3>1 DEF JobInv, Editing
  <2>5. ASSUME StartTake(w)
        PROVE  JobInv(w)'
    <3>1. pc'[w] = "create"
      BY <2>5, GotoJob DEF StartTake
    <3> QED
      BY <3>1 DEF JobInv, Editing
  <2>6. ASSUME NEW s \in Session, NEW v \in Variant,
               NEW q \in 0..MaxCount \cup {Null}, ReadItem(w, s, v, q)
        PROVE  JobInv(w)'
    <3>1. pc'[w] = "count" /\ on'[w] = s
      BY <2>6, GotoJob DEF ReadItem
    <3> QED
      BY <2>6, <3>1 DEF JobInv, Editing, ReadItem, takeVars
  <2>7. ASSUME NEW s \in Session, Complete(w, s)
        PROVE  JobInv(w)'
    <3>1. pc'[w] = "list" /\ on'[w] = s
      BY <2>7, GotoJob DEF Complete
    <3> QED
      BY <2>7, <3>1 DEF JobInv, Editing, Complete, takeVars
  <2>8. ASSUME NEW s \in Session,
               ReadForApproval(w, s) \/ ReadForRejection(w, s)
        PROVE  JobInv(w)'
    <3>1. pc'[w] \in {"apply", "reject"} /\ on'[w] = s
      BY <2>8, GotoJob DEF ReadForApproval, ReadForRejection
    <3> QED
      BY <2>8, <3>1 DEF JobInv, Editing, ReadForApproval, ReadForRejection,
         takeVars
  <2>9. ASSUME NEW v \in Variant, NEW d \in Deltas, Adjust(w, v, d)
        PROVE  JobInv(w)'
    BY <1>1, <2>9
  <2> QED
    BY <1>2, <2>1, <2>2, <2>3, <2>4, <2>5, <2>6, <2>7, <2>8, <2>9 DEF Request
<1>3. \/ ledger' = ledger /\ UNCHANGED takeVars
      \/ \E v \in Variant, d \in Deltas : Adjust(w, v, d)
  BY DEF Request, DeleteVariant, ReadVariant, BulkStart, StartTake, ReadItem,
     Complete, ReadForApproval, ReadForRejection, bookVars
<1> QED
  BY <1>1, <1>2, <1>3

LEMMA LaterKeepsTakes ==
    ASSUME NEW w \in Worker, SerialInv(w), Step(w) \/ Crash(w)
    PROVE  TakesInv' /\ JobInv(w)'
<1> USE DEF SerialInv, IInv, TypeOK
<1>0. pc[w] \in SessionLabel => on[w] \in Session
  BY DEF WorkerTypeOK
<1>1. CASE SaveVariant(w) \/ BulkEnd(w) \/ ApprovalRefused(w) \/ Crash(w)
  <2>1. Respond(w) /\ UNCHANGED <<bookVars, takeVars>>
    BY <1>1 DEF SaveVariant, BulkEnd, ApprovalRefused, Crash
  <2>2. TakesInv'
    BY <2>1, LogUntouched, TakesStay DEF bookVars
  <2> QED
    BY <2>1, <2>2, RespondJob
<1>2. CASE BulkLine(w)
  <2>2. TakesInv'
    BY <1>2, ManualKeepsLog, TakesStay DEF BulkLine
  <2>3. JobInv(w)'
    BY <1>2 DEF BulkLine, JobInv, Editing
  <2> QED
    BY <2>2, <2>3
<1>3. ASSUME NEW s \in Session, CreateSession(w, s)
      PROVE  TakesInv' /\ JobInv(w)'
  <2>2. TakesInv'
    BY <1>3, MoveKeepsTakes DEF CreateSession, bookVars
  <2>3. status'[s] = "IN_PROGRESS"
    BY <1>3 DEF CreateSession, TakeTypeOK
  <2>4. pc'[w] = "snapshot" /\ on'[w] = s
    BY <1>3, GotoJob DEF CreateSession
  <2> QED
    BY <2>2, <2>3, <2>4 DEF JobInv, Editing
<1>4. ASSUME NEW scope \in Scopes, SnapshotVariants(w, scope)
      PROVE  TakesInv' /\ JobInv(w)'
  <2>1. UNCHANGED <<bookVars, takeVars>>
    BY <1>4 DEF SnapshotVariants
  <2>2. TakesInv'
    BY <2>1, LogUntouched, TakesStay DEF bookVars
  <2>3. pc'[w] = "populate" /\ on'[w] = on[w]
    BY <1>4, GotoJob DEF SnapshotVariants
  <2> QED
    BY <1>4, <2>1, <2>2, <2>3 DEF SnapshotVariants, JobInv, Editing, takeVars
<1>5. CASE PopulateItems(w)
  <2>1. on[w] \in Session /\ status[on[w]] = "IN_PROGRESS"
    BY <1>0, <1>5 DEF PopulateItems, SessionLabel, JobInv, Editing
  <2>2. \A t \in Session \ {on[w]} : system'[t] = system[t]
    BY <1>5, <2>1 DEF PopulateItems, TakeTypeOK
  <2>3. TakesInv'
    BY <1>5, <2>1, <2>2, EditKeepsTakes DEF PopulateItems, bookVars
  <2> QED
    BY <1>5, <2>3, RespondJob DEF PopulateItems
<1>6. CASE SaveCount(w) \/ FillUncounted(w)
  <2>1. on[w] \in Session /\ status[on[w]] = "IN_PROGRESS"
    BY <1>0, <1>6 DEF SaveCount, FillUncounted, SessionLabel, JobInv, Editing
  <2>2. /\ counted' = [counted EXCEPT ![on[w]] = Overwrite(rows[w], @)]
        /\ UNCHANGED <<bookVars, status, system>>
    BY <1>6 DEF SaveCount, FillUncounted
  <2>3. \A t \in Session \ {on[w]} : counted'[t] = counted[t]
    BY <2>1, <2>2 DEF TakeTypeOK
  <2>4. TakesInv'
    BY <2>1, <2>2, <2>3, EditKeepsTakes DEF bookVars
  <2>5. CASE SaveCount(w)
    BY <2>4, <2>5, RespondJob DEF SaveCount
  <2>6. CASE FillUncounted(w)
    <3>1. pc'[w] = "submit" /\ on'[w] = on[w]
      BY <2>6, GotoJob DEF FillUncounted
    <3>2. /\ DOMAIN rows[w] = Uncounted(on[w])
          /\ \A v \in DOMAIN rows[w] : rows[w][v] # Null
      BY <2>6 DEF FillUncounted, JobInv
    <3>3. counted'[on[w]] = Overwrite(rows[w], counted[on[w]])
      BY <2>1, <2>2 DEF TakeTypeOK
    <3>4. \A v \in Items(on[w]) : counted'[on[w]][v] # Null
      BY <3>2, <3>3 DEF Overwrite, Uncounted, Items
    <3>5. Uncounted(on[w])' = {}
      BY <2>2, <3>1, <3>4 DEF Uncounted, Items
    <3> QED
      BY <2>1, <2>2, <2>4, <3>1, <3>5 DEF JobInv, Editing
  <2> QED
    BY <1>6, <2>5, <2>6
<1>7. CASE ListUncounted(w)
  <2>1. UNCHANGED <<bookVars, takeVars>>
    BY <1>7 DEF ListUncounted
  <2>2. TakesInv'
    BY <2>1, LogUntouched, TakesStay DEF bookVars
  <2>3. /\ pc'[w] = "fill" /\ on'[w] = on[w]
        /\ rows'[w] = [v \in Uncounted(on[w]) |-> system[on[w]][v]]
    BY <1>7, GotoJob DEF ListUncounted
  <2>4. \A v \in Uncounted(on[w]) : system[on[w]][v] # Null
    BY DEF Uncounted, Items
  <2>5. Uncounted(on[w])' = Uncounted(on[w])
    BY <2>1, <2>3 DEF Uncounted, Items, takeVars
  <2>6. status'[on'[w]] = "IN_PROGRESS"
    BY <1>7, <2>1, <2>3 DEF ListUncounted, JobInv, Editing, takeVars
  <2> QED
    BY <2>2, <2>3, <2>4, <2>5, <2>6 DEF JobInv, Editing
<1>8. CASE Submit(w)
  <2>1. on[w] \in Session /\ status[on[w]] = "IN_PROGRESS"
    BY <1>0, <1>8 DEF Submit, SessionLabel, JobInv, Editing
  <2>2. CASE Items(on[w]) = {}
    BY <1>8, <2>2, LogUntouched, TakesStay, RespondJob
       DEF Submit, bookVars, takeVars
  <2>3. CASE Items(on[w]) # {}
    <3>1. Uncounted(on[w]) = {}
      BY <1>8 DEF Submit, JobInv
    <3>2. status' = [status EXCEPT ![on[w]] = "PENDING_APPROVAL"]
      BY <1>8, <2>3 DEF Submit
    <3>3. PICK s \in Session : s = on[w]
      BY <2>1
    <3>4. UNCHANGED <<ledger, system, counted>>
      BY <1>8 DEF Submit, bookVars
    <3>5. TakesInv'
      BY <2>1, <2>3, <3>1, <3>2, <3>3, <3>4, MoveKeepsTakes
    <3> QED
      BY <1>8, <3>5, RespondJob DEF Submit
  <2> QED
    BY <2>2, <2>3
<1>9. CASE Reject(w)
  <2>1. on[w] \in Session /\ status[on[w]] = "PENDING_APPROVAL"
    BY <1>0, <1>9 DEF Reject, SessionLabel, JobInv
  <2>2. Items(on[w]) # {} /\ Uncounted(on[w]) = {}
    BY <2>1 DEF TakesInv, CompletedIsFullyCounted
  <2>3. PICK s \in Session : s = on[w]
    BY <2>1
  <2>4. /\ status' = [status EXCEPT ![s] = "REJECTED"]
        /\ UNCHANGED <<ledger, system, counted>>
    BY <1>9, <2>3 DEF Reject, bookVars
  <2>5. TakesInv'
    BY <2>1, <2>2, <2>3, <2>4, MoveKeepsTakes
  <2> QED
    BY <1>9, <2>5, RespondJob DEF Reject
<1>10. CASE BeginApproval(w)
  <2>1. UNCHANGED <<bookVars, takeVars>>
    BY <1>10 DEF BeginApproval
  <2>2. TakesInv'
    BY <2>1, LogUntouched, TakesStay DEF bookVars
  <2>3. pc'[w] = "post" /\ on'[w] = on[w]
    BY <1>10, GotoJob DEF BeginApproval
  <2> QED
    BY <1>10, <2>1, <2>2, <2>3 DEF BeginApproval, JobInv, Editing, takeVars
<1>11. ASSUME NEW v \in Variant, PostCorrection(w, v)
       PROVE  TakesInv' /\ JobInv(w)'
  <2>1. UNCHANGED <<bookVars, takeVars>> /\ UNCHANGED <<pc, on>> /\ pc[w] = "post"
    BY <1>11 DEF PostCorrection
  <2>2. TakesInv'
    BY <2>1, LogUntouched, TakesStay DEF bookVars
  <2> QED
    BY <2>1, <2>2 DEF JobInv, Editing, takeVars
<1>12. CASE CommitApproval(w)
  <2>1. status[on[w]] = "PENDING_APPROVAL"
    BY <1>12 DEF CommitApproval, JobInv
  <2> QED
    BY <1>12, <2>1, ApproveKeepsTakes, RespondJob DEF CommitApproval
<1> QED
  BY <1>1, <1>2, <1>3, <1>4, <1>5, <1>6, <1>7, <1>8, <1>9, <1>10, <1>11, <1>12
     DEF Step

LEMMA InitSerial ==
    ASSUME Init, NEW w \in Worker
    PROVE  SerialInv(w)
<1>1. \A s \in Session : status[s] = "NONE"
  BY DEF Init
<1>2. CompletedIsFullyCounted
  BY <1>1 DEF CompletedIsFullyCounted
<1>3. \A s \in Session, v \in Variant : ~Due(s, v) /\ Posted(s, v) = {}
  <2>1. \A v \in Variant : ledger[v] = <<>>
    BY DEF Init, BookInit
  <2>2. 1..Len(<<>>) = {}
    OBVIOUS
  <2>3. \A s \in Session, v \in Variant : Posted(s, v) = {}
    BY <2>1, <2>2 DEF Posted
  <2> QED
    BY <1>1, <2>3 DEF Due
<1>4. PostedRight
  BY <1>3 DEF PostedRight
<1>5. JobInv(w)
  BY DEF JobInv, Editing, Init
<1> QED
  BY <1>2, <1>4, <1>5, InitInv DEF SerialInv, TakesInv

LEMMA NextSerial ==
    ASSUME NEW w \in Worker, Worker = {w}, SerialInv(w), [Next]_vars
    PROVE  SerialInv(w)'
<1>1. IInv'
  BY StepInv DEF SerialInv
<1>2. CASE Next
  <2>1. Request(w) \/ Step(w) \/ Crash(w)
    BY <1>2 DEF Next
  <2> QED
    BY <1>1, <2>1, RequestKeepsTakes, LaterKeepsTakes DEF SerialInv
<1>3. CASE UNCHANGED vars
  <2>1. TakesInv'
    BY <1>3, LogUntouched, TakesStay DEF vars, bookVars, SerialInv
  <2>2. JobInv(w)'
    BY <1>3 DEF vars, takeVars, workerVars, JobInv, SerialInv, Uncounted, Items
  <2> QED
    BY <1>1, <2>1, <2>2 DEF SerialInv
<1> QED
  BY <1>2, <1>3

LEMMA SpecSerial ==
    ASSUME NEW w \in Worker, Worker = {w}
    PROVE  Spec => []SerialInv(w)
<1>1. Init => SerialInv(w)
  BY InitSerial
<1>2. SerialInv(w) /\ [Next]_vars => SerialInv(w)'
  BY NextSerial
<1> QED
  BY <1>1, <1>2, PTL DEF Spec

----------------------------------------------------------------------------
(* When requests do not overlap, the corrections in the log are those of   *)
(* the approved stock takes: each posted once, for the discrepancy its     *)
(* session shows, whatever was refused or crashed in between.              *)
THEOREM SerialPostedOnce ==
    ASSUME NEW w \in Worker, Worker = {w}
    PROVE  Spec => []PostedExactlyOnce
<1>1. SerialInv(w) => PostedExactlyOnce
  <2> SUFFICES ASSUME SerialInv(w), NEW s \in Session, NEW v \in Variant
               PROVE  /\ Cardinality(Posted(s, v)) = IF Due(s, v) THEN 1 ELSE 0
                      /\ Due(s, v) => \A i \in Posted(s, v) :
                           ledger[v][i].delta = Discrepancy(s)[v]
    BY DEF PostedExactlyOnce, Due
  <2>1. CASE Due(s, v)
    <3>1. PICK i : /\ Posted(s, v) = {i}
                   /\ ledger[v][i].delta = counted[s][v] - system[s][v]
      BY <2>1 DEF SerialInv, TakesInv, PostedRight
    <3>2. Cardinality({i}) = 1
      BY FS_Singleton
    <3>3. Discrepancy(s)[v] = counted[s][v] - system[s][v]
      BY <2>1 DEF Due, Discrepancy
    <3> QED
      BY <2>1, <3>1, <3>2, <3>3
  <2>2. CASE ~Due(s, v)
    BY <2>2, FS_EmptySet DEF SerialInv, TakesInv, PostedRight
  <2> QED
    BY <2>1, <2>2
<1> QED
  BY <1>1, SpecSerial, PTL

(* When requests do not overlap, a stock take that left IN_PROGRESS has    *)
(* items, and a count for each (StockTakeCompleteView fills them in).      *)
THEOREM SerialFullyCounted ==
    ASSUME NEW w \in Worker, Worker = {w}
    PROVE  Spec => []CompletedIsFullyCounted
<1>1. SerialInv(w) => CompletedIsFullyCounted
  BY DEF SerialInv, TakesInv
<1> QED
  BY <1>1, SpecSerial, PTL

(* When requests do not overlap, a stock take only moves along its         *)
(* lifecycle, and a decided one never changes again.                       *)
THEOREM SerialLifecycle ==
    ASSUME NEW w \in Worker, Worker = {w}
    PROVE  Spec => SessionLifecycle
<1> DEFINE Life(from, to) ==
      <<from, to>> \in {<<"NONE", "IN_PROGRESS">>,
                        <<"IN_PROGRESS", "PENDING_APPROVAL">>,
                        <<"PENDING_APPROVAL", "APPROVED">>,
                        <<"PENDING_APPROVAL", "REJECTED">>}
           Moves == \A s \in Session :
                       status'[s] # status[s] => Life(status[s], status'[s])
<1>1. SerialInv(w) /\ [Next]_vars => [Moves]_vars
  <2> SUFFICES ASSUME SerialInv(w), Next, NEW s \in Session,
                      status'[s] # status[s]
               PROVE  Life(status[s], status'[s])
    OBVIOUS
  <2>1. Request(w) \/ Step(w) \/ Crash(w)
    BY DEF Next
  <2>2. status' # status /\ ~UNCHANGED takeVars
    BY DEF takeVars
  <2>3. TakeTypeOK /\ (pc[w] \in SessionLabel => on[w] \in Session)
    BY DEF SerialInv, IInv, TypeOK, WorkerTypeOK
  <2>4. ~Request(w)
    BY <2>2 DEF Request, Adjust, DeleteVariant, ReadVariant, BulkStart,
       StartTake, ReadItem, Complete, ReadForApproval, ReadForRejection
  <2>5. \/ \E t \in Session : CreateSession(w, t)
        \/ Submit(w) \/ CommitApproval(w) \/ Reject(w)
    BY <2>1, <2>2, <2>4 DEF Step, Crash, SaveVariant, BulkLine, BulkEnd,
       SnapshotVariants, PopulateItems, SaveCount, ListUncounted,
       FillUncounted, BeginApproval, PostCorrection, ApprovalRefused
  <2>6. ASSUME NEW t \in Session, CreateSession(w, t)
        PROVE  Life(status[s], status'[s])
    BY <2>3, <2>6 DEF CreateSession, TakeTypeOK
  <2>7. CASE Submit(w)
    BY <2>3, <2>7 DEF Submit, TakeTypeOK, SerialInv, JobInv, Editing
  <2>8. CASE CommitApproval(w)
    BY <2>3, <2>8 DEF CommitApproval, TakeTypeOK, SerialInv, JobInv
  <2>9. CASE Reject(w)
    BY <2>3, <2>9 DEF Reject, TakeTypeOK, SerialInv, JobInv
  <2> QED
    BY <2>5, <2>6, <2>7, <2>8, <2>9
<1> QED
  BY <1>1, SpecSerial, PTL DEF Spec, SessionLifecycle
=============================================================================
