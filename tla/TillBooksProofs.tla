--------------------------- MODULE TillBooksProofs ---------------------------
(***************************************************************************)
(* The documents of the till and the stock agree, for any number of        *)
(* workers, sales and returns: BooksReconcile and SaleIsPosted.            *)
(*                                                                         *)
(* Between commits the documents and the stock say nothing of the          *)
(* adjustments in flight, so the invariant accounts for those: how far     *)
(* each transaction has moved each row it holds, and for which sale.       *)
(* The last section is about returns of a shop whose requests do not       *)
(* overlap: NeverOverReturned.                                             *)
(***************************************************************************)
EXTENDS TillProofs, SumProofs


(* The adjust_stock calls of the request of w, and how many were made. *)
Calls(w) ==
    IF At(w, "sell") THEN Deductions(job[w].lines)
    ELSE IF At(w, "void") THEN Restorations(sale[job[w].sale].lines)
    ELSE IF At(w, "return") /\ job[w].restock
         THEN Restocks(job[w].lines, job[w].back)
         ELSE <<>>
Done(w) == Len(Calls(w)) - Len(job[w].todo)

(* What the first k calls add to the stock of v. *)
Part(calls, v) ==
    [i \in 1..Len(calls) |->
        IF calls[i].variant = v THEN calls[i].delta ELSE 0]
Moved(calls, k, v) == SumFunctionOnSet(Part(calls, v), 1..k)

CallsOK(w) ==
    /\ Calls(w) \in Seq(Adjustment)
    /\ Len(job[w].todo) <= Len(Calls(w))
    /\ \A i \in 1..Len(job[w].todo) : job[w].todo[i] = Calls(w)[Done(w) + i]

(* The transaction of w has made its first calls and written nothing else. *)
WritesOK(w) ==
    \A v \in Variant :
        /\ Seen(w, v) = stock[v] + Moved(Calls(w), Done(w), v)
        /\ \A q \in Sale :
              PostedFor(q, writes[w][v]) =
                 IF At(w, "sell") /\ job[w].sale = q
                 THEN Moved(Calls(w), Done(w), v) ELSE 0

Final == {"COMPLETED", "VOIDED"}

(* The documents that the request of w is about. *)
DocsOK(w) ==
    /\ job[w].at \in {"sell", "hold"} =>
         job[w].sale \in Sale /\ sale[job[w].sale] = NoSale
    /\ At(w, "void") =>
         /\ job[w].sale \in Sale
         /\ sale[job[w].sale].status = "COMPLETED"
         /\ saleLock[job[w].sale] = w
    /\ At(w, "return") =>
         /\ job[w].sale \in Sale
         /\ sale[job[w].sale].status \in Final
         /\ job[w].lines = sale[job[w].sale].lines
         /\ \A j \in 1..Len(job[w].back) :
               job[w].back[j].line \in 1..Len(job[w].lines)
         /\ job[w].return \in Return /\ returned[job[w].return] = NoReturn
    /\ At(w, "discard") =>
         \A q \in job[w].sales : sale[q].status \in {"OPEN", "VOIDED"}

(* No two requests create the same document. *)
Apart(w, x) ==
    /\ job[w].at \in {"sell", "hold"} /\ job[x].at \in {"sell", "hold"}
         => job[w].sale # job[x].sale
    /\ At(w, "return") /\ At(x, "return") => job[w].return # job[x].return

(* A return is of a sale that was completed, and of its lines. *)
ReturnsOK ==
    \A n \in Restocked :
        LET q == returned[n].sale
        IN  /\ q \in Sale /\ sale[q].status \in Final
            /\ \A j \in 1..Len(returned[n].lines) :
                  returned[n].lines[j].line \in 1..Len(sale[q].lines)

JobsInv ==
    /\ \A w \in Worker : CallsOK(w) /\ WritesOK(w) /\ DocsOK(w)
    /\ \A w, x \in Worker : w # x => Apart(w, x)

AgreeInv ==
    /\ IsFiniteSet(Standing) /\ IsFiniteSet(Restocked)
    /\ ReturnsOK
    /\ BooksReconcile /\ SaleIsPosted

BooksInv == JobsInv /\ AgreeInv

TillBooks == TillInv /\ BooksInv

----------------------------------------------------------------------------
(* Sums over the calls of a request, the lines of a cart and a log. *)

LEMMA PartInt ==
    ASSUME NEW calls \in Seq(Adjustment), NEW v
    PROVE  \A i \in 1..Len(calls) : Part(calls, v)[i] \in Int
<1> SUFFICES ASSUME NEW i \in 1..Len(calls) PROVE Part(calls, v)[i] \in Int
  OBVIOUS
<1>1. calls[i] \in Adjustment
  OBVIOUS
<1>2. calls[i].delta \in Int
  BY <1>1 DEF Adjustment
<1> QED
  BY <1>2 DEF Part

LEMMA MovedNone ==
    ASSUME NEW calls, NEW v
    PROVE  Moved(calls, 0, v) = 0
<1>1. 1..0 = {}
  OBVIOUS
<1> QED
  BY <1>1, SumEmpty DEF Moved

LEMMA MovedInt ==
    ASSUME NEW calls \in Seq(Adjustment), NEW v, NEW k \in 0..Len(calls)
    PROVE  Moved(calls, k, v) \in Int
<1>1. \A i \in 1..k : Part(calls, v)[i] \in Int
  BY PartInt
<1>2. k \in Nat
  OBVIOUS
<1> QED
  BY <1>1, <1>2, Positions, SumInt DEF Moved

LEMMA MovedNext ==
    ASSUME NEW calls \in Seq(Adjustment), NEW v,
           NEW k \in Nat, k < Len(calls)
    PROVE  Moved(calls, k + 1, v) =
              Moved(calls, k, v)
                + (IF calls[k + 1].variant = v THEN calls[k + 1].delta ELSE 0)
<1> DEFINE f == Part(calls, v)
<1>1. \A i \in 1..k + 1 : f[i] \in Int
  BY PartInt
<1>2. SumFunctionOnSet(f, 1..k + 1) = f[k + 1] + SumFunctionOnSet(f, 1..k)
  BY <1>1, SumNext
<1>3. f[k + 1] = IF calls[k + 1].variant = v THEN calls[k + 1].delta ELSE 0
  BY DEF Part
<1>4. f[k + 1] \in Int /\ Moved(calls, k, v) \in Int
  BY <1>1, MovedInt
<1> HIDE DEF f
<1>5. Moved(calls, k + 1, v) = f[k + 1] + Moved(calls, k, v)
  BY <1>2 DEF Moved, f
<1> QED
  BY <1>3, <1>4, <1>5

LEMMA UnitsInt ==
    ASSUME NEW lines \in Seq(CartLine), NEW v
    PROVE  Units(lines, v) \in Int
<1> DEFINE f == [i \in 1..Len(lines) |->
                    IF lines[i].variant = v THEN lines[i].qty ELSE 0]
<1>1. ASSUME NEW i \in 1..Len(lines) PROVE f[i] \in Int
  <2>1. lines[i] \in CartLine
    OBVIOUS
  <2> QED
    BY <2>1 DEF CartLine
<1>2. SumFunctionOnSet(f, 1..Len(lines)) \in Int
  BY <1>1, Positions, SumInt
<1>3. DOMAIN f = 1..Len(lines)
  OBVIOUS
<1> QED
  BY <1>2, <1>3 DEF Units, SumFunction

(* All the deductions of a sale take its units off the shelf ... *)
LEMMA AllDeducted ==
    ASSUME NEW lines \in Seq(CartLine), NEW v
    PROVE  /\ Len(Deductions(lines)) = Len(lines)
           /\ Moved(Deductions(lines), Len(lines), v) = 0 - Units(lines, v)
<1> DEFINE f == [i \in 1..Len(lines) |->
                    IF lines[i].variant = v THEN lines[i].qty ELSE 0]
           g == Part(Deductions(lines), v)
<1>1. Len(Deductions(lines)) = Len(lines) /\ DOMAIN f = 1..Len(lines)
  BY DEF Deductions
<1>2. ASSUME NEW i \in 1..Len(lines) PROVE f[i] \in Int /\ g[i] = 0 - f[i]
  <2>1. lines[i] \in CartLine
    OBVIOUS
  <2>2. lines[i].qty \in Int
    BY <2>1 DEF CartLine
  <2>3. Deductions(lines)[i] =
          [variant |-> lines[i].variant, delta |-> 0 - lines[i].qty]
    BY DEF Deductions
  <2>4. g[i] = IF lines[i].variant = v THEN 0 - lines[i].qty ELSE 0
    BY <1>1, <2>3 DEF Part
  <2> QED
    BY <2>2, <2>4
<1> HIDE DEF f, g
<1>3. SumFunctionOnSet(g, 1..Len(lines)) = 0 - SumFunctionOnSet(f, 1..Len(lines))
  BY <1>2, Positions, SumNegated
<1> QED
  BY <1>1, <1>3 DEF Units, SumFunction, Moved, f, g

(* ... those of a void put them back ... *)
LEMMA AllRestored ==
    ASSUME NEW lines \in Seq(CartLine), NEW v
    PROVE  /\ Len(Restorations(lines)) = Len(lines)
           /\ Moved(Restorations(lines), Len(lines), v) = Units(lines, v)
<1> DEFINE f == [i \in 1..Len(lines) |->
                    IF lines[i].variant = v THEN lines[i].qty ELSE 0]
           g == Part(Restorations(lines), v)
<1>1. Len(Restorations(lines)) = Len(lines) /\ DOMAIN f = 1..Len(lines)
  BY DEF Restorations
<1>2. ASSUME NEW i \in 1..Len(lines) PROVE g[i] = f[i]
  <2>1. Restorations(lines)[i] =
          [variant |-> lines[i].variant, delta |-> lines[i].qty]
    BY DEF Restorations
  <2> QED
    BY <1>1, <2>1 DEF Part
<1> HIDE DEF f, g
<1>3. SumFunctionOnSet(g, 1..Len(lines)) = SumFunctionOnSet(f, 1..Len(lines))
  BY <1>2, Positions, SumSame
<1> QED
  BY <1>1, <1>3 DEF Units, SumFunction, Moved, f, g

(* ... and those of a return add what PutBack says. *)
BackOnShelf(lines, back, v) ==
    SumFunction([j \in 1..Len(back) |->
                    IF lines[back[j].line].variant = v THEN back[j].qty ELSE 0])

LEMMA AllRestocked ==
    ASSUME NEW lines, NEW back \in Seq(ReturnLine), NEW v
    PROVE  /\ Len(Restocks(lines, back)) = Len(back)
           /\ Moved(Restocks(lines, back), Len(back), v) =
                 BackOnShelf(lines, back, v)
           /\ BackOnShelf(lines, back, v) \in Int
<1> DEFINE f == [j \in 1..Len(back) |->
                    IF lines[back[j].line].variant = v THEN back[j].qty ELSE 0]
           g == Part(Restocks(lines, back), v)
<1>1. Len(Restocks(lines, back)) = Len(back) /\ DOMAIN f = 1..Len(back)
  BY DEF Restocks
<1>2. ASSUME NEW i \in 1..Len(back) PROVE g[i] = f[i] /\ f[i] \in Int
  <2>1. Restocks(lines, back)[i] =
          [variant |-> lines[back[i].line].variant, delta |-> back[i].qty]
    BY DEF Restocks
  <2>2. back[i] \in ReturnLine
    OBVIOUS
  <2>3. back[i].qty \in Int
    BY <2>2 DEF ReturnLine
  <2> QED
    BY <1>1, <2>1, <2>3 DEF Part
<1> HIDE DEF f, g
<1>3. SumFunctionOnSet(g, 1..Len(back)) = SumFunctionOnSet(f, 1..Len(back))
  BY <1>2, Positions, SumSame
<1>4. SumFunctionOnSet(f, 1..Len(back)) \in Int
  BY <1>2, Positions, SumInt
<1> QED
  BY <1>1, <1>3, <1>4 DEF BackOnShelf, SumFunction, Moved, f, g

ForSale(q, log) ==
    [i \in 1..Len(log) |-> IF log[i].ref = q THEN log[i].delta ELSE 0]

LEMMA ForSaleInt ==
    ASSUME NEW q, NEW log \in Seq(Movement)
    PROVE  /\ \A i \in 1..Len(log) : ForSale(q, log)[i] \in Int
           /\ PostedFor(q, log) = SumFunctionOnSet(ForSale(q, log), 1..Len(log))
           /\ PostedFor(q, log) \in Int
<1>1. ASSUME NEW i \in 1..Len(log) PROVE ForSale(q, log)[i] \in Int
  <2>1. log[i] \in Movement
    OBVIOUS
  <2> QED
    BY <2>1 DEF Movement, ForSale
<1>2. PostedFor(q, log) = SumFunctionOnSet(ForSale(q, log), 1..Len(log))
  BY DEF PostedFor, SumFunction, ForSale
<1>3. SumFunctionOnSet(ForSale(q, log), 1..Len(log)) \in Int
  BY <1>1, Positions, SumInt
<1> QED
  BY <1>1, <1>2, <1>3

LEMMA PostedForEmpty ==
    ASSUME NEW q
    PROVE  PostedFor(q, <<>>) = 0
<1>1. PostedFor(q, <<>>) = SumFunctionOnSet(ForSale(q, <<>>), 1..0)
  BY DEF PostedFor, SumFunction, ForSale
<1>2. 1..0 = {}
  OBVIOUS
<1> QED
  BY <1>1, <1>2, SumEmpty

LEMMA PostedForConcat ==
    ASSUME NEW q, NEW log \in Seq(Movement), NEW more \in Seq(Movement)
    PROVE  PostedFor(q, log \o more) = PostedFor(q, log) + PostedFor(q, more)
<1> DEFINE f == ForSale(q, log)
           g == ForSale(q, more)
           h == ForSale(q, log \o more)
<1>1. /\ log \o more \in Seq(Movement)
      /\ Len(log \o more) = Len(log) + Len(more)
      /\ \A i \in 1..Len(log) : (log \o more)[i] = log[i]
      /\ \A i \in 1..Len(more) : (log \o more)[Len(log) + i] = more[i]
  OBVIOUS
<1>2. ASSUME NEW i \in 1..Len(log) PROVE f[i] \in Int /\ h[i] = f[i]
  <2>1. f[i] \in Int
    BY ForSaleInt
  <2>2. f[i] = IF log[i].ref = q THEN log[i].delta ELSE 0
    BY DEF ForSale
  <2>3. i \in 1..Len(log \o more) /\ (log \o more)[i] = log[i]
    BY <1>1
  <2> QED
    BY <2>1, <2>2, <2>3 DEF ForSale
<1>3. ASSUME NEW i \in 1..Len(more)
      PROVE  g[i] \in Int /\ h[Len(log) + i] = g[i]
  <2>1. g[i] \in Int
    BY ForSaleInt
  <2>2. g[i] = IF more[i].ref = q THEN more[i].delta ELSE 0
    BY DEF ForSale
  <2>3. /\ Len(log) + i \in 1..Len(log \o more)
        /\ (log \o more)[Len(log) + i] = more[i]
    BY <1>1
  <2> QED
    BY <2>1, <2>2, <2>3 DEF ForSale
<1> HIDE DEF f, g, h
<1>4. SumFunctionOnSet(h, 1..Len(log) + Len(more)) =
         SumFunctionOnSet(f, 1..Len(log)) + SumFunctionOnSet(g, 1..Len(more))
  <2>1. Joined(f, Len(log), g, Len(more), h)
    BY <1>2, <1>3 DEF Joined
  <2> QED
    BY <2>1, SumConcat
<1>5. /\ PostedFor(q, log) = SumFunctionOnSet(f, 1..Len(log))
      /\ PostedFor(q, more) = SumFunctionOnSet(g, 1..Len(more))
      /\ PostedFor(q, log \o more) = SumFunctionOnSet(h, 1..Len(log \o more))
  <2>1. log \o more \in Seq(Movement)
    BY <1>1
  <2>2. PostedFor(q, log \o more) = SumFunctionOnSet(h, 1..Len(log \o more))
    BY <2>1, ForSaleInt, Zenon DEF h
  <2> QED
    BY <2>2, ForSaleInt DEF f, g
<1> QED
  BY <1>1, <1>4, <1>5

LEMMA PostedForAppend ==
    ASSUME NEW q, NEW log \in Seq(Movement), NEW m \in Movement
    PROVE  PostedFor(q, Append(log, m)) =
              PostedFor(q, log) + (IF m.ref = q THEN m.delta ELSE 0)
<1> DEFINE f == ForSale(q, log)
           h == ForSale(q, Append(log, m))
           n == Len(log)
<1>1. /\ Append(log, m) \in Seq(Movement)
      /\ Len(Append(log, m)) = n + 1 /\ n \in Nat
      /\ \A i \in 1..n : Append(log, m)[i] = log[i]
      /\ Append(log, m)[n + 1] = m
  OBVIOUS
<1>2. /\ \A i \in 1..n : h[i] = f[i]
      /\ h[n + 1] = IF m.ref = q THEN m.delta ELSE 0
  BY <1>1 DEF ForSale
<1>3. \A i \in 1..n + 1 : h[i] \in Int
  BY <1>1, ForSaleInt
<1>4. PostedFor(q, log) \in Int /\ PostedFor(q, log) = SumFunctionOnSet(f, 1..n)
  BY ForSaleInt
<1>5. PostedFor(q, Append(log, m)) = SumFunctionOnSet(h, 1..n + 1)
  BY <1>1, ForSaleInt
<1> HIDE DEF f, h, n
<1>6. SumFunctionOnSet(h, 1..n + 1) = h[n + 1] + SumFunctionOnSet(h, 1..n)
  BY <1>1, <1>3, SumNext
<1>7. SumFunctionOnSet(h, 1..n) = SumFunctionOnSet(f, 1..n)
  BY <1>1, <1>2, Positions, SumSame
<1>8. h[n + 1] \in Int
  BY <1>1, <1>3
<1> QED
  BY <1>2, <1>4, <1>5, <1>6, <1>7, <1>8

----------------------------------------------------------------------------
(* The requests in progress: what a step of one worker leaves to another. *)

LEMMA TillTypes ==
    ASSUME TillInv
    PROVE  /\ stock \in [Variant -> Nat] /\ ledger \in [Variant -> Seq(Movement)]
           /\ holder \in [Variant -> Worker \cup {Nobody}]
           /\ writes \in [Worker -> [Variant -> Seq(Movement)]]
           /\ sale \in [Sale -> SaleRow]
           /\ saleLock \in [Sale -> Worker \cup {Nobody}]
           /\ returned \in [Return -> ReturnRow]
           /\ job \in [Worker -> Job]
BY DEF TillInv, RowsInv, BookTypeOK, RowsTypeOK, DeskInv, DeskTypeOK

(* A request that has made no call yet, or that makes none. *)
LEMMA NoCallYet ==
    ASSUME NEW w \in Worker, job'[w].todo = Calls(w)',
           Calls(w)' \in Seq(Adjustment),
           \A v \in Variant : stock'[v] \in Int /\ Seen(w, v)' = stock'[v],
           \A v \in Variant, q \in Sale : PostedFor(q, writes'[w][v]) = 0
    PROVE  CallsOK(w)' /\ WritesOK(w)'
<1>1. Len(job'[w].todo) \in Nat /\ Done(w)' = 0
  BY DEF Done
<1>2. CallsOK(w)'
  BY <1>1 DEF CallsOK
<1>3. \A v : Moved(Calls(w)', 0, v) = 0
  BY MovedNone
<1>4. \A v : Moved(Calls(w)', Done(w)', v) = 0
  BY <1>1, <1>3
<1>5. ASSUME NEW v \in Variant
      PROVE  /\ Seen(w, v)' = stock'[v] + Moved(Calls(w)', Done(w)', v)
             /\ \A q \in Sale :
                   PostedFor(q, writes'[w][v]) =
                      IF At(w, "sell")' /\ job'[w].sale = q
                      THEN Moved(Calls(w)', Done(w)', v) ELSE 0
  BY <1>4
<1>6. WritesOK(w)'
  BY <1>5 DEF WritesOK
<1> QED
  BY <1>2, <1>6

(* A worker whose request makes no calls has written nothing. *)
LEMMA NothingWritten ==
    ASSUME TillBooks, NEW w \in Worker, Calls(w) = <<>>
    PROVE  /\ job[w].todo = <<>>
           /\ \A v \in Variant : stock[v] \in Int /\ Seen(w, v) = stock[v]
           /\ \A v \in Variant, q \in Sale : PostedFor(q, writes[w][v]) = 0
<1>1. CallsOK(w) /\ WritesOK(w) /\ job[w] \in Job
  BY TillTypes DEF TillBooks, BooksInv, JobsInv
<1>2. job[w].todo \in Seq(Adjustment) /\ Len(job[w].todo) <= 0
  BY <1>1 DEF CallsOK, Job
<1>3. job[w].todo = <<>>
  BY <1>2
<1>4. Done(w) = 0
  BY <1>3 DEF Done
<1>5. \A v : Moved(Calls(w), Done(w), v) = 0
  BY <1>4, MovedNone
<1>6. \A v \in Variant : stock[v] \in Int
  BY TillTypes DEF TillBooks
<1> QED
  BY <1>1, <1>3, <1>5, <1>6 DEF WritesOK

(* The calls of the others, and what they did, stay what they were. *)
LEMMA OthersCalls ==
    ASSUME TillBooks, NEW x \in Worker,
           job'[x] = job[x], Calls(x)' = Calls(x), writes'[x] = writes[x],
           \A v \in Variant : stock'[v] \in Int,
           \A v \in Variant : writes[x][v] # <<>> => stock'[v] = stock[v]
    PROVE  CallsOK(x)' /\ WritesOK(x)'
<1>1. CallsOK(x) /\ WritesOK(x)
  BY DEF TillBooks, BooksInv, JobsInv
<1>2. Done(x)' = Done(x) /\ (At(x, "sell")' <=> At(x, "sell"))
  BY DEF Done, At
<1>3. CallsOK(x)'
  BY <1>1, <1>2 DEF CallsOK
<1>4. job[x].todo \in Seq(Adjustment) /\ Calls(x) \in Seq(Adjustment)
  BY <1>1, TillTypes DEF TillBooks, CallsOK, Job
<1>5. Done(x) \in 0..Len(Calls(x))
  BY <1>1, <1>4 DEF Done, CallsOK
<1>6. ASSUME NEW v \in Variant
      PROVE  Seen(x, v)' = stock'[v] + Moved(Calls(x), Done(x), v)
  <2>1. Seen(x, v) = stock[v] + Moved(Calls(x), Done(x), v)
    BY <1>1 DEF WritesOK
  <2>2. stock[v] \in Int /\ Moved(Calls(x), Done(x), v) \in Int
    BY <1>4, <1>5, MovedInt, TillTypes DEF TillBooks
  <2>3. CASE writes[x][v] = <<>>
    <3>1. Seen(x, v) = stock[v] /\ Seen(x, v)' = stock'[v]
      BY <2>3 DEF Seen, EndOf
    <3>2. Moved(Calls(x), Done(x), v) = 0
      BY <2>1, <2>2, <3>1
    <3> QED
      BY <3>1, <3>2
  <2>4. CASE writes[x][v] # <<>>
    BY <2>1, <2>4 DEF Seen
  <2> QED
    BY <2>3, <2>4
<1>7. WritesOK(x)'
  BY <1>1, <1>2, <1>6 DEF WritesOK
<1> QED
  BY <1>3, <1>7

(* What a step of w may do to the documents. *)
DocStep(w) ==
    /\ \A q \in Sale :
          \/ sale'[q] = sale[q]
          \/ job[w].at \in {"sell", "hold"} /\ job[w].sale = q
          \/ /\ sale[q].status # "NONE" /\ saleLock[q] \in {w, Nobody}
             /\ sale'[q] = [sale[q] EXCEPT !.status = "VOIDED"]
    /\ \A n \in Return :
          returned'[n] = returned[n] \/ (At(w, "return") /\ job[w].return = n)
    /\ \A q \in Sale, x \in Worker \ {w} : saleLock[q] = x => saleLock'[q] = x

(* A document that somebody else relies on is safe from w. *)
LEMMA Voided ==
    ASSUME TillInv, NEW q \in Sale,
           sale'[q] = [sale[q] EXCEPT !.status = "VOIDED"]
    PROVE  /\ sale'[q].status = "VOIDED" /\ sale'[q].lines = sale[q].lines
           /\ sale'[q].paid = sale[q].paid
<1>1. sale[q] \in SaleRow
  BY TillTypes
<1> QED
  BY <1>1 DEF SaleRow

LEMMA OthersDocs ==
    ASSUME TillBooks, NEW w \in Worker, NEW x \in Worker, x # w,
           job'[x] = job[x], DocStep(w)
    PROVE  DocsOK(x)' /\ Calls(x)' = Calls(x)
<1>1. /\ DocsOK(x) /\ DocsOK(w) /\ Apart(w, x) /\ TillInv
      /\ job[x] \in Job /\ NoSale.status = "NONE"
  BY TillTypes DEF TillBooks, BooksInv, JobsInv, NoSale
<1>2. \A a : At(x, a)' <=> At(x, a)
  BY DEF At
<1>3. ASSUME NEW q \in Sale, sale[q].status # "NONE"
      PROVE  \/ sale'[q] = sale[q]
             \/ /\ sale'[q].status = "VOIDED" /\ sale'[q].lines = sale[q].lines
                /\ saleLock[q] \in {w, Nobody}
  BY <1>1, <1>3, Voided DEF DocStep, DocsOK
<1>4. job[x].at \in {"sell", "hold"} =>
         job[x].sale \in Sale /\ sale'[job[x].sale] = NoSale
  BY <1>1 DEF DocStep, DocsOK, Apart
<1>5. At(x, "void") =>
         /\ job[x].sale \in Sale
         /\ sale'[job[x].sale] = sale[job[x].sale]
         /\ saleLock'[job[x].sale] = x
  BY <1>1, <1>3, StockRowsAssumption DEF DocStep, DocsOK
<1>6. At(x, "return") =>
         /\ job[x].sale \in Sale
         /\ sale'[job[x].sale].status \in Final
         /\ job[x].lines = sale'[job[x].sale].lines
         /\ job[x].return \in Return /\ returned'[job[x].return] = NoReturn
  BY <1>1, <1>3 DEF DocStep, DocsOK, Apart, Final
<1>7. At(x, "discard") =>
         \A q \in job[x].sales : sale'[q].status \in {"OPEN", "VOIDED"}
  BY <1>1, <1>3 DEF DocsOK, Job
<1>8. DocsOK(x)'
  BY <1>1, <1>2, <1>4, <1>5, <1>6, <1>7 DEF DocsOK
<1>9. Calls(x)' = Calls(x)
  BY <1>2, <1>5 DEF Calls
<1> QED
  BY <1>8, <1>9

(* A step of w keeps the requests in order if it keeps that of w in order. *)
LEMMA JobsStay ==
    ASSUME TillBooks, TillInv', NEW w \in Worker, DocStep(w),
           \A x \in Worker \ {w} :
              /\ job'[x] = job[x] /\ writes'[x] = writes[x]
              /\ \A v \in Variant : writes[x][v] # <<>> => stock'[v] = stock[v],
           CallsOK(w)', WritesOK(w)', DocsOK(w)',
           \A x \in Worker \ {w} : Apart(w, x)'
    PROVE  JobsInv'
<1>1. \A v \in Variant : stock'[v] \in Int
  BY DEF TillInv, RowsInv, BookTypeOK
<1>2. ASSUME NEW x \in Worker \ {w}
      PROVE  CallsOK(x)' /\ WritesOK(x)' /\ DocsOK(x)'
  <2>1. DocsOK(x)' /\ Calls(x)' = Calls(x)
    BY OthersDocs
  <2> QED
    BY <1>1, <2>1, OthersCalls
<1>3. ASSUME NEW x \in Worker, NEW y \in Worker, x # y
      PROVE  Apart(x, y)'
  <2>1. CASE x = w
    BY <1>3, <2>1
  <2>2. CASE y = w
    <3>1. Apart(w, x)'
      BY <1>3, <2>2
    <3> QED
      BY <2>2, <3>1 DEF Apart
  <2>3. CASE x # w /\ y # w
    <3>1. Apart(x, y) /\ job'[x] = job[x] /\ job'[y] = job[y]
      BY <1>3, <2>3 DEF TillBooks, BooksInv, JobsInv
    <3> QED
      BY <3>1 DEF Apart, At
  <2> QED
    BY <2>1, <2>2, <2>3
<1> QED
  BY <1>2, <1>3 DEF JobsInv

----------------------------------------------------------------------------
(* The sums over all sales and over all returns. *)

SoldOf(v) == SumFunction([q \in Standing |-> Units(sale[q].lines, v)])
BackOf(v) == SumFunction([n \in Restocked |-> PutBack(n, v)])

LEMMA SumIsInt ==
    ASSUME NEW f, IsFiniteSet(DOMAIN f), \A x \in DOMAIN f : f[x] \in Int
    PROVE  SumFunction(f) \in Int
BY SumInt DEF SumFunction

(* g is f with one more value. *)
LEMMA SumWithOneMore ==
    ASSUME NEW f, NEW g, IsFiniteSet(DOMAIN f),
           NEW y, y \notin DOMAIN f, DOMAIN g = DOMAIN f \cup {y},
           \A x \in DOMAIN g : g[x] \in Int,
           \A x \in DOMAIN f : g[x] = f[x]
    PROVE  SumFunction(g) = SumFunction(f) + g[y]
<1> DEFINE D == DOMAIN f
<1>1. SumFunctionOnSet(g, D \cup {y}) = g[y] + SumFunctionOnSet(g, D)
  BY SumOneMore
<1>2. SumFunctionOnSet(g, D) = SumFunctionOnSet(f, D)
  BY SumSame
<1>3. g[y] \in Int /\ SumFunctionOnSet(g, D) \in Int
  BY SumInt
<1> QED
  BY <1>1, <1>2, <1>3 DEF SumFunction

LEMMA UnitsOfRow ==
    ASSUME NEW row \in SaleRow, NEW v
    PROVE  Units(row.lines, v) \in Int
<1>1. row.lines \in Seq(CartLine)
  BY DEF SaleRow
<1> QED
  BY <1>1, UnitsInt

LEMMA StandingInt ==
    ASSUME TillInv, IsFiniteSet(Standing), NEW v
    PROVE  SoldOf(v) \in Int
<1> DEFINE f == [q \in Standing |-> Units(sale[q].lines, v)]
<1>1. \A q \in Standing : sale[q] \in SaleRow
  BY TillTypes DEF Standing
<1>2. \A q \in DOMAIN f : f[q] \in Int
  BY <1>1, UnitsOfRow
<1>3. DOMAIN f = Standing
  OBVIOUS
<1> HIDE DEF f
<1>4. SumFunction(f) \in Int
  BY <1>2, <1>3, SumIsInt
<1> QED
  BY <1>4 DEF SoldOf, f

LEMMA ShelfOfRow ==
    ASSUME NEW row \in ReturnRow, NEW lines, NEW v
    PROVE  BackOnShelf(lines, row.lines, v) \in Int
<1>1. row.lines \in Seq(ReturnLine)
  BY DEF ReturnRow
<1> QED
  BY <1>1, AllRestocked

LEMMA PutBackIsShelf ==
    ASSUME NEW n, NEW v
    PROVE  PutBack(n, v) =
              BackOnShelf(sale[returned[n].sale].lines, returned[n].lines, v)
BY DEF PutBack, BackOnShelf

LEMMA RestockedInt ==
    ASSUME TillInv, IsFiniteSet(Restocked), NEW v
    PROVE  BackOf(v) \in Int
<1> DEFINE f == [n \in Restocked |-> PutBack(n, v)]
<1>1. \A n \in Restocked : returned[n] \in ReturnRow
  BY TillTypes DEF Restocked
<1>2. \A n \in DOMAIN f : f[n] \in Int
  <2>1. \A n \in Restocked : PutBack(n, v) \in Int
    BY <1>1, ShelfOfRow, PutBackIsShelf
  <2> QED
    BY <2>1
<1>3. DOMAIN f = Restocked
  OBVIOUS
<1> HIDE DEF f
<1>4. SumFunction(f) \in Int
  BY <1>2, <1>3, SumIsInt
<1> QED
  BY <1>4 DEF BackOf, f

(* The sum of the sales that stand, when one more does, or one less. *)
LEMMA SoldSame ==
    ASSUME Standing' = Standing,
           \A q \in Standing : sale'[q].lines = sale[q].lines, NEW v
    PROVE  SoldOf(v)' = SoldOf(v)
<1>1. \A q \in Standing : Units(sale'[q].lines, v) = Units(sale[q].lines, v)
  OBVIOUS
<1>2. [q \in Standing |-> Units(sale[q].lines, v)]' =
         [q \in Standing |-> Units(sale[q].lines, v)]
  BY <1>1
<1> QED
  BY <1>2 DEF SoldOf

LEMMA SoldMore ==
    ASSUME TillInv, TillInv', IsFiniteSet(Standing),
           NEW y \in Sale, y \notin Standing, Standing' = Standing \cup {y},
           \A q \in Standing : sale'[q].lines = sale[q].lines, NEW v
    PROVE  SoldOf(v)' = SoldOf(v) + Units(sale'[y].lines, v)
<1> DEFINE f == [q \in Standing |-> Units(sale[q].lines, v)]
           g == [q \in Standing' |-> Units(sale'[q].lines, v)]
<1>1. \A q \in Sale : sale'[q] \in SaleRow
  BY DEF TillInv, DeskInv, DeskTypeOK
<1>2. /\ DOMAIN f = Standing /\ DOMAIN g = Standing \cup {y}
      /\ \A q \in DOMAIN f : g[q] = f[q]
      /\ g[y] = Units(sale'[y].lines, v)
  OBVIOUS
<1>3. \A q \in DOMAIN g : g[q] \in Int
  BY <1>1, UnitsOfRow DEF Standing
<1>4. SoldOf(v)' = SumFunction(g) /\ SoldOf(v) = SumFunction(f)
  BY DEF SoldOf
<1> HIDE DEF f, g
<1>5. SumFunction(g) = SumFunction(f) + g[y]
  BY <1>2, <1>3, SumWithOneMore
<1> QED
  BY <1>2, <1>4, <1>5

LEMMA SoldLess ==
    ASSUME TillInv, TillInv', IsFiniteSet(Standing),
           NEW y \in Standing, Standing' = Standing \ {y},
           \A q \in Standing : sale'[q].lines = sale[q].lines, NEW v
    PROVE  SoldOf(v)' = SoldOf(v) - Units(sale[y].lines, v)
<1> DEFINE f == [q \in Standing |-> Units(sale[q].lines, v)]
           g == [q \in Standing' |-> Units(sale'[q].lines, v)]
<1>1. \A q \in Sale : sale[q] \in SaleRow
  BY TillTypes
<1>2. /\ DOMAIN f = Standing /\ DOMAIN g = Standing \ {y}
      /\ DOMAIN f = DOMAIN g \cup {y} /\ y \notin DOMAIN g
      /\ \A q \in DOMAIN g : f[q] = g[q]
      /\ f[y] = Units(sale[y].lines, v)
  OBVIOUS
<1>3. \A q \in DOMAIN f : f[q] \in Int
  BY <1>1, UnitsOfRow DEF Standing
<1>4. SoldOf(v)' = SumFunction(g) /\ SoldOf(v) = SumFunction(f)
  BY DEF SoldOf
<1>5. IsFiniteSet(DOMAIN g)
  BY <1>2, FS_Subset
<1> HIDE DEF f, g
<1>6. SumFunction(f) = SumFunction(g) + f[y]
  BY <1>2, <1>3, <1>5, SumWithOneMore
<1>7. SumFunction(g) \in Int /\ f[y] \in Int
  BY <1>2, <1>3, <1>5, SumIsInt
<1> QED
  BY <1>2, <1>4, <1>6, <1>7

(* A return is about a sale that keeps its lines. *)
LEMMA PutBackSame ==
    ASSUME NEW n, returned'[n] = returned[n],
           sale'[returned[n].sale].lines = sale[returned[n].sale].lines, NEW v
    PROVE  PutBack(n, v)' = PutBack(n, v)
BY DEF PutBack

LEMMA BackSame ==
    ASSUME Restocked' = Restocked,
           \A n \in Restocked :
              /\ returned'[n] = returned[n]
              /\ sale'[returned[n].sale].lines = sale[returned[n].sale].lines,
           NEW v
    PROVE  BackOf(v)' = BackOf(v)
<1>1. \A n \in Restocked : PutBack(n, v)' = PutBack(n, v)
  BY PutBackSame
<1>2. [n \in Restocked |-> PutBack(n, v)]' = [n \in Restocked |-> PutBack(n, v)]
  BY <1>1
<1> QED
  BY <1>2 DEF BackOf

LEMMA BackMore ==
    ASSUME TillInv, TillInv', IsFiniteSet(Restocked),
           NEW y \in Return, y \notin Restocked,
           Restocked' = Restocked \cup {y},
           \A n \in Restocked :
              /\ returned'[n] = returned[n]
              /\ sale'[returned[n].sale].lines = sale[returned[n].sale].lines,
           NEW v
    PROVE  BackOf(v)' = BackOf(v) + PutBack(y, v)'
<1> DEFINE f == [n \in Restocked |-> PutBack(n, v)]
           g == [n \in Restocked' |-> PutBack(n, v)']
<1>1. \A n \in Return : PutBack(n, v)' \in Int
  <2>1. \A n \in Return : returned'[n] \in ReturnRow
    BY DEF TillInv, DeskInv, DeskTypeOK
  <2>2. \A n : PutBack(n, v)' =
           BackOnShelf(sale'[returned'[n].sale].lines, returned'[n].lines, v)
    BY DEF PutBack, BackOnShelf
  <2> QED
    BY <2>1, <2>2, ShelfOfRow
<1>2. \A n \in Restocked : PutBack(n, v)' = PutBack(n, v)
  BY PutBackSame
<1>3. /\ DOMAIN f = Restocked /\ DOMAIN g = Restocked \cup {y}
      /\ \A n \in DOMAIN f : g[n] = f[n]
      /\ g[y] = PutBack(y, v)'
  BY <1>2
<1>4. \A n \in DOMAIN g : g[n] \in Int
  BY <1>1 DEF Restocked
<1>5. BackOf(v)' = SumFunction(g) /\ BackOf(v) = SumFunction(f)
  BY DEF BackOf
<1> HIDE DEF f, g
<1>6. SumFunction(g) = SumFunction(f) + g[y]
  BY <1>3, <1>4, SumWithOneMore
<1> QED
  BY <1>3, <1>5, <1>6

----------------------------------------------------------------------------
(* The documents and the stock agree after a step as they did before. *)

LEMMA KnownSales ==
    ASSUME TillBooks, NEW w \in Worker, DocStep(w),
           NEW q \in Sale, sale[q].status # "NONE"
    PROVE  /\ sale'[q].lines = sale[q].lines /\ sale'[q].paid = sale[q].paid
           /\ sale[q].status \in Final => sale'[q].status \in Final
<1>1. DocsOK(w) /\ TillInv /\ NoSale.status = "NONE"
  BY DEF TillBooks, BooksInv, JobsInv, NoSale
<1>2. \/ sale'[q] = sale[q]
      \/ sale'[q] = [sale[q] EXCEPT !.status = "VOIDED"]
  BY <1>1 DEF DocStep, DocsOK
<1> QED
  BY <1>1, <1>2, Voided DEF Final

LEMMA KnownReturns ==
    ASSUME TillBooks, NEW w \in Worker, DocStep(w), NEW n \in Restocked
    PROVE  LET q == returned[n].sale
           IN  /\ n \in Restocked' /\ returned'[n] = returned[n]
               /\ q \in Sale /\ sale'[q].lines = sale[q].lines
               /\ sale'[q].status \in Final
               /\ \A j \in 1..Len(returned[n].lines) :
                     returned[n].lines[j].line \in 1..Len(sale[q].lines)
<1>1. DocsOK(w) /\ ReturnsOK /\ NoReturn.restock = FALSE
  BY DEF TillBooks, BooksInv, JobsInv, AgreeInv, NoReturn
<1>2. n \in Return /\ returned[n].restock
  BY DEF Restocked
<1>3. returned'[n] = returned[n]
  BY <1>1, <1>2 DEF DocStep, DocsOK
<1>4. /\ returned[n].sale \in Sale /\ sale[returned[n].sale].status \in Final
      /\ \A j \in 1..Len(returned[n].lines) :
            returned[n].lines[j].line \in 1..Len(sale[returned[n].sale].lines)
  BY <1>1 DEF ReturnsOK
<1>5. /\ sale'[returned[n].sale].lines = sale[returned[n].sale].lines
      /\ sale'[returned[n].sale].status \in Final
  BY <1>4, KnownSales DEF Final
<1> QED
  BY <1>2, <1>3, <1>4, <1>5 DEF Restocked

LEMMA ReturnsOKStays ==
    ASSUME TillBooks, NEW w \in Worker, DocStep(w), Restocked' = Restocked
    PROVE  ReturnsOK'
<1>1. ASSUME NEW n \in Restocked'
      PROVE  /\ returned'[n].sale \in Sale
             /\ sale'[returned'[n].sale].status \in Final
             /\ \A j \in 1..Len(returned'[n].lines) :
                   returned'[n].lines[j].line
                      \in 1..Len(sale'[returned'[n].sale].lines)
  <2>1. n \in Restocked
    OBVIOUS
  <2> QED
    BY <2>1, KnownReturns
<1> QED
  BY <1>1 DEF ReturnsOK

(* What the till knows about its sums. *)
LEMMA Reconciled ==
    ASSUME TillBooks, NEW v \in Variant
    PROVE  /\ stock[v] = InitialStock[v] - SoldOf(v) + BackOf(v)
           /\ SoldOf(v) \in Int /\ BackOf(v) \in Int
           /\ InitialStock[v] \in Int /\ stock[v] \in Int
<1>1. TillInv /\ IsFiniteSet(Standing) /\ IsFiniteSet(Restocked)
      /\ BooksReconcile
  BY DEF TillBooks, BooksInv, AgreeInv
<1>2. stock[v] = InitialStock[v] - SoldOf(v) + BackOf(v)
  BY <1>1 DEF BooksReconcile, SoldOf, BackOf
<1>3. SoldOf(v) \in Int /\ BackOf(v) \in Int
  BY <1>1, StandingInt, RestockedInt
<1>4. InitialStock[v] \in Int /\ stock[v] \in Int
  BY <1>1, TillTypes, StockBookAssumption
<1> QED
  BY <1>2, <1>3, <1>4

LEMMA ReconciledNext ==
    ASSUME \A v \in Variant :
              stock'[v] = InitialStock[v] - SoldOf(v)' + BackOf(v)'
    PROVE  BooksReconcile'
BY DEF BooksReconcile, SoldOf, BackOf

(* Nothing changes hands. *)
LEMMA AgreeSame ==
    ASSUME TillBooks, NEW w \in Worker, DocStep(w),
           Standing' = Standing, Restocked' = Restocked,
           \A v \in Variant :
              /\ stock'[v] = stock[v]
              /\ \A q \in Sale : PostedFor(q, ledger'[v]) = PostedFor(q, ledger[v]),
           \A q \in Sale : /\ sale'[q].paid = sale[q].paid
                           /\ sale[q].paid => sale'[q].lines = sale[q].lines
    PROVE  AgreeInv'
<1>1. IsFiniteSet(Standing') /\ IsFiniteSet(Restocked') /\ ReturnsOK'
  BY ReturnsOKStays DEF TillBooks, BooksInv, AgreeInv
<1>2. \A q \in Standing : sale'[q].lines = sale[q].lines
  BY KnownSales DEF Standing
<1>3. \A n \in Restocked :
         /\ returned'[n] = returned[n]
         /\ sale'[returned[n].sale].lines = sale[returned[n].sale].lines
  BY KnownReturns
<1>4. \A v : SoldOf(v)' = SoldOf(v) /\ BackOf(v)' = BackOf(v)
  BY <1>2, <1>3, SoldSame, BackSame
<1>5. BooksReconcile'
  BY <1>4, Reconciled, ReconciledNext
<1>6. SaleIsPosted
  BY DEF TillBooks, BooksInv, AgreeInv
<1>7. ASSUME NEW q \in Sale, NEW v \in Variant
      PROVE  PostedFor(q, ledger'[v]) =
                IF sale'[q].paid THEN 0 - Units(sale'[q].lines, v) ELSE 0
  BY <1>6 DEF SaleIsPosted
<1>8. SaleIsPosted'
  BY <1>7 DEF SaleIsPosted
<1> QED
  BY <1>1, <1>5, <1>8 DEF AgreeInv

(* A transaction that has made all its calls commits them all. *)
LEMMA AllCommitted ==
    ASSUME TillBooks, NEW w \in Worker, job[w].todo = <<>>, Commit(w),
           NEW v \in Variant
    PROVE  LET moved == Moved(Calls(w), Len(Calls(w)), v)
           IN  /\ moved \in Int
               /\ stock'[v] = stock[v] + moved
               /\ \A q \in Sale :
                     PostedFor(q, ledger'[v]) =
                        PostedFor(q, ledger[v])
                          + (IF At(w, "sell") /\ job[w].sale = q
                             THEN moved ELSE 0)
<1>1. CallsOK(w) /\ WritesOK(w)
  BY DEF TillBooks, BooksInv, JobsInv
<1>2. Calls(w) \in Seq(Adjustment) /\ Len(job[w].todo) = 0
  BY <1>1 DEF CallsOK
<1>3. Done(w) = Len(Calls(w)) /\ Len(Calls(w)) \in 0..Len(Calls(w))
  BY <1>2 DEF Done
<1>4. Moved(Calls(w), Len(Calls(w)), v) \in Int
  BY <1>2, <1>3, MovedInt
<1>5. stock'[v] = Seen(w, v) /\ ledger'[v] = ledger[v] \o writes[w][v]
  BY DEF Commit
<1>6. ledger[v] \in Seq(Movement) /\ writes[w][v] \in Seq(Movement)
  BY TillTypes DEF TillBooks
<1>7. \A q : PostedFor(q, ledger'[v]) =
                PostedFor(q, ledger[v]) + PostedFor(q, writes[w][v])
  BY <1>5, <1>6, PostedForConcat
<1> QED
  BY <1>1, <1>3, <1>4, <1>5, <1>7 DEF WritesOK

(* Those whose rows are committed by others have not written them. *)
LEMMA OthersRows ==
    ASSUME TillBooks, NEW w \in Worker, NEW x \in Worker \ {w}
    PROVE  /\ Commit(w) =>
                /\ writes'[x] = writes[x]
                /\ \A v \in Variant : writes[x][v] # <<>> => stock'[v] = stock[v]
           /\ EndTransaction(w) =>
                /\ writes'[x] = writes[x]
                /\ \A v \in Variant : writes'[w][v] = <<>>
<1>1. writes \in [Worker -> [Variant -> Seq(Movement)]] /\ Isolation
  BY TillTypes DEF TillBooks, TillInv, RowsInv
<1>2. ASSUME EndTransaction(w)
      PROVE  writes'[x] = writes[x] /\ \A v \in Variant : writes'[w][v] = <<>>
  BY <1>1, <1>2 DEF EndTransaction
<1>3. ASSUME Commit(w), NEW v \in Variant, writes[x][v] # <<>>
      PROVE  stock'[v] = stock[v]
  <2>1. writes[w][v] = <<>>
    BY <1>1, <1>3 DEF Isolation
  <2> QED
    BY <1>3, <2>1 DEF Commit, Seen, EndOf
<1> QED
  BY <1>2, <1>3 DEF Commit

(* The end of a request, whatever it was. *)
LEMMA EndsIdle ==
    ASSUME TillBooks, TillInv', NEW w \in Worker, job'[w] = Idle,
           \A v \in Variant : Seen(w, v)' = stock'[v],
           \A v \in Variant, q \in Sale : PostedFor(q, writes'[w][v]) = 0
    PROVE  /\ CallsOK(w)' /\ WritesOK(w)' /\ DocsOK(w)'
           /\ \A x \in Worker \ {w} : Apart(w, x)'
<1>1. Idle.at = "idle" /\ Idle.todo = <<>>
  BY DEF Idle
<1>2. Calls(w)' = <<>>
  BY <1>1 DEF Calls, At
<1>3. \A v \in Variant : stock'[v] \in Int
  BY DEF TillInv, RowsInv, BookTypeOK
<1>4. <<>> \in Seq(Adjustment)
  OBVIOUS
<1>5. CallsOK(w)' /\ WritesOK(w)'
  BY <1>1, <1>2, <1>3, <1>4, NoCallYet
<1>6. DocsOK(w)' /\ \A x \in Worker \ {w} : Apart(w, x)'
  BY <1>1 DEF DocsOK, Apart, At
<1> QED
  BY <1>5, <1>6

(* The end of a transaction. *)
LEMMA EndsClean ==
    ASSUME NEW w \in Worker, \A v \in Variant : writes'[w][v] = <<>>
    PROVE  /\ \A v \in Variant : Seen(w, v)' = stock'[v]
           /\ \A v \in Variant, q \in Sale : PostedFor(q, writes'[w][v]) = 0
BY PostedForEmpty DEF Seen, EndOf

----------------------------------------------------------------------------
(* The actions. *)

BooksStep(w) == DocStep(w) /\ JobsInv' /\ AgreeInv'

(* The request r is recorded; it has written nothing yet. *)
LEMMA BeginKeepsBooks ==
    ASSUME TillBooks, TillInv', NEW w \in Worker, At(w, "idle"),
           job' = [job EXCEPT ![w] = job'[w]],
           UNCHANGED <<bookVars, rowVars, deskVars>>,
           \A q \in Sale, x \in Worker \ {w} :
              saleLock[q] = x => saleLock'[q] = x,
           job'[w].todo = Calls(w)', Calls(w)' \in Seq(Adjustment),
           DocsOK(w)', \A x \in Worker \ {w} : Apart(w, x)'
    PROVE  BooksStep(w)
<1>1. UNCHANGED <<stock, ledger, writes, sale, returned>>
  BY DEF bookVars, rowVars, deskVars
<1>2. \A x \in Worker \ {w} : job'[x] = job[x]
  BY TillTypes DEF TillBooks
<1>3. Calls(w) = <<>>
  BY DEF Calls, At
<1>4. DocStep(w)
  BY <1>1 DEF DocStep
<1>5. CallsOK(w)' /\ WritesOK(w)'
  <2>1. \A v \in Variant : stock'[v] \in Int /\ Seen(w, v)' = stock'[v]
    BY <1>1, <1>3, NothingWritten DEF Seen
  <2>2. \A v \in Variant, q \in Sale : PostedFor(q, writes'[w][v]) = 0
    BY <1>1, <1>3, NothingWritten
  <2> QED
    BY <2>1, <2>2, NoCallYet
<1>6. JobsInv'
  BY <1>1, <1>2, <1>4, <1>5, JobsStay
<1>7. Standing' = Standing /\ Restocked' = Restocked
  BY <1>1 DEF Standing, Restocked
<1>8. AgreeInv'
  BY <1>1, <1>4, <1>7, AgreeSame
<1> QED
  BY <1>4, <1>6, <1>8 DEF BooksStep

LEMMA SellBeginKeepsBooks ==
    ASSUME TillBooks, TillInv', NEW w \in Worker, NEW q \in Sale, NEW s \in Shift,
           NEW lines \in Carts, SellBegin(w, q, s, lines)
    PROVE  BooksStep(w)
<1> DEFINE r == [Idle EXCEPT !.at = "sell", !.sale = q, !.shift = s,
                             !.lines = lines, !.todo = Deductions(lines)]
<1>1. lines \in Seq(CartLine) /\ Deductions(lines) \in Seq(Adjustment)
  BY TillAssumption, DeductionsType
<1>2. /\ r.at = "sell" /\ r.sale = q /\ r.lines = lines
      /\ r.todo = Deductions(lines)
  BY DEF Idle
<1>3. /\ Become(w, r) /\ At(w, "idle") /\ FreshSale(q)
      /\ UNCHANGED <<bookVars, rowVars, deskVars>> /\ saleLock' = saleLock
  BY DEF SellBegin
<1> HIDE DEF r
<1>4. job'[w] = r /\ \A x \in Worker \ {w} : job'[x] = job[x]
  BY <1>3, TillTypes DEF TillBooks, Become
<1>5. Calls(w)' = Deductions(lines)
  BY <1>2, <1>4 DEF Calls, At
<1>6. sale[q] = NoSale /\ \A x \in Worker : job[x].sale # q
  BY <1>3 DEF FreshSale
<1>7. DocsOK(w)'
  BY <1>2, <1>3, <1>4, <1>6 DEF DocsOK, At, deskVars
<1>8. \A x \in Worker \ {w} : Apart(w, x)'
  BY <1>2, <1>4, <1>6 DEF Apart, At
<1> QED
  BY <1>1, <1>2, <1>3, <1>4, <1>5, <1>7, <1>8, BeginKeepsBooks DEF Become

LEMMA HoldBeginKeepsBooks ==
    ASSUME TillBooks, TillInv', NEW w \in Worker, NEW q \in Sale, NEW s \in Shift,
           NEW lines \in Carts, HoldBegin(w, q, s, lines)
    PROVE  BooksStep(w)
<1> DEFINE r == [Idle EXCEPT !.at = "hold", !.sale = q, !.shift = s,
                             !.lines = lines]
<1>1. <<>> \in Seq(Adjustment)
  OBVIOUS
<1>2. r.at = "hold" /\ r.sale = q /\ r.lines = lines /\ r.todo = <<>>
  BY DEF Idle
<1>3. /\ Become(w, r) /\ At(w, "idle") /\ FreshSale(q)
      /\ UNCHANGED <<bookVars, rowVars, deskVars>> /\ saleLock' = saleLock
  BY DEF HoldBegin
<1> HIDE DEF r
<1>4. job'[w] = r /\ \A x \in Worker \ {w} : job'[x] = job[x]
  BY <1>3, TillTypes DEF TillBooks, Become
<1>5. Calls(w)' = <<>>
  BY <1>2, <1>4 DEF Calls, At
<1>6. sale[q] = NoSale /\ \A x \in Worker : job[x].sale # q
  BY <1>3 DEF FreshSale
<1>7. DocsOK(w)'
  BY <1>2, <1>3, <1>4, <1>6 DEF DocsOK, At, deskVars
<1>8. \A x \in Worker \ {w} : Apart(w, x)'
  BY <1>2, <1>4, <1>6 DEF Apart, At
<1> QED
  BY <1>1, <1>2, <1>3, <1>4, <1>5, <1>7, <1>8, BeginKeepsBooks DEF Become

LEMMA VoidBeginKeepsBooks ==
    ASSUME TillBooks, TillInv', NEW w \in Worker, NEW q \in Sale, VoidBegin(w, q)
    PROVE  BooksStep(w)
<1> DEFINE r == [Idle EXCEPT !.at = "void", !.sale = q,
                             !.todo = Restorations(sale[q].lines)]
<1>1. Restorations(sale[q].lines) \in Seq(Adjustment)
  <2>1. sale[q] \in SaleRow
    BY TillTypes DEF TillBooks
  <2>2. sale[q].lines \in Seq(CartLine)
    BY <2>1 DEF SaleRow
  <2> QED
    BY <2>2, RestorationsType
<1>2. r.at = "void" /\ r.sale = q /\ r.todo = Restorations(sale[q].lines)
  BY DEF Idle
<1>3. /\ Become(w, r) /\ At(w, "idle") /\ sale[q].status = "COMPLETED"
      /\ saleLock[q] = Nobody /\ saleLock' = [saleLock EXCEPT ![q] = w]
      /\ UNCHANGED <<bookVars, rowVars, deskVars>> /\ sale' = sale
  BY DEF VoidBegin, deskVars
<1> HIDE DEF r
<1>4. job'[w] = r /\ \A x \in Worker \ {w} : job'[x] = job[x]
  BY <1>3, TillTypes DEF TillBooks, Become
<1>5. Calls(w)' = Restorations(sale[q].lines)
  BY <1>2, <1>3, <1>4 DEF Calls, At
<1>6. saleLock \in [Sale -> Worker \cup {Nobody}]
  BY TillTypes DEF TillBooks
<1>7. saleLock'[q] = w /\ \A p \in Sale, x \in Worker \ {w} :
                             saleLock[p] = x => saleLock'[p] = x
  BY <1>3, <1>6, StockRowsAssumption
<1>8. DocsOK(w)'
  BY <1>2, <1>3, <1>4, <1>7 DEF DocsOK, At
<1>9. \A x \in Worker \ {w} : Apart(w, x)'
  BY <1>2, <1>4 DEF Apart, At
<1> QED
  BY <1>1, <1>2, <1>3, <1>4, <1>5, <1>7, <1>8, <1>9, BeginKeepsBooks DEF Become

LEMMA ReturnBeginKeepsBooks ==
    ASSUME TillBooks, TillInv', NEW w \in Worker, NEW n \in Return, NEW q \in Sale,
           NEW back \in ReturnBodies, NEW restock \in BOOLEAN,
           ReturnBegin(w, n, q, back, restock)
    PROVE  BooksStep(w)
<1> DEFINE todo == IF restock THEN Restocks(sale[q].lines, back) ELSE <<>>
           r == [Idle EXCEPT !.at = "return", !.sale = q, !.return = n,
                    !.back = back, !.lines = sale[q].lines,
                    !.restock = restock, !.todo = todo]
<1>1. \A j \in 1..Len(back) : back[j].line \in 1..Len(sale[q].lines)
  BY DEF ReturnBegin, Returnable
<1>2. todo \in Seq(Adjustment)
  <2>1. sale[q] \in SaleRow /\ back \in Seq(ReturnLine)
    BY TillTypes, TillAssumption DEF TillBooks
  <2>2. sale[q].lines \in Seq(CartLine)
    BY <2>1 DEF SaleRow
  <2> QED
    BY <1>1, <2>1, <2>2, RestocksType
<1>3. /\ r.at = "return" /\ r.sale = q /\ r.return = n /\ r.back = back
      /\ r.lines = sale[q].lines /\ r.restock = restock /\ r.todo = todo
  BY DEF Idle
<1>4. /\ Become(w, r) /\ At(w, "idle") /\ sale[q].status = "COMPLETED"
      /\ returned[n] = NoReturn /\ \A x \in Worker : job[x].return # n
      /\ UNCHANGED <<bookVars, rowVars, deskVars>>
      /\ UNCHANGED <<sale, returned, saleLock>>
  BY DEF ReturnBegin, deskVars, lockVars
<1> HIDE DEF r
<1>5. job'[w] = r /\ \A x \in Worker \ {w} : job'[x] = job[x]
  BY <1>4, TillTypes DEF TillBooks, Become
<1>6. Calls(w)' = todo
  BY <1>3, <1>5 DEF Calls, At
<1> HIDE DEF todo
<1>7. DocsOK(w)'
  BY <1>1, <1>3, <1>4, <1>5 DEF DocsOK, At, Final
<1>8. \A x \in Worker \ {w} : Apart(w, x)'
  BY <1>3, <1>4, <1>5 DEF Apart, At
<1> QED
  BY <1>2, <1>3, <1>4, <1>5, <1>6, <1>7, <1>8, BeginKeepsBooks DEF Become

(* Shifts are opened and closed without touching stock. *)
LEMMA ShiftBeginKeepsBooks ==
    ASSUME TillBooks, TillInv', NEW w \in Worker, NEW s \in Shift,
           OpenCheck(w, s) \/ CloseBegin(w, s)
    PROVE  BooksStep(w)
<1>1. PICK a \in {"open", "list"} :
         Become(w, [Idle EXCEPT !.at = a, !.shift = s])
  BY DEF OpenCheck, CloseBegin
<1> DEFINE r == [Idle EXCEPT !.at = a, !.shift = s]
<1>2. r.at \in {"open", "list"} /\ r.todo = <<>>
  BY DEF Idle
<1>3. /\ Become(w, r) /\ At(w, "idle") /\ saleLock' = saleLock
      /\ UNCHANGED <<bookVars, rowVars, deskVars>>
  BY <1>1 DEF OpenCheck, CloseBegin, lockVars
<1> HIDE DEF r
<1>4. job'[w] = r
  BY <1>3, TillTypes DEF TillBooks, Become
<1>5. Calls(w)' = <<>> /\ <<>> \in Seq(Adjustment)
  BY <1>2, <1>4 DEF Calls, At
<1>6. DocsOK(w)' /\ \A x \in Worker \ {w} : Apart(w, x)'
  BY <1>2, <1>4 DEF DocsOK, Apart, At
<1> QED
  BY <1>2, <1>3, <1>4, <1>5, <1>6, BeginKeepsBooks DEF Become

(* Nothing that the books are about changes. *)
LEMMA QuietKeepsBooks ==
    ASSUME TillBooks, TillInv',
           UNCHANGED <<stock, ledger, writes, sale, saleLock, returned, job>>
    PROVE  JobsInv' /\ AgreeInv'
<1>1. ASSUME NEW x \in Worker PROVE CallsOK(x)' /\ WritesOK(x)' /\ DocsOK(x)'
  <2>1. Calls(x)' = Calls(x)
    BY DEF Calls, At
  <2>2. CallsOK(x)' /\ WritesOK(x)'
    BY <2>1, OthersCalls, TillTypes DEF TillBooks
  <2>3. DocsOK(x)
    BY DEF TillBooks, BooksInv, JobsInv
  <2>4. DocsOK(x)'
    BY <2>3 DEF DocsOK, At
  <2> QED
    BY <2>2, <2>4
<1>2. \A w, x \in Worker : w # x => Apart(w, x)'
  BY DEF TillBooks, BooksInv, JobsInv, Apart, At
<1>3. JobsInv'
  BY <1>1, <1>2 DEF JobsInv
<1>4. Standing' = Standing /\ Restocked' = Restocked
  BY DEF Standing, Restocked
<1>5. /\ IsFiniteSet(Standing) /\ IsFiniteSet(Restocked)
      /\ ReturnsOK /\ SaleIsPosted
  BY DEF TillBooks, BooksInv, AgreeInv
<1>6. ReturnsOK' /\ SaleIsPosted'
  BY <1>4, <1>5 DEF ReturnsOK, SaleIsPosted
<1>7. \A v : SoldOf(v)' = SoldOf(v) /\ BackOf(v)' = BackOf(v)
  BY <1>4, SoldSame, BackSame
<1>8. BooksReconcile'
  BY <1>7, Reconciled, ReconciledNext
<1> QED
  BY <1>3, <1>4, <1>5, <1>6, <1>8 DEF AgreeInv

LEMMA DeletionKeepsBooks ==
    ASSUME TillBooks, TillInv', NEW w \in Worker, NEW v \in Variant,
           DeleteVariant(w, v)
    PROVE  BooksStep(w)
<1>1. UNCHANGED <<stock, ledger, writes, sale, saleLock, returned, job>>
  BY DEF DeleteVariant, RetireVariant, rowVars, deskVars, lockVars
<1>2. DocStep(w)
  BY <1>1 DEF DocStep
<1> QED
  BY <1>1, <1>2, QuietKeepsBooks DEF BooksStep

----------------------------------------------------------------------------
(* One more call of a request. *)

LEMMA PlacesOfTail ==
    ASSUME NEW s \in Seq(Adjustment), s # <<>>
    PROVE  /\ Len(Tail(s)) = Len(s) - 1
           /\ \A i \in 1..Len(Tail(s)) : Tail(s)[i] = s[i + 1]
OBVIOUS

LEMMA OneMoreCall ==
    ASSUME TillBooks, NEW w \in Worker, job[w].todo # <<>>,
           Calls(w)' = Calls(w), job'[w].todo = Tail(job[w].todo)
    PROVE  LET todo == job[w].todo  k == Done(w)
           IN  /\ Calls(w) \in Seq(Adjustment)
               /\ k \in Nat /\ k < Len(Calls(w)) /\ Done(w)' = k + 1
               /\ Head(todo) = Calls(w)[k + 1]
               /\ CallsOK(w)'
<1> DEFINE todo == job[w].todo
           k == Done(w)
<1>1. CallsOK(w) /\ job[w] \in Job
  BY TillTypes DEF TillBooks, BooksInv, JobsInv
<1>2. todo \in Seq(Adjustment) /\ Calls(w) \in Seq(Adjustment)
  BY <1>1 DEF CallsOK, Job
<1>3. Len(todo) <= Len(Calls(w)) /\ Len(todo) \in Nat /\ Len(todo) >= 1
      /\ Len(Calls(w)) \in Nat
  BY <1>1, <1>2 DEF CallsOK
<1>4. k = Len(Calls(w)) - Len(todo)
  BY DEF Done
<1>5. k \in Nat /\ k < Len(Calls(w))
  BY <1>3, <1>4
<1>6. \A i \in 1..Len(todo) : todo[i] = Calls(w)[k + i]
  BY <1>1 DEF CallsOK
<1>7. Head(todo) = Calls(w)[k + 1]
  BY <1>2, <1>3, <1>6
<1>8. /\ Len(Tail(todo)) = Len(todo) - 1
      /\ \A i \in 1..Len(Tail(todo)) : Tail(todo)[i] = todo[i + 1]
  <2>1. todo # <<>>
    OBVIOUS
  <2> HIDE DEF todo
  <2> QED
    BY <1>2, <2>1, PlacesOfTail
<1>9. Done(w)' = k + 1
  <2>1. Done(w)' = Len(Calls(w)') - Len(job'[w].todo)
    BY DEF Done
  <2>2. Done(w)' = Len(Calls(w)) - Len(Tail(todo))
    BY <2>1
  <2>3. Len(Tail(todo)) = Len(todo) - 1
    BY <1>8, Zenon
  <2>4. \A a, b \in Int : a - (b - 1) = (a - b) + 1
    OBVIOUS
  <2>5. Len(Calls(w)) - (Len(todo) - 1) = (Len(Calls(w)) - Len(todo)) + 1
    BY <1>3, <2>4
  <2> QED
    BY <1>4, <2>2, <2>3, <2>5, Zenon
<1>10. ASSUME NEW i \in 1..Len(Tail(todo))
       PROVE  Tail(todo)[i] = Calls(w)[(k + 1) + i]
  <2>1. i + 1 \in 1..Len(todo) /\ k + (i + 1) = (k + 1) + i
    BY <1>3, <1>5, <1>8
  <2> QED
    BY <1>6, <1>8, <2>1
<1>11. CallsOK(w)'
  BY <1>2, <1>3, <1>8, <1>9, <1>10 DEF CallsOK
<1> QED
  BY <1>2, <1>5, <1>7, <1>9, <1>11

LEMMA OneMoreWrite ==
    ASSUME TillBooks, NEW w \in Worker, NEW v \in Variant, NEW d \in Int,
           NEW reason \in Reason, NEW ref \in Ref \cup {NoRef},
           AdjustStock(w, v, d, reason, ref), NEW u \in Variant
    PROVE  /\ Seen(w, u)' = Seen(w, u) + (IF v = u THEN d ELSE 0)
           /\ \A q \in Sale :
                PostedFor(q, writes'[w][u]) =
                   PostedFor(q, writes[w][u])
                     + (IF v = u /\ Routed(reason, ref) = q THEN d ELSE 0)
<1> DEFINE m == Entry(Seen(w, v), d, reason, ref)
<1>1. /\ writes \in [Worker -> [Variant -> Seq(Movement)]]
      /\ stock' = stock /\ RowsInv
  BY TillTypes DEF TillBooks, TillInv, AdjustStock, bookVars
<1>2. writes'[w][u] = IF v = u THEN Append(writes[w][u], m) ELSE writes[w][u]
  BY <1>1 DEF AdjustStock
<1>3. Seen(w, v) \in Nat /\ Seen(w, u) \in Nat
  BY <1>1, SeenType
<1>4. m \in Movement
  BY <1>3, EntryType DEF AdjustStock
<1>5. /\ m.delta = d /\ m.after = Seen(w, v) + d
      /\ m.ref = Routed(reason, ref)
  BY <1>3, EntryFields DEF Entry
<1> HIDE DEF m
<1>6. \A q \in Sale : PostedFor(q, writes[w][u]) \in Int
  BY <1>1, ForSaleInt
<1>7. CASE v = u
  <2> DEFINE log == writes[w][u]
  <2>1. log \in Seq(Movement)
    BY <1>1
  <2>2. /\ Append(log, m) # <<>> /\ Len(Append(log, m)) = Len(log) + 1
        /\ Append(log, m)[Len(log) + 1] = m
    BY <1>4, <2>1
  <2>3. Seen(w, u)' = m.after
    BY <1>2, <1>7, <2>2 DEF Seen, EndOf
  <2>4. \A q \in Sale : PostedFor(q, Append(log, m)) =
           PostedFor(q, log) + (IF m.ref = q THEN m.delta ELSE 0)
    BY <1>4, <2>1, PostedForAppend
  <2> QED
    BY <1>2, <1>5, <1>7, <2>3, <2>4
<1>8. CASE v # u
  <2>1. Seen(w, u)' = Seen(w, u)
    BY <1>1, <1>2, <1>8 DEF Seen
  <2> QED
    BY <1>2, <1>3, <1>6, <1>8, <2>1
<1> QED
  BY <1>7, <1>8

LEMMA AdjustKeepsBooks ==
    ASSUME TillBooks, TillInv', NEW w \in Worker, NEW reason \in Reason,
           AdjustNext(w, reason),
           \/ At(w, "sell") /\ reason = "SALE"
           \/ At(w, "void") /\ reason = "VOID_REVERSAL"
           \/ At(w, "return") /\ reason = "SALE_RETURN"
    PROVE  BooksStep(w)
<1> DEFINE line == Head(job[w].todo)
           k == Done(w)
           ref == job[w].sale
<1>1. job[w] \in Job /\ job[w].todo # <<>>
  BY TillTypes DEF TillBooks, AdjustNext
<1>2. job[w].todo \in Seq(Adjustment) /\ ref \in Ref \cup {NoRef}
  BY <1>1, TillAssumption DEF Job
<1>3. line.variant \in Variant /\ line.delta \in Int
  BY <1>1, <1>2, HeadOfTodo
<1>4. /\ AdjustStock(w, line.variant, line.delta, reason, ref)
      /\ job' = [job EXCEPT ![w].todo = Tail(@)]
      /\ UNCHANGED <<sale, returned, saleLock>>
  BY DEF AdjustNext, deskVars, lockVars
<1>5. /\ job'[w] = [job[w] EXCEPT !.todo = Tail(@)]
      /\ \A x \in Worker \ {w} : job'[x] = job[x]
  BY <1>4, TillTypes DEF TillBooks
<1>6. /\ job'[w].at = job[w].at /\ job'[w].sale = job[w].sale
      /\ job'[w].lines = job[w].lines /\ job'[w].back = job[w].back
      /\ job'[w].restock = job[w].restock /\ job'[w].return = job[w].return
      /\ job'[w].sales = job[w].sales /\ job'[w].todo = Tail(job[w].todo)
  BY <1>1, <1>5 DEF Job
<1>7. Calls(w)' = Calls(w)
  BY <1>4, <1>6 DEF Calls, At
<1>8. /\ Calls(w) \in Seq(Adjustment)
      /\ k \in Nat /\ k < Len(Calls(w)) /\ Done(w)' = k + 1
      /\ line = Calls(w)[k + 1] /\ CallsOK(w)'
  BY <1>1, <1>6, <1>7, OneMoreCall
<1>9. /\ stock' = stock /\ ledger' = ledger
      /\ \A x \in Worker \ {w} : writes'[x] = writes[x]
  BY <1>4, TillTypes DEF TillBooks, AdjustStock, bookVars
<1>10. DocsOK(w) /\ WritesOK(w)
  BY DEF TillBooks, BooksInv, JobsInv
<1>11. \A q \in Sale : Routed(reason, ref) = q <=> At(w, "sell") /\ ref = q
  BY <1>2, TillAssumption, StockBookAssumption DEF Routed, At
<1> HIDE DEF line, k, ref
<1>12. ASSUME NEW u \in Variant
       PROVE  /\ Seen(w, u)' = stock'[u] + Moved(Calls(w), k + 1, u)
              /\ \A q \in Sale :
                   PostedFor(q, writes'[w][u]) =
                      IF At(w, "sell") /\ ref = q
                      THEN Moved(Calls(w), k + 1, u) ELSE 0
  <2> DEFINE d == IF line.variant = u THEN line.delta ELSE 0
  <2>1. Moved(Calls(w), k + 1, u) = Moved(Calls(w), k, u) + d
    BY <1>8, MovedNext
  <2>2. Moved(Calls(w), k, u) \in Int /\ stock[u] \in Int /\ d \in Int
    BY <1>3, <1>8, MovedInt, TillTypes DEF TillBooks
  <2>3. Seen(w, u)' = Seen(w, u) + d
    BY <1>2, <1>3, <1>4, OneMoreWrite DEF ref
  <2>4. ASSUME NEW q \in Sale
        PROVE  PostedFor(q, writes'[w][u]) = PostedFor(q, writes[w][u])
                  + (IF At(w, "sell") /\ ref = q THEN d ELSE 0)
    <3>1. PostedFor(q, writes'[w][u]) = PostedFor(q, writes[w][u])
            + (IF line.variant = u /\ Routed(reason, ref) = q
               THEN line.delta ELSE 0)
      BY <1>2, <1>3, <1>4, OneMoreWrite DEF ref
    <3> QED
      BY <1>11, <3>1
  <2>5. /\ Seen(w, u) = stock[u] + Moved(Calls(w), k, u)
        /\ \A q \in Sale :
             PostedFor(q, writes[w][u]) =
                IF At(w, "sell") /\ ref = q THEN Moved(Calls(w), k, u) ELSE 0
    BY <1>10 DEF WritesOK, k, ref
  <2> HIDE DEF d
  <2> QED
    BY <1>9, <2>1, <2>2, <2>3, <2>4, <2>5
<1>13. WritesOK(w)'
  BY <1>6, <1>7, <1>8, <1>12 DEF WritesOK, At, ref
<1>14. DocsOK(w)'
  BY <1>4, <1>6, <1>10 DEF DocsOK, At
<1>15. \A x \in Worker \ {w} : Apart(w, x)'
  BY <1>5, <1>6 DEF TillBooks, BooksInv, JobsInv, Apart, At
<1>16. DocStep(w)
  BY <1>4 DEF DocStep
<1>17. JobsInv'
  BY <1>5, <1>8, <1>9, <1>13, <1>14, <1>15, <1>16, JobsStay
<1>18. Standing' = Standing /\ Restocked' = Restocked
  BY <1>4 DEF Standing, Restocked
<1>19. AgreeInv'
  BY <1>4, <1>9, <1>16, <1>18, AgreeSame
<1> QED
  BY <1>16, <1>17, <1>19 DEF BooksStep

----------------------------------------------------------------------------
(* The end of a request that changes no document. *)

LEMMA EndKeepsBooks ==
    ASSUME TillBooks, TillInv', NEW w \in Worker, job'[w] = Idle,
           UNCHANGED <<stock, ledger, sale, returned>>,
           \A x \in Worker \ {w} : job'[x] = job[x] /\ writes'[x] = writes[x],
           \A q \in Sale, x \in Worker \ {w} :
              saleLock[q] = x => saleLock'[q] = x,
           \A v \in Variant : Seen(w, v)' = stock'[v],
           \A v \in Variant, q \in Sale : PostedFor(q, writes'[w][v]) = 0
    PROVE  BooksStep(w)
<1>1. DocStep(w)
  BY DEF DocStep
<1>2. JobsInv'
  BY <1>1, EndsIdle, JobsStay
<1>3. Standing' = Standing /\ Restocked' = Restocked
  BY DEF Standing, Restocked
<1>4. AgreeInv'
  BY <1>1, <1>3, AgreeSame
<1> QED
  BY <1>1, <1>2, <1>4 DEF BooksStep

LEMMA ReleaseOwn ==
    ASSUME TillInv, NEW w \in Worker, Release(w)
    PROVE  \A q \in Sale, x \in Worker \ {w} : saleLock[q] = x => saleLock'[q] = x
BY TillTypes DEF Release

LEMMA AbortKeepsBooks ==
    ASSUME TillBooks, TillInv', NEW w \in Worker, Abort(w)
    PROVE  BooksStep(w)
<1>1. /\ Become(w, Idle) /\ Release(w) /\ EndTransaction(w)
      /\ UNCHANGED <<stock, ledger, sale, returned>>
  BY DEF Abort, Rollback, bookVars, deskVars
<1>2. job'[w] = Idle /\ \A x \in Worker \ {w} : job'[x] = job[x]
  BY <1>1, TillTypes DEF TillBooks, Become
<1>3. \A x \in Worker \ {w} : writes'[x] = writes[x]
  BY <1>1, OthersRows
<1>4. \A v \in Variant : writes'[w][v] = <<>>
  BY <1>1, TillTypes DEF TillBooks, EndTransaction
<1> QED
  BY <1>1, <1>2, <1>3, <1>4, ReleaseOwn, EndsClean, EndKeepsBooks DEF TillBooks

(* open_shift and close_shift end; they have written no movement. *)
LEMMA ShiftEndKeepsBooks ==
    ASSUME TillBooks, TillInv', NEW w \in Worker,
           OpenInsert(w) \/ CloseWrite(w) \/ CloseFails(w)
    PROVE  BooksStep(w)
<1>1. /\ Become(w, Idle)
      /\ UNCHANGED <<stock, ledger, writes, sale, saleLock, returned>>
      /\ job[w].at \in {"open", "write"}
  BY DEF OpenInsert, CloseWrite, CloseFails, bookVars, rowVars, deskVars,
         lockVars, At
<1>2. job'[w] = Idle /\ \A x \in Worker \ {w} : job'[x] = job[x]
  BY <1>1, TillTypes DEF TillBooks, Become
<1>3. Calls(w) = <<>>
  BY <1>1 DEF Calls, At
<1>4. \A v \in Variant : Seen(w, v)' = stock'[v]
  BY <1>1, <1>3, NothingWritten DEF Seen
<1>5. \A v \in Variant, q \in Sale : PostedFor(q, writes'[w][v]) = 0
  BY <1>1, <1>3, NothingWritten
<1> QED
  BY <1>1, <1>2, <1>4, <1>5, EndKeepsBooks

----------------------------------------------------------------------------
(* The statements of close_shift. *)

LEMMA ClosingKeepsBooks ==
    ASSUME TillBooks, TillInv', NEW w \in Worker,
           job[w].at \in {"list", "discard"},
           job' = [job EXCEPT ![w] = job'[w]],
           job'[w].at \in {"discard", "write"}, job'[w].todo = job[w].todo,
           UNCHANGED <<stock, ledger, writes, saleLock, returned>>,
           \A q \in Sale :
              \/ sale'[q] = sale[q]
              \/ /\ sale[q].status \in {"OPEN", "VOIDED"}
                 /\ saleLock[q] \in {w, Nobody}
                 /\ sale'[q] = [sale[q] EXCEPT !.status = "VOIDED"],
           job'[w].at = "discard" =>
              \A q \in job'[w].sales : sale'[q].status \in {"OPEN", "VOIDED"}
    PROVE  BooksStep(w)
<1>1. \A x \in Worker \ {w} : job'[x] = job[x]
  BY TillTypes DEF TillBooks
<1>2. DocStep(w)
  BY DEF DocStep
<1>3. Calls(w) = <<>> /\ Calls(w)' = <<>> /\ <<>> \in Seq(Adjustment)
  BY DEF Calls, At
<1>4. CallsOK(w)' /\ WritesOK(w)'
  <2>1. \A v \in Variant : stock'[v] \in Int /\ Seen(w, v)' = stock'[v]
    BY <1>3, NothingWritten DEF Seen
  <2>2. \A v \in Variant, q \in Sale : PostedFor(q, writes'[w][v]) = 0
    BY <1>3, NothingWritten
  <2>3. job'[w].todo = Calls(w)' /\ Calls(w)' \in Seq(Adjustment)
    BY <1>3, NothingWritten
  <2> QED
    BY <2>1, <2>2, <2>3, NoCallYet
<1>5. DocsOK(w)' /\ \A x \in Worker \ {w} : Apart(w, x)'
  BY DEF DocsOK, Apart, At
<1>6. JobsInv'
  BY <1>1, <1>2, <1>4, <1>5, JobsStay
<1>7. \A q \in Sale : /\ sale'[q].status = "COMPLETED"
                            <=> sale[q].status = "COMPLETED"
                      /\ sale'[q].paid = sale[q].paid
                      /\ sale'[q].lines = sale[q].lines
  BY Voided DEF TillBooks
<1>8. Standing' = Standing /\ Restocked' = Restocked
  BY <1>7 DEF Standing, Restocked
<1>9. AgreeInv'
  BY <1>2, <1>7, <1>8, AgreeSame
<1> QED
  BY <1>2, <1>6, <1>9 DEF BooksStep

LEMMA CloseListKeepsBooks ==
    ASSUME TillBooks, TillInv', NEW w \in Worker, CloseList(w) \/ CloseTotals(w)
    PROVE  BooksStep(w)
<1>1. job[w] \in Job /\ job \in [Worker -> Job]
  BY TillTypes DEF TillBooks
<1>2. UNCHANGED <<stock, ledger, writes, sale, saleLock, returned>>
  BY DEF CloseList, CloseTotals, bookVars, rowVars, deskVars, lockVars
<1>3. job[w].at \in {"list", "discard"}
  BY DEF CloseList, CloseTotals, At
<1>4. /\ job' = [job EXCEPT ![w] = job'[w]]
      /\ job'[w].todo = job[w].todo
      /\ \/ job'[w].at = "discard" /\ job'[w].sales = HeldSales(job[w].shift)
         \/ job'[w].at = "write"
  <2>1. CASE CloseList(w)
    BY <1>1, <2>1 DEF CloseList, Job
  <2>2. CASE CloseTotals(w)
    BY <1>1, <2>2 DEF CloseTotals, Job
  <2> QED
    BY <2>1, <2>2
<1>5. job'[w].at = "discard" =>
         \A q \in job'[w].sales : sale'[q].status \in {"OPEN", "VOIDED"}
  BY <1>2, <1>4 DEF HeldSales
<1> QED
  BY <1>2, <1>3, <1>4, <1>5, ClosingKeepsBooks

LEMMA CloseDiscardKeepsBooks ==
    ASSUME TillBooks, TillInv', NEW w \in Worker, NEW q \in Sale,
           CloseDiscard(w, q)
    PROVE  BooksStep(w)
<1>1. job[w] \in Job /\ job \in [Worker -> Job] /\ sale \in [Sale -> SaleRow]
  BY TillTypes DEF TillBooks
<1>2. /\ job[w].at = "discard" /\ q \in job[w].sales /\ saleLock[q] = Nobody
      /\ sale' = [sale EXCEPT ![q].status = "VOIDED"]
      /\ UNCHANGED <<stock, ledger, writes, saleLock, returned>>
  BY DEF CloseDiscard, At, bookVars, rowVars, lockVars
<1>3. /\ job' = [job EXCEPT ![w] = job'[w]]
      /\ job'[w].at = "discard" /\ job'[w].todo = job[w].todo
      /\ job'[w].sales = job[w].sales \ {q}
  BY <1>1, <1>2 DEF CloseDiscard, Job
<1>4. \A p \in job[w].sales : p \in Sale /\ sale[p].status \in {"OPEN", "VOIDED"}
  BY <1>1, <1>2 DEF TillBooks, BooksInv, JobsInv, DocsOK, At, Job
<1>5. \A p \in Sale \ {q} : sale'[p] = sale[p]
  BY <1>1, <1>2
<1>6. sale'[q] = [sale[q] EXCEPT !.status = "VOIDED"]
  BY <1>1, <1>2
<1>7. \A p \in job'[w].sales : sale'[p].status \in {"OPEN", "VOIDED"}
  BY <1>3, <1>4, <1>5
<1> QED
  BY <1>2, <1>3, <1>4, <1>5, <1>6, <1>7, ClosingKeepsBooks

----------------------------------------------------------------------------
(* The commits. *)

LEMMA CommitKeepsJobs ==
    ASSUME TillBooks, TillInv', NEW w \in Worker,
           Commit(w), Release(w), Become(w, Idle), DocStep(w)
    PROVE  JobsInv'
<1>1. job'[w] = Idle /\ \A x \in Worker \ {w} : job'[x] = job[x]
  BY TillTypes DEF TillBooks, Become
<1>2. \A v \in Variant : writes'[w][v] = <<>>
  BY TillTypes DEF TillBooks, Commit, EndTransaction
<1> QED
  BY <1>1, <1>2, OthersRows, EndsClean, EndsIdle, JobsStay

LEMMA SellCommitKeepsBooks ==
    ASSUME TillBooks, TillInv', NEW w \in Worker, SellCommit(w)
    PROVE  BooksStep(w)
<1> DEFINE y == job[w].sale
           row == [status |-> "COMPLETED", shift |-> job[w].shift,
                   lines |-> job[w].lines, paid |-> TRUE]
<1>1. /\ At(w, "sell") /\ job[w].todo = <<>>
      /\ sale' = [sale EXCEPT ![y] = row] /\ returned' = returned
      /\ Commit(w) /\ Release(w) /\ Become(w, Idle)
  BY DEF SellCommit
<1>2. y \in Sale /\ sale[y] = NoSale
  BY <1>1 DEF TillBooks, BooksInv, JobsInv, DocsOK, At
<1>3. /\ row.status = "COMPLETED" /\ row.lines = job[w].lines /\ row.paid
      /\ NoSale.status = "NONE" /\ NoSale.paid = FALSE
  BY DEF NoSale
<1>4. job[w].lines \in Seq(CartLine)
  BY TillTypes DEF TillBooks, Job
<1> HIDE DEF row
<1>5. sale'[y] = row /\ \A q \in Sale \ {y} : sale'[q] = sale[q]
  BY <1>1, <1>2, TillTypes DEF TillBooks
<1>6. DocStep(w)
  BY <1>1, <1>5, ReleaseOwn DEF TillBooks, DocStep, At
<1>7. JobsInv'
  BY <1>1, <1>6, CommitKeepsJobs
<1>8. /\ y \notin Standing /\ Standing' = Standing \cup {y}
      /\ Restocked' = Restocked
      /\ \A q \in Standing : sale'[q].lines = sale[q].lines
  BY <1>1, <1>2, <1>3, <1>5 DEF Standing, Restocked
<1>9. /\ TillInv /\ IsFiniteSet(Standing) /\ IsFiniteSet(Restocked)
      /\ SaleIsPosted
  BY DEF TillBooks, BooksInv, AgreeInv
<1>10. /\ IsFiniteSet(Standing') /\ IsFiniteSet(Restocked')
       /\ ReturnsOK'
  BY <1>6, <1>8, <1>9, FS_AddElement, ReturnsOKStays
<1>11. ASSUME NEW v \in Variant
       PROVE  /\ Units(row.lines, v) \in Int
              /\ stock'[v] = stock[v] - Units(row.lines, v)
              /\ \A q \in Sale : PostedFor(q, ledger'[v]) =
                    PostedFor(q, ledger[v])
                      + (IF q = y THEN 0 - Units(row.lines, v) ELSE 0)
  <2> DEFINE moved == Moved(Calls(w), Len(Calls(w)), v)
  <2>1. /\ stock'[v] = stock[v] + moved
        /\ \A q \in Sale :
             PostedFor(q, ledger'[v]) =
               PostedFor(q, ledger[v])
                 + (IF At(w, "sell") /\ job[w].sale = q THEN moved ELSE 0)
    BY <1>1, AllCommitted
  <2>2. Calls(w) = Deductions(job[w].lines)
    BY <1>1 DEF Calls
  <2>3. moved = 0 - Units(row.lines, v) /\ Units(row.lines, v) \in Int
    BY <1>3, <1>4, <2>2, AllDeducted, UnitsInt
  <2>4. stock[v] \in Int
    BY <1>9, TillTypes
  <2> HIDE DEF moved
  <2> QED
    BY <1>1, <2>1, <2>3, <2>4
<1>12. ASSUME NEW v \in Variant
       PROVE  stock'[v] = InitialStock[v] - SoldOf(v)' + BackOf(v)'
  <2>1. SoldOf(v)' = SoldOf(v) + Units(row.lines, v)
    BY <1>2, <1>5, <1>8, <1>9, SoldMore
  <2>2. \A n \in Restocked :
           /\ returned'[n] = returned[n]
           /\ sale'[returned[n].sale].lines = sale[returned[n].sale].lines
    BY <1>6, KnownReturns
  <2>3. BackOf(v)' = BackOf(v)
    BY <1>8, <2>2, BackSame
  <2> QED
    BY <1>11, <2>1, <2>3, Reconciled
<1>13. BooksReconcile'
  BY <1>12, ReconciledNext
<1>14. ASSUME NEW q \in Sale, NEW v \in Variant
       PROVE  PostedFor(q, ledger'[v]) =
                 IF sale'[q].paid THEN 0 - Units(sale'[q].lines, v) ELSE 0
  <2>1. PostedFor(q, ledger[v]) =
           IF sale[q].paid THEN 0 - Units(sale[q].lines, v) ELSE 0
    BY <1>9 DEF SaleIsPosted
  <2>2. Units(row.lines, v) \in Int
    BY <1>11
  <2>3. CASE q = y
    BY <1>2, <1>3, <1>5, <1>11, <2>1, <2>2, <2>3
  <2>4. CASE q # y
    <3>1. sale'[q] = sale[q]
      BY <1>5, <2>4
    <3>2. PostedFor(q, ledger[v]) \in Int
      BY <1>9, TillTypes, ForSaleInt
    <3> QED
      BY <1>11, <2>1, <2>4, <3>1, <3>2
  <2> QED
    BY <2>3, <2>4
<1>15. SaleIsPosted'
  BY <1>14 DEF SaleIsPosted
<1> QED
  BY <1>6, <1>7, <1>10, <1>13, <1>15 DEF BooksStep, AgreeInv

LEMMA HoldCommitKeepsBooks ==
    ASSUME TillBooks, TillInv', NEW w \in Worker, HoldCommit(w)
    PROVE  BooksStep(w)
<1> DEFINE y == job[w].sale
           row == [status |-> "OPEN", shift |-> job[w].shift,
                   lines |-> job[w].lines, paid |-> FALSE]
<1>1. /\ At(w, "hold")
      /\ sale' = [sale EXCEPT ![y] = row] /\ returned' = returned
      /\ Commit(w) /\ Release(w) /\ Become(w, Idle)
  BY DEF HoldCommit
<1>2. y \in Sale /\ sale[y] = NoSale
  BY <1>1 DEF TillBooks, BooksInv, JobsInv, DocsOK, At
<1>3. /\ row.status = "OPEN" /\ row.paid = FALSE
      /\ NoSale.status = "NONE" /\ NoSale.paid = FALSE
  BY DEF NoSale
<1> HIDE DEF row
<1>4. sale'[y] = row /\ \A q \in Sale \ {y} : sale'[q] = sale[q]
  BY <1>1, <1>2, TillTypes DEF TillBooks
<1>5. DocStep(w)
  BY <1>1, <1>4, ReleaseOwn DEF TillBooks, DocStep, At
<1>6. JobsInv'
  BY <1>1, <1>5, CommitKeepsJobs
<1>7. Standing' = Standing /\ Restocked' = Restocked
  BY <1>1, <1>2, <1>3, <1>4 DEF Standing, Restocked
<1>8. Calls(w) = <<>> /\ Len(<<>>) = 0
  BY <1>1 DEF Calls, At
<1>9. job[w].todo = <<>>
  BY <1>8, NothingWritten
<1>10. ASSUME NEW v \in Variant
       PROVE  /\ stock'[v] = stock[v]
              /\ \A q \in Sale :
                    PostedFor(q, ledger'[v]) = PostedFor(q, ledger[v])
  <2> DEFINE moved == Moved(Calls(w), Len(Calls(w)), v)
  <2>1. /\ stock'[v] = stock[v] + moved
        /\ \A q \in Sale :
             PostedFor(q, ledger'[v]) =
               PostedFor(q, ledger[v])
                 + (IF At(w, "sell") /\ job[w].sale = q THEN moved ELSE 0)
    BY <1>1, <1>9, AllCommitted
  <2>2. moved = 0
    BY <1>8, MovedNone
  <2>3. stock[v] \in Int /\ \A q : PostedFor(q, ledger[v]) \in Int
    BY TillTypes, ForSaleInt DEF TillBooks
  <2> HIDE DEF moved
  <2> QED
    BY <2>1, <2>2, <2>3
<1>11. \A q \in Sale : /\ sale'[q].paid = sale[q].paid
                       /\ sale[q].paid => sale'[q].lines = sale[q].lines
  BY <1>2, <1>3, <1>4
<1>12. AgreeInv'
  BY <1>5, <1>7, <1>10, <1>11, AgreeSame
<1> QED
  BY <1>5, <1>6, <1>12 DEF BooksStep

LEMMA VoidCommitKeepsBooks ==
    ASSUME TillBooks, TillInv', NEW w \in Worker, VoidCommit(w)
    PROVE  BooksStep(w)
<1> DEFINE y == job[w].sale
<1>1. /\ At(w, "void") /\ job[w].todo = <<>>
      /\ sale' = [sale EXCEPT ![y].status = "VOIDED"] /\ returned' = returned
      /\ Commit(w) /\ Release(w) /\ Become(w, Idle)
  BY DEF VoidCommit
<1>2. y \in Sale /\ sale[y].status = "COMPLETED" /\ saleLock[y] = w
  BY <1>1 DEF TillBooks, BooksInv, JobsInv, DocsOK
<1>3. /\ sale'[y] = [sale[y] EXCEPT !.status = "VOIDED"]
      /\ \A q \in Sale \ {y} : sale'[q] = sale[q]
  BY <1>1, <1>2, TillTypes DEF TillBooks
<1>4. /\ sale'[y].status = "VOIDED" /\ sale'[y].lines = sale[y].lines
      /\ sale'[y].paid = sale[y].paid
  BY <1>2, <1>3, Voided DEF TillBooks
<1>5. DocStep(w)
  BY <1>1, <1>2, <1>3, ReleaseOwn DEF TillBooks, DocStep
<1>6. JobsInv'
  BY <1>1, <1>5, CommitKeepsJobs
<1>7. /\ y \in Standing /\ Standing' = Standing \ {y}
      /\ Restocked' = Restocked
      /\ \A q \in Sale : /\ sale'[q].lines = sale[q].lines
                         /\ sale'[q].paid = sale[q].paid
  BY <1>1, <1>2, <1>3, <1>4 DEF Standing, Restocked
<1>8. /\ TillInv /\ IsFiniteSet(Standing) /\ IsFiniteSet(Restocked)
      /\ SaleIsPosted
  BY DEF TillBooks, BooksInv, AgreeInv
<1>9. /\ IsFiniteSet(Standing') /\ IsFiniteSet(Restocked')
      /\ ReturnsOK'
  BY <1>5, <1>7, <1>8, FS_RemoveElement, ReturnsOKStays
<1>10. ASSUME NEW v \in Variant
       PROVE  /\ Units(sale[y].lines, v) \in Int
              /\ stock'[v] = stock[v] + Units(sale[y].lines, v)
              /\ \A q \in Sale :
                    PostedFor(q, ledger'[v]) = PostedFor(q, ledger[v])
  <2> DEFINE moved == Moved(Calls(w), Len(Calls(w)), v)
  <2>1. /\ stock'[v] = stock[v] + moved
        /\ \A q \in Sale :
             PostedFor(q, ledger'[v]) =
               PostedFor(q, ledger[v])
                 + (IF At(w, "sell") /\ job[w].sale = q THEN moved ELSE 0)
    BY <1>1, AllCommitted
  <2>2. Calls(w) = Restorations(sale[y].lines) /\ ~At(w, "sell")
    BY <1>1 DEF Calls, At
  <2>3. sale[y].lines \in Seq(CartLine)
    BY <1>2, <1>8, TillTypes DEF SaleRow
  <2>4. moved = Units(sale[y].lines, v) /\ Units(sale[y].lines, v) \in Int
    BY <2>2, <2>3, AllRestored, UnitsInt
  <2>5. stock[v] \in Int /\ \A q : PostedFor(q, ledger[v]) \in Int
    BY <1>8, TillTypes, ForSaleInt
  <2> HIDE DEF moved
  <2> QED
    BY <2>1, <2>2, <2>4, <2>5
<1>11. ASSUME NEW v \in Variant
       PROVE  stock'[v] = InitialStock[v] - SoldOf(v)' + BackOf(v)'
  <2>1. SoldOf(v)' = SoldOf(v) - Units(sale[y].lines, v)
    <3>1. \A q \in Standing : sale'[q].lines = sale[q].lines
      BY <1>7 DEF Standing
    <3> QED
      BY <1>7, <1>8, <3>1, SoldLess
  <2>2. \A n \in Restocked :
           /\ returned'[n] = returned[n]
           /\ sale'[returned[n].sale].lines = sale[returned[n].sale].lines
    BY <1>5, KnownReturns
  <2>3. BackOf(v)' = BackOf(v)
    BY <1>7, <2>2, BackSame
  <2> QED
    BY <1>10, <2>1, <2>3, Reconciled
<1>12. BooksReconcile'
  BY <1>11, ReconciledNext
<1>13. SaleIsPosted'
  BY <1>7, <1>8, <1>10 DEF SaleIsPosted
<1> QED
  BY <1>5, <1>6, <1>9, <1>12, <1>13 DEF BooksStep, AgreeInv

LEMMA ReturnCommitKeepsBooks ==
    ASSUME TillBooks, TillInv', NEW w \in Worker, ReturnCommit(w)
    PROVE  BooksStep(w)
<1> DEFINE y == job[w].return
           q == job[w].sale
           row == [sale |-> job[w].sale, lines |-> job[w].back,
                   restock |-> job[w].restock]
<1>1. /\ At(w, "return") /\ job[w].todo = <<>>
      /\ returned' = [returned EXCEPT ![y] = row] /\ sale' = sale
      /\ Commit(w) /\ Release(w) /\ Become(w, Idle)
  BY DEF ReturnCommit
<1>2. /\ q \in Sale /\ sale[q].status \in Final
      /\ job[w].lines = sale[q].lines
      /\ \A j \in 1..Len(job[w].back) :
            job[w].back[j].line \in 1..Len(sale[q].lines)
      /\ y \in Return /\ returned[y] = NoReturn
  BY <1>1 DEF TillBooks, BooksInv, JobsInv, DocsOK
<1>3. /\ row.sale = q /\ row.lines = job[w].back /\ row.restock = job[w].restock
      /\ NoReturn.restock = FALSE
  BY DEF NoReturn
<1>4. job[w].back \in Seq(ReturnLine) /\ job[w].restock \in BOOLEAN
  BY TillTypes DEF TillBooks, Job
<1> HIDE DEF row
<1>5. returned'[y] = row /\ \A n \in Return \ {y} : returned'[n] = returned[n]
  BY <1>1, <1>2, TillTypes DEF TillBooks
<1>6. DocStep(w)
  BY <1>1, <1>5, ReleaseOwn DEF TillBooks, DocStep
<1>7. JobsInv'
  BY <1>1, <1>6, CommitKeepsJobs
<1>8. /\ TillInv /\ IsFiniteSet(Standing) /\ IsFiniteSet(Restocked)
      /\ ReturnsOK /\ SaleIsPosted
  BY DEF TillBooks, BooksInv, AgreeInv
<1>9. Standing' = Standing
  BY <1>1 DEF Standing
<1>10. ASSUME NEW v \in Variant
       PROVE  LET moved == IF job[w].restock
                           THEN BackOnShelf(sale[q].lines, job[w].back, v) ELSE 0
              IN  /\ moved \in Int
                  /\ stock'[v] = stock[v] + moved
                  /\ \A p \in Sale :
                        PostedFor(p, ledger'[v]) = PostedFor(p, ledger[v])
  <2> DEFINE moved == Moved(Calls(w), Len(Calls(w)), v)
  <2>1. /\ moved \in Int /\ stock'[v] = stock[v] + moved
        /\ \A p \in Sale :
             PostedFor(p, ledger'[v]) =
               PostedFor(p, ledger[v])
                 + (IF At(w, "sell") /\ job[w].sale = p THEN moved ELSE 0)
    BY <1>1, AllCommitted
  <2>2. /\ ~At(w, "sell")
        /\ Calls(w) = IF job[w].restock
                      THEN Restocks(sale[q].lines, job[w].back) ELSE <<>>
    BY <1>1, <1>2 DEF Calls, At
  <2>3. moved = IF job[w].restock
                THEN BackOnShelf(sale[q].lines, job[w].back, v) ELSE 0
    <3>1. CASE job[w].restock
      BY <1>4, <2>2, <3>1, AllRestocked
    <3>2. CASE ~job[w].restock
      <4>1. Calls(w) = <<>> /\ Len(<<>>) = 0
        BY <2>2, <3>2
      <4> QED
        BY <3>2, <4>1, MovedNone
    <3> QED
      BY <1>4, <3>1, <3>2
  <2>4. \A p : PostedFor(p, ledger[v]) \in Int
    BY <1>8, TillTypes, ForSaleInt
  <2> HIDE DEF moved
  <2> QED
    BY <2>1, <2>2, <2>3, <2>4
<1>11. SaleIsPosted'
  BY <1>1, <1>8, <1>10 DEF SaleIsPosted
<1>12. \A n \in Restocked :
          /\ returned'[n] = returned[n]
          /\ sale'[returned[n].sale].lines = sale[returned[n].sale].lines
  BY <1>6, KnownReturns
<1>13. \A v : SoldOf(v)' = SoldOf(v)
  BY <1>1, <1>9, SoldSame
<1>14. CASE ~job[w].restock
  <2>1. Restocked' = Restocked
    BY <1>2, <1>3, <1>5, <1>14 DEF Restocked
  <2>2. /\ IsFiniteSet(Standing') /\ IsFiniteSet(Restocked')
        /\ ReturnsOK'
    BY <1>6, <1>8, <1>9, <2>1, ReturnsOKStays
  <2>3. ASSUME NEW v \in Variant
        PROVE  stock'[v] = InitialStock[v] - SoldOf(v)' + BackOf(v)'
    <3>1. BackOf(v)' = BackOf(v)
      BY <1>12, <2>1, BackSame
    <3>2. stock'[v] = stock[v]
      BY <1>10, <1>14, Reconciled
    <3> QED
      BY <1>13, <3>1, <3>2, Reconciled
  <2>4. BooksReconcile'
    BY <2>3, ReconciledNext
  <2> QED
    BY <1>6, <1>7, <1>11, <2>2, <2>4 DEF BooksStep, AgreeInv
<1>15. CASE job[w].restock
  <2>1. y \notin Restocked /\ Restocked' = Restocked \cup {y}
    BY <1>2, <1>3, <1>5, <1>15 DEF Restocked
  <2>2. ASSUME NEW n \in Restocked'
        PROVE  /\ returned'[n].sale \in Sale
               /\ sale'[returned'[n].sale].status \in Final
               /\ \A j \in 1..Len(returned'[n].lines) :
                     returned'[n].lines[j].line
                        \in 1..Len(sale'[returned'[n].sale].lines)
    <3>1. CASE n = y
      BY <1>1, <1>2, <1>3, <1>5, <3>1
    <3>2. CASE n # y
      <4>1. n \in Restocked
        BY <2>1, <3>2
      <4> QED
        BY <1>1, <1>6, <4>1, KnownReturns
    <3> QED
      BY <3>1, <3>2
  <2>3. ReturnsOK'
    BY <2>2 DEF ReturnsOK
  <2>4. IsFiniteSet(Standing') /\ IsFiniteSet(Restocked')
    BY <1>8, <1>9, <2>1, FS_AddElement
  <2>5. ASSUME NEW v \in Variant
        PROVE  stock'[v] = InitialStock[v] - SoldOf(v)' + BackOf(v)'
    <3>1. PICK n \in Return : n = y
      BY <1>2
    <3>2. PutBack(n, v)' = BackOnShelf(sale[q].lines, job[w].back, v)
      <4>1. /\ returned'[n].sale = q /\ returned'[n].lines = job[w].back
            /\ sale' = sale
        BY <1>1, <1>3, <1>5, <3>1
      <4> HIDE DEF q
      <4> QED
        BY <4>1 DEF PutBack, BackOnShelf
    <3>3. BackOf(v)' = BackOf(v) + PutBack(n, v)'
      BY <1>8, <1>12, <2>1, <3>1, BackMore
    <3>4. stock'[v] = stock[v] + PutBack(n, v)' /\ PutBack(n, v)' \in Int
      BY <1>10, <1>15, <3>2
    <3> QED
      BY <1>13, <3>3, <3>4, Reconciled
  <2>6. BooksReconcile'
    BY <2>5, ReconciledNext
  <2> QED
    BY <1>6, <1>7, <1>11, <2>3, <2>4, <2>6 DEF BooksStep, AgreeInv
<1> QED
  BY <1>4, <1>14, <1>15

----------------------------------------------------------------------------
(* The invariant *)

LEMMA BooksInit ==
    ASSUME Init
    PROVE  TillBooks
<1>1. TillInv
  BY TillInitInv
<1>2. /\ \A w \in Worker : job[w] = Idle /\ writes[w] = [v \in Variant |-> <<>>]
      /\ \A q \in Sale : sale[q] = NoSale
      /\ \A n \in Return : returned[n] = NoReturn
      /\ stock = InitialStock /\ ledger = [v \in Variant |-> <<>>]
  BY DEF Init, RowsInit, BookInit
<1>3. /\ Idle.at = "idle" /\ Idle.todo = <<>>
      /\ NoSale.status = "NONE" /\ NoSale.paid = FALSE
      /\ NoReturn.restock = FALSE
  BY DEF Idle, NoSale, NoReturn
<1>4. ASSUME NEW w \in Worker PROVE CallsOK(w) /\ WritesOK(w) /\ DocsOK(w)
  <2>1. Calls(w) = <<>> /\ job[w].todo = <<>> /\ ~At(w, "sell")
    BY <1>2, <1>3 DEF Calls, At
  <2>2. Done(w) = 0 /\ <<>> \in Seq(Adjustment)
    BY <2>1 DEF Done
  <2>3. CallsOK(w)
    BY <2>1, <2>2 DEF CallsOK
  <2>4. WritesOK(w)
    <3>1. ASSUME NEW v \in Variant
          PROVE  /\ stock[v] \in Int /\ Seen(w, v) = stock[v]
                 /\ writes[w][v] = <<>>
      BY <1>1, <1>2, TillTypes DEF Seen, EndOf
    <3>2. \A v : Moved(Calls(w), Done(w), v) = 0
      BY <2>2, MovedNone
    <3>3. \A v \in Variant, q \in Sale : PostedFor(q, writes[w][v]) = 0
      BY <3>1, PostedForEmpty
    <3>4. ASSUME NEW v \in Variant
          PROVE  /\ Seen(w, v) = stock[v] + Moved(Calls(w), Done(w), v)
                 /\ \A q \in Sale : PostedFor(q, writes[w][v]) =
                       IF At(w, "sell") /\ job[w].sale = q
                       THEN Moved(Calls(w), Done(w), v) ELSE 0
      BY <2>1, <3>1, <3>2, <3>3
    <3> QED
      BY <3>4 DEF WritesOK
  <2>5. DocsOK(w)
    BY <1>2, <1>3 DEF DocsOK, At
  <2> QED
    BY <2>3, <2>4, <2>5
<1>5. \A w, x \in Worker : w # x => Apart(w, x)
  BY <1>2, <1>3 DEF Apart, At
<1>6. Standing = {} /\ Restocked = {}
  BY <1>2, <1>3 DEF Standing, Restocked
<1>7. IsFiniteSet(Standing) /\ IsFiniteSet(Restocked) /\ ReturnsOK
  BY <1>6, FS_EmptySet DEF ReturnsOK
<1>8. \A v : SoldOf(v) = 0 /\ BackOf(v) = 0
  <2>1. ASSUME NEW f, DOMAIN f = {} PROVE SumFunction(f) = 0
    BY <2>1, SumEmpty DEF SumFunction
  <2>2. ASSUME NEW v PROVE SoldOf(v) = 0
    <3> DEFINE f == [q \in Standing |-> Units(sale[q].lines, v)]
    <3>1. DOMAIN f = {}
      BY <1>6
    <3> HIDE DEF f
    <3>2. SumFunction(f) = 0
      BY <2>1, <3>1
    <3> QED
      BY <3>2 DEF SoldOf, f
  <2>3. ASSUME NEW v PROVE BackOf(v) = 0
    <3> DEFINE f == [n \in Restocked |-> PutBack(n, v)]
    <3>1. DOMAIN f = {}
      BY <1>6
    <3> HIDE DEF f
    <3>2. SumFunction(f) = 0
      BY <2>1, <3>1
    <3> QED
      BY <3>2 DEF BackOf, f
  <2> QED
    BY <2>2, <2>3
<1>9. BooksReconcile
  <2>1. ASSUME NEW v \in Variant
        PROVE  stock[v] = InitialStock[v] - SoldOf(v) + BackOf(v)
    <3>1. SoldOf(v) = 0 /\ BackOf(v) = 0
      BY <1>8, Zenon
    <3>2. InitialStock[v] \in Int /\ stock[v] = InitialStock[v]
      BY <1>2, StockBookAssumption
    <3> QED
      BY <3>1, <3>2
  <2> QED
    BY <2>1 DEF BooksReconcile, SoldOf, BackOf
<1>10. SaleIsPosted
  BY <1>2, <1>3, PostedForEmpty DEF SaleIsPosted
<1> QED
  BY <1>1, <1>4, <1>5, <1>7, <1>9, <1>10
  DEF TillBooks, BooksInv, JobsInv, AgreeInv

LEMMA RequestKeepsBooks ==
    ASSUME TillBooks, TillInv', NEW w \in Worker, Request(w)
    PROVE  BooksStep(w)
<1>1. ASSUME NEW q \in Sale, NEW s \in Shift, NEW lines \in Carts,
             SellBegin(w, q, s, lines) \/ HoldBegin(w, q, s, lines)
      PROVE  BooksStep(w)
  BY <1>1, SellBeginKeepsBooks, HoldBeginKeepsBooks
<1>2. ASSUME NEW q \in Sale, VoidBegin(w, q) PROVE BooksStep(w)
  BY <1>2, VoidBeginKeepsBooks
<1>3. ASSUME NEW n \in Return, NEW q \in Sale, NEW back \in ReturnBodies,
             NEW restock \in BOOLEAN, ReturnBegin(w, n, q, back, restock)
      PROVE  BooksStep(w)
  BY <1>3, ReturnBeginKeepsBooks
<1>4. ASSUME NEW s \in Shift, OpenCheck(w, s) \/ CloseBegin(w, s)
      PROVE  BooksStep(w)
  BY <1>4, ShiftBeginKeepsBooks
<1>5. ASSUME NEW v \in Variant, DeleteVariant(w, v) PROVE BooksStep(w)
  BY <1>5, DeletionKeepsBooks
<1> QED
  BY <1>1, <1>2, <1>3, <1>4, <1>5 DEF Request

LEMMA StepKeepsBooks ==
    ASSUME TillBooks, TillInv', NEW w \in Worker, Step(w)
    PROVE  BooksStep(w)
<1>1. CASE Deduct(w) \/ Restore(w) \/ Restock(w)
  BY <1>1, AdjustKeepsBooks DEF Deduct, Restore, Restock, Reason
<1>2. CASE SellCommit(w) \/ HoldCommit(w) \/ VoidCommit(w) \/ ReturnCommit(w)
  BY <1>2, SellCommitKeepsBooks, HoldCommitKeepsBooks, VoidCommitKeepsBooks,
     ReturnCommitKeepsBooks
<1>3. CASE AdjustFails(w)
  BY <1>3, AbortKeepsBooks DEF AdjustFails
<1>4. CASE OpenInsert(w) \/ CloseWrite(w) \/ CloseFails(w)
  BY <1>4, ShiftEndKeepsBooks
<1>5. CASE CloseList(w) \/ CloseTotals(w)
  BY <1>5, CloseListKeepsBooks
<1>6. ASSUME NEW q \in Sale, CloseDiscard(w, q) PROVE BooksStep(w)
  BY <1>6, CloseDiscardKeepsBooks
<1> QED
  BY <1>1, <1>2, <1>3, <1>4, <1>5, <1>6 DEF Step

LEMMA WorkerKeepsBooks ==
    ASSUME TillBooks, TillInv', NEW w \in Worker,
           Request(w) \/ Step(w) \/ DeadlockAbort(w) \/ Crash(w)
    PROVE  BooksStep(w)
<1>1. CASE Request(w)
  BY <1>1, RequestKeepsBooks
<1>2. CASE Step(w)
  BY <1>2, StepKeepsBooks
<1>3. CASE DeadlockAbort(w) \/ Crash(w)
  BY <1>3, AbortKeepsBooks DEF DeadlockAbort, Crash
<1> QED
  BY <1>1, <1>2, <1>3

LEMMA NextKeepsBooks ==
    ASSUME TillBooks, [Next]_vars
    PROVE  TillBooks'
<1>1. TillInv'
  BY NextIsGood DEF GoodStep, TillInv, TillBooks
<1>2. ASSUME NEW w \in Worker,
             Request(w) \/ Step(w) \/ DeadlockAbort(w) \/ Crash(w)
      PROVE  BooksStep(w)
  BY <1>1, <1>2, WorkerKeepsBooks
<1>3. CASE UNCHANGED vars
  <2>1. UNCHANGED <<stock, ledger, writes, sale, saleLock, returned, job>>
    BY <1>3 DEF vars, bookVars, rowVars, deskVars, lockVars
  <2> QED
    BY <1>1, <2>1, QuietKeepsBooks DEF TillBooks, BooksInv
<1> QED
  BY <1>1, <1>2, <1>3 DEF Next, BooksStep, TillBooks, BooksInv

LEMMA TillBooksInductive == Spec => []TillBooks
<1>1. Init => TillBooks
  BY BooksInit
<1>2. TillBooks /\ [Next]_vars => TillBooks'
  BY NextKeepsBooks
<1> QED
  BY <1>1, <1>2, PTL DEF Spec

(* The books reconcile, for any number of tills, sales and returns: what   *)
(* is on hand is what there was, less the sales that stand, plus what came *)
(* back on the shelf, whatever overlaps, aborts or dies (create_sale,      *)
(* void_sale and initiate_return in one transaction each, void_sale under  *)
(* the lock of its sale).                                                  *)
THEOREM TillReconciles == Spec => []BooksReconcile
<1>1. TillBooks => BooksReconcile
  BY DEF TillBooks, BooksInv, AgreeInv
<1> QED
  BY TillBooksInductive, <1>1, PTL

(* Every completed sale is in the movement log with all its lines, exactly *)
(* once, and no other sale is (adjust_stock's reference in create_sale).   *)
THEOREM TillPostsSales == Spec => []SaleIsPosted
<1>1. TillBooks => SaleIsPosted
  BY DEF TillBooks, BooksInv, AgreeInv
<1> QED
  BY TillBooksInductive, <1>1, PTL

----------------------------------------------------------------------------
(* Returns, one at a time.  What a request has found returnable stays so   *)
(* until it commits: sales that were completed keep their lines, and no    *)
(* other return is recorded meanwhile.                                     *)

(* No request names a line twice; over_return shows what happens if it does. *)
NamesLinesOnce(back) ==
    \A j, k \in 1..Len(back) : back[j].line = back[k].line => j = k

Returns(q) == {n \in Return : returned[n].sale = q}

ReturnsWithin ==
    \A q \in Sale :
        /\ IsFiniteSet(Returns(q))
        /\ Returns(q) # {} => sale[q].status \in Final
        /\ \A i \in 1..Len(sale[q].lines) :
              ReturnedQty(q, i) <= sale[q].lines[i].qty

ReturnKnows(w) ==
    At(w, "return") => /\ NamesLinesOnce(job[w].back)
                       /\ Returnable(job[w].sale, job[w].back)

SerialReturns(w) == TillBooks /\ ReturnsWithin /\ ReturnKnows(w)

(* The quantity a return has for line i is that of the one entry with i.   *)
LEMMA QtyIsInt ==
    ASSUME NEW back \in Seq(ReturnLine), NEW i
    PROVE  QtyOf(back, i) \in Int
<1> DEFINE f == [j \in 1..Len(back) |->
                    IF back[j].line = i THEN back[j].qty ELSE 0]
<1>1. \A j \in 1..Len(back) : back[j] \in ReturnLine
  OBVIOUS
<1>2. DOMAIN f = 1..Len(back) /\ \A j \in DOMAIN f : f[j] \in Int
  BY <1>1 DEF ReturnLine
<1>3. IsFiniteSet(DOMAIN f) /\ QtyOf(back, i) = SumFunction(f)
  BY <1>2, Positions DEF QtyOf
<1> HIDE DEF f
<1> QED
  BY <1>2, <1>3, SumIsInt

LEMMA QtyOfNone ==
    ASSUME NEW back \in Seq(ReturnLine), NEW i,
           \A j \in 1..Len(back) : back[j].line # i
    PROVE  QtyOf(back, i) = 0
<1> DEFINE f == [j \in 1..Len(back) |->
                    IF back[j].line = i THEN back[j].qty ELSE 0]
<1>1. DOMAIN f = 1..Len(back) /\ \A j \in DOMAIN f : f[j] = 0
  OBVIOUS
<1>2. /\ IsFiniteSet(DOMAIN f)
      /\ QtyOf(back, i) = SumFunctionOnSet(f, DOMAIN f)
  BY <1>1, Positions DEF QtyOf, SumFunction
<1> HIDE DEF f
<1> QED
  BY <1>1, <1>2, SumOfZeros

LEMMA QtyOfOne ==
    ASSUME NEW back \in Seq(ReturnLine), NamesLinesOnce(back),
           NEW k \in 1..Len(back)
    PROVE  QtyOf(back, back[k].line) = back[k].qty
<1> DEFINE i == back[k].line
           f == [j \in 1..Len(back) |->
                    IF back[j].line = i THEN back[j].qty ELSE 0]
<1>1. \A j \in 1..Len(back) : back[j] \in ReturnLine
  OBVIOUS
<1>2. /\ DOMAIN f = 1..Len(back) /\ \A j \in DOMAIN f : f[j] \in Int
      /\ f[k] = back[k].qty /\ back[k].qty \in Int
  BY <1>1 DEF ReturnLine
<1>3. \A j \in DOMAIN f \ {k} : f[j] = 0
  BY DEF NamesLinesOnce
<1>4. /\ IsFiniteSet(DOMAIN f)
      /\ QtyOf(back, i) = SumFunctionOnSet(f, DOMAIN f)
  BY <1>2, Positions DEF QtyOf, SumFunction
<1> HIDE DEF f
<1>5. SumFunctionOnSet(f, DOMAIN f) =
         f[k] + SumFunctionOnSet(f, DOMAIN f \ {k})
  BY <1>2, <1>4, SumOneOut
<1>6. SumFunctionOnSet(f, DOMAIN f \ {k}) = 0
  <2>1. IsFiniteSet(DOMAIN f \ {k})
    BY <1>4, FS_RemoveElement
  <2> QED
    BY <2>1, <1>3, SumOfZeros
<1> QED
  BY <1>2, <1>4, <1>5, <1>6

(* What was returned of a line is a number, and as long as nothing is      *)
(* recorded for its sale it stays the same.                                *)
LEMMA ReturnedSame ==
    ASSUME NEW q, NEW i, returned' = returned
    PROVE  ReturnedQty(q, i)' = ReturnedQty(q, i) /\ Returns(q)' = Returns(q)
BY DEF ReturnedQty, Returns

LEMMA NothingReturned ==
    ASSUME NEW q, NEW i, Returns(q) = {}
    PROVE  ReturnedQty(q, i) = 0
<1> DEFINE f == [n \in Returns(q) |-> QtyOf(returned[n].lines, i)]
<1>1. ReturnedQty(q, i) = SumFunctionOnSet(f, {})
  BY DEF ReturnedQty, Returns, SumFunction
<1> QED
  BY <1>1, SumEmpty

LEMMA ReturnedInt ==
    ASSUME TillInv, NEW q, NEW i, IsFiniteSet(Returns(q))
    PROVE  ReturnedQty(q, i) \in Int
<1> DEFINE f == [n \in Returns(q) |-> QtyOf(returned[n].lines, i)]
<1>1. \A n \in Returns(q) : returned[n].lines \in Seq(ReturnLine)
  BY TillTypes DEF Returns, ReturnRow
<1>2. DOMAIN f = Returns(q) /\ \A n \in DOMAIN f : f[n] \in Int
  BY <1>1, QtyIsInt
<1>3. ReturnedQty(q, i) = SumFunction(f)
  BY DEF ReturnedQty, Returns
<1> HIDE DEF f
<1> QED
  BY <1>2, <1>3, SumIsInt

(* One more return of a sale. *)
LEMMA ReturnedMore ==
    ASSUME TillInv, TillInv', NEW q, NEW i, IsFiniteSet(Returns(q)),
           NEW y \in Return, y \notin Returns(q),
           Returns(q)' = Returns(q) \cup {y},
           \A n \in Returns(q) : returned'[n] = returned[n]
    PROVE  /\ ReturnedQty(q, i)' = ReturnedQty(q, i)
                                     + QtyOf(returned'[y].lines, i)
           /\ QtyOf(returned'[y].lines, i) \in Int
<1> DEFINE f == [n \in Returns(q) |-> QtyOf(returned[n].lines, i)]
           g == [n \in Returns(q)' |-> QtyOf(returned'[n].lines, i)]
<1>1. \A n \in Return : returned'[n].lines \in Seq(ReturnLine)
  BY DEF TillInv, DeskInv, DeskTypeOK, ReturnRow
<1>2. \A n \in Return : QtyOf(returned'[n].lines, i) \in Int
  BY <1>1, QtyIsInt
<1>3. /\ DOMAIN f = Returns(q) /\ DOMAIN g = Returns(q) \cup {y}
      /\ \A n \in DOMAIN f : g[n] = f[n]
      /\ g[y] = QtyOf(returned'[y].lines, i)
  OBVIOUS
<1>4. \A n \in DOMAIN g : g[n] \in Int
  BY <1>2 DEF Returns
<1>5. ReturnedQty(q, i)' = SumFunction(g) /\ ReturnedQty(q, i) = SumFunction(f)
  BY DEF ReturnedQty, Returns
<1> HIDE DEF f, g
<1>6. SumFunction(g) = SumFunction(f) + g[y]
  BY <1>3, <1>4, SumWithOneMore
<1> QED
  BY <1>2, <1>3, <1>5, <1>6

(* Steps that record no return. *)
LEMMA WithinStays ==
    ASSUME TillBooks, TillInv', ReturnsWithin, NEW w \in Worker, DocStep(w),
           returned' = returned
    PROVE  ReturnsWithin'
<1> SUFFICES ASSUME NEW q \in Sale
             PROVE  /\ IsFiniteSet(Returns(q)')
                    /\ Returns(q)' # {} => sale'[q].status \in Final
                    /\ \A i \in 1..Len(sale'[q].lines) :
                          ReturnedQty(q, i)' <= sale'[q].lines[i].qty
  BY DEF ReturnsWithin
<1>1. /\ Returns(q)' = Returns(q) /\ IsFiniteSet(Returns(q))
      /\ \A i : ReturnedQty(q, i)' = ReturnedQty(q, i)
  BY ReturnedSame DEF ReturnsWithin
<1>2. CASE Returns(q) = {}
  <2>1. \A i : ReturnedQty(q, i) = 0
    BY <1>2, NothingReturned
  <2>2. sale'[q].lines \in Seq(CartLine)
    BY DEF TillInv, DeskInv, DeskTypeOK, SaleRow
  <2>3. \A i \in 1..Len(sale'[q].lines) : sale'[q].lines[i] \in CartLine
    BY <2>2
  <2>4. \A i \in 1..Len(sale'[q].lines) : 0 <= sale'[q].lines[i].qty
    BY <2>3 DEF CartLine
  <2> QED
    BY <1>1, <1>2, <2>1, <2>4
<1>3. CASE Returns(q) # {}
  <2>1. sale[q].status \in Final
    BY <1>3 DEF ReturnsWithin
  <2>2. sale'[q].lines = sale[q].lines /\ sale'[q].status \in Final
    BY <2>1, KnownSales DEF Final
  <2> QED
    BY <1>1, <2>2 DEF ReturnsWithin
<1> QED
  BY <1>2, <1>3

(* A request that goes on knows what it knew. *)
LEMMA KnowsStill ==
    ASSUME TillBooks, NEW w \in Worker, DocStep(w), returned' = returned,
           ReturnKnows(w), At(w, "return"),
           job'[w].sale = job[w].sale, job'[w].back = job[w].back
    PROVE  ReturnKnows(w)'
<1> DEFINE q == job[w].sale  back == job[w].back
<1>1. q \in Sale /\ sale[q].status \in Final
  BY DEF TillBooks, BooksInv, JobsInv, DocsOK
<1>2. sale'[q].lines = sale[q].lines
  BY <1>1, KnownSales DEF Final
<1>3. \A i : ReturnedQty(q, i)' = ReturnedQty(q, i)
  BY ReturnedSame
<1>4. NamesLinesOnce(back) /\ Returnable(q, back)
  BY DEF ReturnKnows
<1>5. NamesLinesOnce(job'[w].back) /\ Returnable(job[w].sale, job[w].back)'
  BY <1>2, <1>3, <1>4 DEF Returnable
<1> QED
  BY <1>5 DEF ReturnKnows

(* The commit of what was found returnable. *)
LEMMA ReturnCommitWithin ==
    ASSUME TillBooks, TillInv', NEW w \in Worker, ReturnsWithin,
           ReturnKnows(w), ReturnCommit(w)
    PROVE  ReturnsWithin' /\ ReturnKnows(w)'
<1>1. PICK n \in Return, q \in Sale, back \in Seq(ReturnLine) :
         /\ n = job[w].return /\ q = job[w].sale /\ back = job[w].back
         /\ returned[n] = NoReturn /\ sale[q].status \in Final
         /\ NamesLinesOnce(back) /\ Returnable(q, back)
  <2>1. job[w].back \in Seq(ReturnLine)
    BY TillTypes DEF TillBooks, Job
  <2>2. /\ job[w].sale \in Sale /\ job[w].return \in Return
        /\ returned[job[w].return] = NoReturn
        /\ sale[job[w].sale].status \in Final
        /\ NamesLinesOnce(job[w].back) /\ Returnable(job[w].sale, job[w].back)
    BY DEF ReturnCommit, TillBooks, BooksInv, JobsInv, DocsOK, ReturnKnows
  <2> QED
    BY <2>1, <2>2
<1>2. back \in Seq(ReturnLine)
  BY <1>1
<1>3. /\ sale' = sale
      /\ returned'[n].sale = q /\ returned'[n].lines = back
      /\ \A m \in Return \ {n} : returned'[m] = returned[m]
  BY <1>1, TillTypes DEF ReturnCommit, TillBooks
<1>4. NoReturn.sale \notin Sale
  BY TillAssumption, StockBookAssumption DEF NoReturn
<1>5. /\ n \notin Returns(q) /\ Returns(q)' = Returns(q) \cup {n}
      /\ \A m \in Returns(q) : returned'[m] = returned[m]
  BY <1>1, <1>3, <1>4 DEF Returns
<1>6. \A p \in Sale \ {q} : /\ Returns(p)' = Returns(p)
                            /\ \A m \in Returns(p) : returned'[m] = returned[m]
  BY <1>1, <1>3, <1>4 DEF Returns
<1>7. ASSUME NEW p \in Sale \ {q}, NEW i
      PROVE  ReturnedQty(p, i)' = ReturnedQty(p, i)
  <2>1. [m \in Returns(p)' |-> QtyOf(returned'[m].lines, i)]
           = [m \in Returns(p) |-> QtyOf(returned[m].lines, i)]
    BY <1>6
  <2> QED
    BY <2>1 DEF ReturnedQty, Returns
<1>8. ASSUME NEW i \in 1..Len(sale[q].lines)
      PROVE  ReturnedQty(q, i)' <= sale[q].lines[i].qty
  <2>1. TillInv /\ IsFiniteSet(Returns(q))
    BY <1>1 DEF TillBooks, ReturnsWithin
  <2>2. /\ ReturnedQty(q, i)' = ReturnedQty(q, i) + QtyOf(back, i)
        /\ QtyOf(back, i) \in Int
    <3>1. /\ ReturnedQty(q, i)' = ReturnedQty(q, i)
                                     + QtyOf(returned'[n].lines, i)
          /\ QtyOf(returned'[n].lines, i) \in Int
      BY <2>1, <1>5, ReturnedMore
    <3> QED
      BY <1>3, <3>1
  <2>3. ReturnedQty(q, i) \in Int
    BY <2>1, ReturnedInt
  <2>4. ReturnedQty(q, i) <= sale[q].lines[i].qty
    BY <1>1 DEF ReturnsWithin
  <2>5. sale[q].lines[i].qty \in Int
    <3>1. sale[q].lines \in Seq(CartLine)
      BY <2>1, <1>1, TillTypes DEF SaleRow
    <3>2. sale[q].lines[i] \in CartLine
      BY <3>1
    <3> QED
      BY <3>2 DEF CartLine
  <2>6. CASE \A j \in 1..Len(back) : back[j].line # i
    <3>1. QtyOf(back, i) = 0
      BY <1>2, <2>6, QtyOfNone
    <3> QED
      BY <2>2, <2>3, <2>4, <2>5, <3>1
  <2>7. ASSUME NEW k \in 1..Len(back), back[k].line = i
        PROVE  ReturnedQty(q, i)' <= sale[q].lines[i].qty
    <3>1. QtyOf(back, i) = back[k].qty
      BY <1>1, <1>2, <2>7, QtyOfOne
    <3>2. back[k].qty <= sale[q].lines[i].qty - ReturnedQty(q, i)
      BY <1>1, <2>7 DEF Returnable
    <3> QED
      BY <2>2, <2>3, <2>5, <3>1, <3>2
  <2> QED
    BY <2>6, <2>7
<1>9. IsFiniteSet(Returns(q) \cup {n})
  BY <1>1, FS_AddElement DEF ReturnsWithin
<1>10. ReturnsWithin'
  <2>1. ASSUME NEW p \in Sale
        PROVE  /\ IsFiniteSet(Returns(p)')
               /\ Returns(p)' # {} => sale'[p].status \in Final
               /\ \A i \in 1..Len(sale'[p].lines) :
                     ReturnedQty(p, i)' <= sale'[p].lines[i].qty
    <3>1. CASE p = q
      BY <1>1, <1>3, <1>5, <1>8, <1>9, <3>1
    <3>2. CASE p # q
      BY <1>3, <1>6, <1>7, <3>2 DEF ReturnsWithin
    <3> QED
      BY <3>1, <3>2
  <2> QED
    BY <2>1 DEF ReturnsWithin
<1>11. job'[w].at = "idle"
  BY TillTypes, IdleType DEF TillBooks, ReturnCommit, Become, Idle
<1> QED
  BY <1>10, <1>11 DEF ReturnKnows, At

LEMMA ReturnBeginKnowsLines ==
    ASSUME TillBooks, NEW w \in Worker, NEW n \in Return, NEW q \in Sale,
           NEW back \in ReturnBodies, NEW restock \in BOOLEAN,
           NamesLinesOnce(back), ReturnBegin(w, n, q, back, restock)
    PROVE  returned' = returned /\ ReturnKnows(w)'
<1>1. UNCHANGED <<sale, returned>> /\ Returnable(q, back)
  BY DEF ReturnBegin, deskVars
<1>2. job'[w].sale = q /\ job'[w].back = back
  BY TillTypes DEF TillBooks, ReturnBegin, Become, Idle
<1>3. \A i : ReturnedQty(q, i)' = ReturnedQty(q, i)
  BY <1>1, ReturnedSame
<1>4. Returnable(job[w].sale, job[w].back)'
  BY <1>1, <1>2, <1>3 DEF Returnable
<1> QED
  BY <1>1, <1>2, <1>4 DEF ReturnKnows

(* Every other step leaves the returns alone; a return that goes on keeps  *)
(* what it asks for.                                                       *)
LEMMA OthersNeitherReturn ==
    ASSUME TillBooks, NEW w \in Worker,
           Request(w) \/ Step(w) \/ DeadlockAbort(w) \/ Crash(w),
           ~ReturnCommit(w),
           ~\E n \in Return, q \in Sale, back \in ReturnBodies,
               restock \in BOOLEAN : ReturnBegin(w, n, q, back, restock)
    PROVE  /\ returned' = returned
           /\ At(w, "return")' =>
                /\ At(w, "return") /\ job'[w].sale = job[w].sale
                /\ job'[w].back = job[w].back
<1>0. job[w] \in Job /\ job \in [Worker -> Job]
  BY TillTypes DEF TillBooks
<1>1. CASE Request(w)
  <2>1. ASSUME NEW q \in Sale, NEW s \in Shift, NEW lines \in Carts,
               SellBegin(w, q, s, lines) \/ HoldBegin(w, q, s, lines)
        PROVE  returned' = returned /\ ~At(w, "return")'
    BY <1>0, <2>1 DEF SellBegin, HoldBegin, deskVars, Become, At, Idle
  <2>2. ASSUME NEW q \in Sale, VoidBegin(w, q)
        PROVE  returned' = returned /\ ~At(w, "return")'
    BY <1>0, <2>2 DEF VoidBegin, deskVars, Become, At, Idle
  <2>3. ASSUME NEW s \in Shift, OpenCheck(w, s) \/ CloseBegin(w, s)
        PROVE  returned' = returned /\ ~At(w, "return")'
    BY <1>0, <2>3 DEF OpenCheck, CloseBegin, deskVars, Become, At, Idle
  <2>4. ASSUME NEW v \in Variant, DeleteVariant(w, v)
        PROVE  returned' = returned /\ job' = job
    BY <2>4 DEF DeleteVariant, deskVars
  <2> QED
    BY <1>1, <2>1, <2>2, <2>3, <2>4 DEF Request, At
<1>2. CASE Step(w)
  <2>1. CASE Deduct(w) \/ Restore(w) \/ Restock(w)
    BY <1>0, <2>1 DEF Deduct, Restore, Restock, AdjustNext, deskVars, At, Job
  <2>2. CASE SellCommit(w) \/ HoldCommit(w) \/ VoidCommit(w)
    BY <1>0, <2>2 DEF SellCommit, HoldCommit, VoidCommit, Become, At, Idle
  <2>3. CASE AdjustFails(w)
    BY <1>0, <2>3 DEF AdjustFails, Abort, deskVars, Become, At, Idle
  <2>4. CASE OpenInsert(w) \/ CloseWrite(w) \/ CloseFails(w)
    BY <1>0, <2>4 DEF OpenInsert, CloseWrite, CloseFails, deskVars, Become,
       At, Idle
  <2>5. CASE CloseList(w) \/ CloseTotals(w)
    BY <1>0, <2>5 DEF CloseList, CloseTotals, deskVars, At, Job
  <2>6. ASSUME NEW q \in Sale, CloseDiscard(w, q)
        PROVE  returned' = returned /\ ~At(w, "return")'
    BY <1>0, <2>6 DEF CloseDiscard, At, Job
  <2> QED
    BY <1>2, <2>1, <2>2, <2>3, <2>4, <2>5, <2>6 DEF Step
<1>3. CASE DeadlockAbort(w) \/ Crash(w)
  BY <1>0, <1>3 DEF DeadlockAbort, Crash, Abort, deskVars, Become, At, Idle
<1> QED
  BY <1>1, <1>2, <1>3

LEMMA SerialReturnsNext ==
    ASSUME NEW w \in Worker, Worker = {w},
           \A back \in ReturnBodies : NamesLinesOnce(back),
           SerialReturns(w), [Next]_vars
    PROVE  SerialReturns(w)'
<1>1. TillBooks' /\ TillInv' /\ TillBooks
  BY NextKeepsBooks DEF SerialReturns, TillBooks
<1>2. CASE Request(w) \/ Step(w) \/ DeadlockAbort(w) \/ Crash(w)
  <2>1. DocStep(w)
    BY <1>1, <1>2, WorkerKeepsBooks DEF BooksStep
  <2>2. CASE ReturnCommit(w)
    BY <1>1, <2>2, ReturnCommitWithin DEF SerialReturns
  <2>3. ASSUME NEW n \in Return, NEW q \in Sale, NEW back \in ReturnBodies,
               NEW restock \in BOOLEAN, ReturnBegin(w, n, q, back, restock)
        PROVE  ReturnsWithin' /\ ReturnKnows(w)'
    BY <1>1, <2>1, <2>3, ReturnBeginKnowsLines, WithinStays DEF SerialReturns
  <2>4. CASE /\ ~ReturnCommit(w)
             /\ ~\E n \in Return, q \in Sale, back \in ReturnBodies,
                    restock \in BOOLEAN : ReturnBegin(w, n, q, back, restock)
    <3>1. /\ returned' = returned
          /\ At(w, "return")' =>
               /\ At(w, "return") /\ job'[w].sale = job[w].sale
               /\ job'[w].back = job[w].back
      BY <1>1, <1>2, <2>4, OthersNeitherReturn
    <3>2. ReturnsWithin'
      BY <1>1, <2>1, <3>1, WithinStays DEF SerialReturns
    <3>3. ReturnKnows(w)'
      <4>1. CASE At(w, "return")'
        BY <1>1, <2>1, <3>1, <4>1, KnowsStill DEF SerialReturns
      <4>2. CASE ~At(w, "return")'
        BY <4>2 DEF ReturnKnows
      <4> QED
        BY <4>1, <4>2
    <3> QED
      BY <1>1, <3>2, <3>3 DEF SerialReturns
  <2> QED
    BY <1>1, <2>2, <2>3, <2>4 DEF SerialReturns
<1>3. CASE UNCHANGED vars
  <2>1. UNCHANGED <<sale, returned, job>>
    BY <1>3 DEF vars, deskVars
  <2>2. ReturnsWithin' /\ ReturnKnows(w)'
    BY <2>1 DEF SerialReturns, ReturnsWithin, ReturnKnows, Returns, Returnable,
       ReturnedQty, At
  <2> QED
    BY <1>1, <2>2 DEF SerialReturns
<1> QED
  BY <1>2, <1>3 DEF Next

LEMMA SerialReturnsInit ==
    ASSUME NEW w \in Worker, Init
    PROVE  SerialReturns(w)
<1>1. TillBooks
  BY BooksInit
<1>2. \A q \in Sale : Returns(q) = {} /\ sale[q].lines = <<>>
  BY TillAssumption, StockBookAssumption DEF Init, Returns, NoReturn, NoSale
<1>3. ReturnsWithin
  <2>1. \A i : i \notin 1..Len(<<>>)
    OBVIOUS
  <2> QED
    BY <1>2, <2>1, FS_EmptySet DEF ReturnsWithin
<1>4. ReturnKnows(w)
  BY DEF Init, ReturnKnows, At, Idle
<1> QED
  BY <1>1, <1>3, <1>4 DEF SerialReturns

(* No more units of a line come back than were sold, if requests do not    *)
(* overlap and none names a line twice: validate_return_eligibility        *)
(* compares each entry with what was returned before, and initiate_return  *)
(* locks nothing between that check and its commit.                        *)
THEOREM SerialNeverOverReturned ==
    ASSUME NEW w \in Worker, Worker = {w},
           \A back \in ReturnBodies : NamesLinesOnce(back)
    PROVE  Spec => []NeverOverReturned
<1>1. Init => SerialReturns(w)
  BY SerialReturnsInit
<1>2. SerialReturns(w) /\ [Next]_vars => SerialReturns(w)'
  BY SerialReturnsNext
<1>3. SerialReturns(w) => NeverOverReturned
  BY DEF SerialReturns, ReturnsWithin, NeverOverReturned
<1> QED
  BY <1>1, <1>2, <1>3, PTL DEF Spec
=============================================================================
