-------------------------- MODULE PurchasingProofs --------------------------
(***************************************************************************)
(* The purchase order is right for every number of clerks, lines and       *)
(* requests.  The inductive invariant adds to the properties what the      *)
(* requests in progress rely on: only the first request creates the order  *)
(* and it has not done so while it is "asked"; a status that passed its    *)
(* check passed it against what is remembered in "seen".                   *)
(***************************************************************************)
EXTENDS Purchasing, SequenceTheorems, TLAPS

CreateOK(q) ==
    requests[q].kind = "create" =>
        /\ q = 1 /\ requests[q].by \in Clerk
        /\ requests[q].stage \in {"asked", "row", "done", "refused", "over"}
        /\ requests[q].stage = "asked" => status = Nothing

CheckOK(q) ==
    requests[q].stage = "checked" =>
        /\ requests[q].kind \in {"send", "mark", "cancel"}
        /\ Allowed(requests[q].seen, Target(q))

WithinOrder == \A l \in Line : got[l] <= Ordered[l]
DialogOnAnswer == \A c \in receiving : shown[c] # Nothing

OrderTypeOK ==
    /\ status \in Statuses \cup {Nothing}
    /\ lined \in BOOLEAN /\ crossed \in BOOLEAN
    /\ got \in Quantities /\ stock \in Quantities
    /\ requests \in Seq(Write)
PageTypeOK ==
    /\ on \subseteq Clerk /\ receiving \subseteq on
    /\ shown \in [Clerk -> Answer \cup {Nothing}]
    /\ asking \subseteq Clerk /\ reads \in 0..MaxReads
    /\ coming \in [Clerk -> Answer \cup {Nothing}]
    /\ entries \in [Clerk -> Quantities]

LEMMA TypeParts == TypeOK <=> OrderTypeOK /\ PageTypeOK
BY DEF TypeOK, OrderTypeOK, PageTypeOK

OrderInv ==
    /\ OrderTypeOK
    /\ \A q \in Sent : CreateOK(q) /\ CheckOK(q)
    /\ WithinOrder
    /\ StatusMatchesLines
UnbornOrder ==
    status = Nothing =>
        /\ got = NoQuantities
        /\ \A q \in Sent :
            /\ requests[q].kind = "create"
            /\ requests[q].stage \in {"asked", "refused", "over"}
UnbornPages == status = Nothing => on = {} /\ asking = {}
PageInv ==
    /\ PageTypeOK
    /\ UnbornPages
    /\ DialogOnAnswer
    /\ EntriesFit

Inv == OrderInv /\ UnbornOrder /\ PageInv

----------------------------------------------------------------------------
(* Sequences of requests. *)

LEMMA Replaced ==
    ASSUME NEW q \in Sent, NEW w \in Write, requests \in Seq(Write),
           requests' = [requests EXCEPT ![q] = w]
    PROVE  /\ requests' \in Seq(Write)
           /\ Len(requests') = Len(requests)
           /\ Sent' = Sent
           /\ requests'[q] = w
           /\ \A p \in Sent \ {q} : requests'[p] = requests[p]
<1>1. requests' \in Seq(Write) /\ Len(requests') = Len(requests)
  BY ExceptSeq DEF Sent
<1> QED
  BY <1>1 DEF Sent

LEMMA Moved ==
    ASSUME NEW q \in Sent, NEW stage \in Stages, requests \in Seq(Write),
           Moves(q, stage)
    PROVE  /\ requests' \in Seq(Write)
           /\ Sent' = Sent
           /\ requests'[q] = [requests[q] EXCEPT !.stage = stage]
           /\ \A p \in Sent \ {q} : requests'[p] = requests[p]
<1>1. requests[q] \in Write
  BY DEF Sent
<1>2. [requests[q] EXCEPT !.stage = stage] \in Write
  BY <1>1 DEF Write
<1>3. requests' = [requests EXCEPT ![q] =
                     [requests[q] EXCEPT !.stage = stage]]
  BY DEF Moves
<1> QED
  BY <1>2, <1>3, Replaced

LEMMA Posted ==
    ASSUME NEW w \in Write, requests \in Seq(Write),
           requests' = Append(requests, w)
    PROVE  /\ requests' \in Seq(Write)
           /\ Sent' = Sent \cup {Len(requests) + 1}
           /\ requests'[Len(requests) + 1] = w
           /\ \A p \in Sent : requests'[p] = requests[p]
BY DEF Sent

LEMMA Rewritten ==
    ASSUME NEW c, requests \in Seq(Write),
           requests' = [q \in DOMAIN requests |-> Forgotten(requests[q], c)]
    PROVE  /\ requests' \in Seq(Write)
           /\ Sent' = Sent
           /\ \A q \in Sent :
                /\ requests'[q].kind = requests[q].kind
                /\ requests'[q].by = requests[q].by
                /\ requests'[q].stage = requests[q].stage
                /\ requests'[q].seen = requests[q].seen
                /\ requests'[q].takes = requests[q].takes
<1>1. ASSUME NEW q \in 1..Len(requests)
      PROVE  /\ Forgotten(requests[q], c) \in Write
             /\ Forgotten(requests[q], c).kind = requests[q].kind
             /\ Forgotten(requests[q], c).by = requests[q].by
             /\ Forgotten(requests[q], c).stage = requests[q].stage
             /\ Forgotten(requests[q], c).seen = requests[q].seen
             /\ Forgotten(requests[q], c).takes = requests[q].takes
  <2>1. requests[q] \in Write
    BY <1>1
  <2> QED
    BY <2>1 DEF Forgotten, Write
<1>2. Len(requests) \in Nat /\ DOMAIN requests = 1..Len(requests)
  OBVIOUS
<1>3. requests' \in Seq(Write)
  BY <1>1, <1>2
<1> QED
  BY <1>1, <1>2, <1>3 DEF Sent

----------------------------------------------------------------------------
(* Quantities. *)

LEMMA NoQuantitiesType == NoQuantities \in Quantities
BY DEF NoQuantities, Quantities

LEMMA CurrentType ==
    ASSUME TypeOK, status # Nothing
    PROVE  Current \in Answer
BY DEF TypeOK, Current, Answer

----------------------------------------------------------------------------
(* The page: the order and the requests stay, or the requests forget their *)
(* page.                                                                   *)

LEMMA OrderStays ==
    ASSUME OrderInv, UnbornOrder, UNCHANGED <<orderVars, requests>>
    PROVE  OrderInv' /\ UnbornOrder'
BY DEF OrderInv, UnbornOrder, OrderTypeOK, CreateOK, CheckOK, WithinOrder,
       StatusMatchesLines, orderVars, Sent, Target, Allowed, AllIn, SomeIn

LEMMA OrderForgets ==
    ASSUME OrderInv, UnbornOrder, NEW c, UNCHANGED orderVars,
           requests' = [q \in DOMAIN requests |-> Forgotten(requests[q], c)]
    PROVE  OrderInv' /\ UnbornOrder'
<1>1. /\ requests' \in Seq(Write)
      /\ Sent' = Sent
      /\ \A q \in Sent : /\ requests'[q].kind = requests[q].kind
                         /\ requests'[q].by = requests[q].by
                         /\ requests'[q].stage = requests[q].stage
                         /\ requests'[q].seen = requests[q].seen
  BY Rewritten DEF OrderInv, OrderTypeOK
<1>2. (\A q \in Sent : CreateOK(q) /\ CheckOK(q))'
  BY <1>1 DEF OrderInv, CreateOK, CheckOK, orderVars, Target, Allowed
<1>3. UnbornOrder'
  BY <1>1 DEF UnbornOrder, orderVars
<1>4. StatusMatchesLines' /\ WithinOrder'
  BY DEF OrderInv, WithinOrder, StatusMatchesLines, orderVars, AllIn, SomeIn
<1>5. OrderTypeOK'
  BY <1>1 DEF OrderInv, OrderTypeOK, orderVars
<1> QED
  BY <1>2, <1>3, <1>4, <1>5 DEF OrderInv

LEMMA PageStays ==
    ASSUME PageInv, UNCHANGED pageVars, status' = Nothing => status = Nothing
    PROVE  PageInv'
BY DEF PageInv, PageTypeOK, UnbornPages, DialogOnAnswer, EntriesFit,
       pageVars, Remaining

LEMMA UntypedType ==
    ASSUME NEW c \in Clerk, entries \in [Clerk -> Quantities], Untyped(c)
    PROVE  /\ entries' \in [Clerk -> Quantities]
           /\ \A l \in Line : entries'[c][l] = 0
           /\ \A d \in Clerk \ {c} : entries'[d] = entries[d]
BY NoQuantitiesType DEF Untyped, NoQuantities

LEMMA VisitStep ==
    ASSUME OrderInv, PageInv, NEW c \in Clerk, Visit(c)
    PROVE  PageInv'
BY DEF Visit, PageInv, PageTypeOK, UnbornPages, DialogOnAnswer, EntriesFit,
       Remaining, orderVars

LEMMA LeaveStep ==
    ASSUME OrderInv, PageInv, NEW c \in Clerk, Leave(c)
    PROVE  PageInv'
<1>1. /\ entries' \in [Clerk -> Quantities]
      /\ \A d \in Clerk \ {c} : entries'[d] = entries[d]
  BY UntypedType DEF PageInv, PageTypeOK, Leave
<1> QED
  BY <1>1 DEF Leave, PageInv, PageTypeOK, UnbornPages, DialogOnAnswer,
     EntriesFit, Remaining, orderVars

LEMMA RefetchStep ==
    ASSUME PageInv, NEW c \in Clerk, Refetch(c)
    PROVE  PageInv'
BY DEF Refetch, PageInv, PageTypeOK, UnbornPages, DialogOnAnswer, EntriesFit,
       Remaining, orderVars

LEMMA ServerReadsStep ==
    ASSUME OrderInv, PageInv, NEW c \in Clerk, ServerReads(c)
    PROVE  PageInv'
<1>1. status # Nothing
  BY DEF PageInv, UnbornPages, ServerReads
<1>2. Current \in Answer
  BY <1>1, TypeParts, CurrentType DEF OrderInv, PageInv
<1>3. coming' \in [Clerk -> Answer \cup {Nothing}]
  BY <1>2 DEF ServerReads, PageInv, PageTypeOK
<1>4. reads' \in 0..MaxReads
  BY PurchasingAssumption DEF ServerReads, PageInv, PageTypeOK
<1> QED
  BY <1>1, <1>3, <1>4 DEF ServerReads, PageInv, PageTypeOK, UnbornPages,
     DialogOnAnswer, EntriesFit, Remaining, orderVars

LEMMA LandsStep ==
    ASSUME PageInv, NEW c \in Clerk, Lands(c)
    PROVE  PageInv'
<1> USE DEF Lands, Landed
<1>1. shown' \in [Clerk -> Answer \cup {Nothing}]
  BY DEF PageInv, PageTypeOK
<1>2. shown'[c] = coming[c] /\ coming[c] # Nothing
      /\ \A d \in Clerk \ {c} : shown'[d] = shown[d]
  BY DEF PageInv, PageTypeOK
<1>3. entries' \in [Clerk -> Quantities]
      /\ \A d \in Clerk \ {c} : entries'[d] = entries[d]
  BY UntypedType DEF PageInv, PageTypeOK
<1>4. PageTypeOK'
  BY <1>1, <1>3 DEF PageInv, PageTypeOK
<1>5. DialogOnAnswer'
  BY <1>2 DEF PageInv, PageTypeOK, DialogOnAnswer
<1>6. EntriesFit'
  <2> SUFFICES ASSUME NEW d \in receiving, NEW l \in Line,
                      entries'[d][l] > 0
               PROVE  entries'[d][l] <= Ordered[l] - shown'[d].got[l]
    BY DEF EntriesFit, Remaining
  <2>1. CASE d # c
    BY <2>1, <1>2, <1>3 DEF PageInv, PageTypeOK, EntriesFit, Remaining
  <2>2. CASE d = c /\ UNCHANGED entries
    <3>1. CASE shown[c].got = coming[c].got
      BY <2>2, <3>1, <1>2 DEF PageInv, EntriesFit, Remaining
    <3>2. CASE Untyped(c)
      BY <2>2, <3>2, UntypedType DEF PageInv, PageTypeOK
    <3> QED
      BY <3>1, <3>2
  <2>3. CASE d = c /\ Untyped(c)
    BY <2>3, UntypedType DEF PageInv, PageTypeOK
  <2> QED
    BY <2>1, <2>2, <2>3
<1>7. UnbornPages'
  BY DEF PageInv, UnbornPages, orderVars
<1> QED
  BY <1>4, <1>5, <1>6, <1>7 DEF PageInv

LEMMA FetchFailsStep ==
    ASSUME PageInv, NEW c \in Clerk, FetchFails(c)
    PROVE  PageInv'
BY DEF FetchFails, PageInv, PageTypeOK, UnbornPages, DialogOnAnswer,
       EntriesFit, Remaining, orderVars

LEMMA OpenDialogStep ==
    ASSUME PageInv, NEW c \in Clerk, OpenDialog(c)
    PROVE  PageInv'
<1>1. /\ entries' \in [Clerk -> Quantities]
      /\ \A l \in Line : entries'[c][l] = 0
      /\ \A d \in Clerk \ {c} : entries'[d] = entries[d]
  BY UntypedType DEF PageInv, PageTypeOK, OpenDialog
<1> QED
  BY <1>1 DEF OpenDialog, Shows, PageInv, PageTypeOK, UnbornPages,
     DialogOnAnswer, EntriesFit, Remaining, orderVars

LEMMA CloseDialogStep ==
    ASSUME PageInv, NEW c \in Clerk, CloseDialog(c)
    PROVE  PageInv'
<1>1. /\ entries' \in [Clerk -> Quantities]
      /\ \A d \in Clerk \ {c} : entries'[d] = entries[d]
  BY UntypedType DEF PageInv, PageTypeOK, CloseDialog
<1> QED
  BY <1>1 DEF CloseDialog, PageInv, PageTypeOK, UnbornPages, DialogOnAnswer,
     EntriesFit, Remaining, orderVars

LEMMA UpdateQtyStep ==
    ASSUME PageInv, NEW c \in Clerk, NEW l \in Line, NEW delta \in Deltas,
           UpdateQty(c, l, delta)
    PROVE  PageInv'
<1>1. shown[c] \in Answer
  BY DEF PageInv, PageTypeOK, DialogOnAnswer, UpdateQty
<1>2. Remaining(c, l) \in Nat
  <2>1. shown[c].got[l] \in Nat
    BY <1>1 DEF Answer, Quantities
  <2>2. Remaining(c, l) \in Int /\ Remaining(c, l) > 0
    BY <2>1, PurchasingAssumption DEF Remaining, UpdateQty
  <2> QED
    BY <2>2
<1>3. entries[c][l] \in Nat /\ delta \in Int
  BY DEF PageInv, PageTypeOK, Quantities, Deltas
<1>4. Clamp(entries[c][l] + delta, Remaining(c, l)) \in 0..Remaining(c, l)
  <2>1. entries[c][l] + delta \in Int
    BY <1>3
  <2> QED
    BY <1>2, <2>1 DEF Clamp, Smaller, Larger
<1>5. /\ entries' \in [Clerk -> Quantities]
      /\ \A d \in Clerk, k \in Line :
            entries'[d][k] = IF d = c /\ k = l
                             THEN Clamp(entries[c][l] + delta,
                                        Remaining(c, l))
                             ELSE entries[d][k]
  BY <1>2, <1>4 DEF UpdateQty, PageInv, PageTypeOK, Quantities
<1>6. EntriesFit'
  BY <1>2, <1>4, <1>5 DEF UpdateQty, PageInv, PageTypeOK, EntriesFit,
     Remaining
<1> QED
  BY <1>5, <1>6 DEF UpdateQty, PageInv, PageTypeOK, UnbornPages,
     DialogOnAnswer, orderVars

----------------------------------------------------------------------------
(* Sending: the request is the only news. *)

LEMMA PostsStep ==
    ASSUME OrderInv, UnbornOrder, NEW c \in Clerk \cup {Nothing},
           NEW kind \in Kinds, NEW takes \in Quantities,
           Posts(c, kind, takes),
           kind = "create" =>
               status = Nothing /\ requests = <<>> /\ c \in Clerk,
           kind # "create" => status # Nothing
    PROVE  OrderInv' /\ UnbornOrder'
<1> DEFINE w == [stage |-> "asked", kind |-> kind, by |-> c,
                 here |-> c \in on, seen |-> "DRAFT", takes |-> takes]
<1>1. w \in Write
  BY DEF Write, Stages, Statuses
<1>2. /\ requests' \in Seq(Write)
      /\ Sent' = Sent \cup {Len(requests) + 1}
      /\ requests'[Len(requests) + 1] = w
      /\ \A p \in Sent : requests'[p] = requests[p]
  BY <1>1, Posted DEF Posts, OrderInv, OrderTypeOK
<1>3. UNCHANGED orderVars
  BY DEF Posts
<1>4. ASSUME NEW q \in Sent' PROVE (CreateOK(q) /\ CheckOK(q))'
  <2>1. CASE q \in Sent
    BY <2>1, <1>2, <1>3
       DEF OrderInv, CreateOK, CheckOK, Target, orderVars
  <2>2. CASE q = Len(requests) + 1
    <3>1. kind = "create" => q = 1
      BY <2>2
    <3> QED
      BY <2>2, <3>1, <1>2, <1>3 DEF CreateOK, CheckOK, orderVars
  <2> QED
    BY <2>1, <2>2, <1>2
<1>5. UnbornOrder'
  BY <1>2, <1>3 DEF UnbornOrder, orderVars, Sent
<1>6. StatusMatchesLines' /\ WithinOrder'
  BY <1>3 DEF OrderInv, WithinOrder, StatusMatchesLines, orderVars, AllIn,
     SomeIn
<1>7. OrderTypeOK'
  BY <1>2, <1>3 DEF OrderInv, OrderTypeOK, orderVars
<1> QED
  BY <1>4, <1>5, <1>6, <1>7 DEF OrderInv

LEMMA SendStep ==
    ASSUME Inv, NEW c \in Clerk, Send(c)
    PROVE  Inv'
<1> USE DEF Inv
<1>1. Send(c) => UNCHANGED pageVars /\ UNCHANGED status
  BY DEF Send, SubmitOrder, SendViaWhatsApp, ConfirmCancel, ConfirmReceipt,
     Sends, Posts, orderVars
<1>2. PageInv'
  BY <1>1, PageStays
<1>3. c \in on => status # Nothing
  BY DEF PageInv, UnbornPages
<1>4. CASE SubmitOrder(c)
  BY <1>2, <1>4, PostsStep, NoQuantitiesType DEF SubmitOrder, Sends, Kinds
<1>5. CASE SendViaWhatsApp(c)
  BY <1>2, <1>5, <1>3, PostsStep, NoQuantitiesType
     DEF SendViaWhatsApp, Shows, Sends, Kinds
<1>6. CASE ConfirmCancel(c)
  BY <1>2, <1>6, <1>3, PostsStep, NoQuantitiesType
     DEF ConfirmCancel, Shows, Sends, Kinds
<1>7. CASE ConfirmReceipt(c)
  <2>1. entries[c] \in Quantities /\ c \in on
    BY <1>7 DEF ConfirmReceipt, PageInv, PageTypeOK
  <2> QED
    BY <1>2, <1>7, <2>1, <1>3, PostsStep DEF ConfirmReceipt, Sends, Kinds
<1> QED
  BY <1>4, <1>5, <1>6, <1>7 DEF Send

LEMMA OthersStep ==
    ASSUME Inv, NEW kind \in Kinds \ {"create"}, NEW takes \in Deliveries,
           OthersSend(kind, takes)
    PROVE  Inv'
<1>1. takes \in Quantities
  BY PurchasingAssumption DEF Deliveries, Quantities
<1>2. OrderInv' /\ UnbornOrder'
  BY <1>1, PostsStep DEF Inv, OthersSend
<1>3. PageInv'
  BY PageStays DEF Inv, OthersSend, Posts, orderVars
<1> QED
  BY <1>2, <1>3 DEF Inv

LEMMA PageStepStep ==
    ASSUME Inv, NEW c \in Clerk, PageStep(c)
    PROVE  Inv'
<1> USE DEF Inv
<1>1. CASE Visit(c)
  BY <1>1, VisitStep, OrderStays DEF Visit
<1>2. CASE Leave(c)
  BY <1>2, LeaveStep, OrderForgets DEF Leave
<1>3. CASE Refetch(c)
  BY <1>3, RefetchStep, OrderStays DEF Refetch
<1>4. CASE ServerReads(c)
  BY <1>4, ServerReadsStep, OrderStays DEF ServerReads
<1>5. CASE Lands(c)
  BY <1>5, LandsStep, OrderStays DEF Lands, Landed
<1>6. CASE FetchFails(c)
  BY <1>6, FetchFailsStep, OrderStays DEF FetchFails
<1>7. CASE OpenDialog(c)
  BY <1>7, OpenDialogStep, OrderStays DEF OpenDialog
<1>8. CASE CloseDialog(c)
  BY <1>8, CloseDialogStep, OrderStays DEF CloseDialog
<1>9. ASSUME NEW l \in Line, NEW delta \in Deltas, UpdateQty(c, l, delta)
      PROVE  Inv'
  BY <1>9, UpdateQtyStep, OrderStays DEF UpdateQty
<1> QED
  BY <1>1, <1>2, <1>3, <1>4, <1>5, <1>6, <1>7, <1>8, <1>9 DEF PageStep

----------------------------------------------------------------------------
(* The service: one request moves on, and the order may change with it.    *)

LEMMA RequestMoves ==
    ASSUME OrderInv, NEW q \in Sent,
           NEW stage \in Stages \ {"asked", "checked"}, Moves(q, stage),
           requests[q].kind = "create" => stage # "messaged",
           \/ status' = status
           \/ status # Nothing
           \/ requests[q].kind = "create"
    PROVE  /\ requests' \in Seq(Write)
           /\ Sent' = Sent
           /\ requests'[q].kind = requests[q].kind
           /\ requests'[q].stage = stage
           /\ \A p \in Sent \ {q} : requests'[p] = requests[p]
           /\ (\A p \in Sent : CreateOK(p) /\ CheckOK(p))'
<1>1. /\ requests' \in Seq(Write)
      /\ Sent' = Sent
      /\ requests'[q] = [requests[q] EXCEPT !.stage = stage]
      /\ \A p \in Sent \ {q} : requests'[p] = requests[p]
  BY Moved DEF OrderInv, OrderTypeOK
<1>2. requests[q] \in Write
  BY DEF OrderInv, OrderTypeOK, Sent
<1>3. /\ requests'[q].kind = requests[q].kind
      /\ requests'[q].by = requests[q].by
      /\ requests'[q].stage = stage
  BY <1>1, <1>2 DEF Write
<1>4. ASSUME NEW p \in Sent PROVE (CreateOK(p) /\ CheckOK(p))'
  <2>1. CASE p = q
    BY <2>1, <1>3 DEF OrderInv, CreateOK, CheckOK, Stages
  <2>2. CASE p # q
    <3>1. requests'[p] = requests[p]
      BY <2>2, <1>1
    <3>2. CheckOK(p)'
      BY <3>1 DEF OrderInv, CheckOK, Target
    <3>3. CreateOK(p)'
      BY <3>1, <2>2 DEF OrderInv, CreateOK
    <3> QED
      BY <3>2, <3>3
  <2> QED
    BY <2>1, <2>2
<1> QED
  BY <1>1, <1>3, <1>4

LEMMA MovesStep ==
    ASSUME Inv, NEW q \in Sent,
           NEW stage \in Stages \ {"asked", "checked"}, Moves(q, stage),
           requests[q].kind = "create" => stage # "messaged",
           status = Nothing => stage \in {"refused", "over"},
           UNCHANGED orderVars
    PROVE  OrderInv' /\ UnbornOrder'
<1>1. /\ requests' \in Seq(Write)
      /\ Sent' = Sent
      /\ requests'[q].kind = requests[q].kind
      /\ requests'[q].stage = stage
      /\ \A p \in Sent \ {q} : requests'[p] = requests[p]
      /\ (\A p \in Sent : CreateOK(p) /\ CheckOK(p))'
  BY RequestMoves DEF Inv, orderVars
<1>2. OrderTypeOK' /\ WithinOrder' /\ StatusMatchesLines'
  BY <1>1 DEF Inv, OrderInv, OrderTypeOK, WithinOrder, StatusMatchesLines,
     orderVars, AllIn, SomeIn
<1>3. UnbornOrder'
  BY <1>1 DEF Inv, UnbornOrder, orderVars
<1> QED
  BY <1>1, <1>2, <1>3 DEF OrderInv

LEMMA RefusesStep ==
    ASSUME Inv, NEW q \in Sent, Refuses(q)
    PROVE  Inv'
<1>1. OrderInv' /\ UnbornOrder'
  BY MovesStep DEF Refuses, Stages
<1>2. PageInv'
  BY PageStays DEF Inv, Refuses, orderVars
<1> QED
  BY <1>1, <1>2 DEF Inv

LEMMA BornOrder ==
    ASSUME Inv, NEW q \in Sent,
           \/ requests[q].kind # "create"
           \/ requests[q].stage \in {"row", "messaged", "checked", "done"}
    PROVE  status # Nothing
BY DEF Inv, UnbornOrder

LEMMA CreateRowStep ==
    ASSUME Inv, NEW q \in Sent, CreateRow(q)
    PROVE  Inv'
<1>1. status = Nothing
  BY DEF Inv, OrderInv, CreateOK, CreateRow, At
<1>2. /\ requests' \in Seq(Write)
      /\ (\A p \in Sent : CreateOK(p) /\ CheckOK(p))'
  BY RequestMoves DEF Inv, CreateRow, At, Stages
<1>3. OrderTypeOK'
  BY <1>2 DEF Inv, OrderInv, OrderTypeOK, CreateRow, Statuses
<1>4. WithinOrder' /\ StatusMatchesLines'
  BY <1>1 DEF Inv, OrderInv, UnbornOrder, WithinOrder, StatusMatchesLines,
     CreateRow, SomeIn, NoQuantities
<1>5. UnbornOrder'
  BY PurchasingAssumption DEF UnbornOrder, CreateRow, Statuses
<1>6. PageInv'
  BY <1>1, PageStays DEF Inv, CreateRow
<1> QED
  BY <1>2, <1>3, <1>4, <1>5, <1>6 DEF Inv, OrderInv

LEMMA CreateLinesStep ==
    ASSUME Inv, NEW q \in Sent, CreateLines(q)
    PROVE  Inv'
<1>1. status # Nothing
  BY BornOrder DEF CreateLines, At
<1>2. /\ requests' \in Seq(Write)
      /\ (\A p \in Sent : CreateOK(p) /\ CheckOK(p))'
  BY RequestMoves DEF Inv, CreateLines, At, Stages
<1>3. OrderTypeOK'
  BY <1>2 DEF Inv, OrderInv, OrderTypeOK, CreateLines
<1>4. WithinOrder' /\ StatusMatchesLines'
  BY DEF Inv, OrderInv, WithinOrder, StatusMatchesLines, CreateLines, AllIn,
     SomeIn
<1>5. UnbornOrder'
  BY <1>1 DEF UnbornOrder, CreateLines
<1>6. PageInv'
  BY PageStays DEF Inv, CreateLines
<1> QED
  BY <1>2, <1>3, <1>4, <1>5, <1>6 DEF Inv, OrderInv

LEMMA SendChecksStep ==
    ASSUME Inv, NEW q \in Sent, SendChecks(q)
    PROVE  Inv'
<1>1. CASE Refuses(q)
  BY <1>1, RefusesStep
<1>2. CASE Moves(q, "messaged") /\ UNCHANGED <<orderVars, pageVars>>
  <2>1. status # Nothing /\ requests[q].kind # "create"
    BY BornOrder DEF SendChecks, At
  <2>2. OrderInv' /\ UnbornOrder'
    BY <1>2, <2>1, MovesStep DEF Stages
  <2>3. PageInv'
    BY <1>2, PageStays DEF Inv, orderVars
  <2> QED
    BY <2>2, <2>3 DEF Inv
<1> QED
  BY <1>1, <1>2 DEF SendChecks

LEMMA UpdateChecksStep ==
    ASSUME Inv, NEW q \in Sent, UpdateChecks(q)
    PROVE  Inv'
<1>1. CASE Refuses(q)
  BY <1>1, RefusesStep
<1>2. CASE ~Refuses(q)
  <2> DEFINE w == [requests[q] EXCEPT !.stage = "checked", !.seen = status]
  <2>1. /\ requests' = [requests EXCEPT ![q] = w]
        /\ Allowed(status, Target(q))
        /\ UNCHANGED <<orderVars, pageVars>>
        /\ requests[q].kind \in {"send", "mark", "cancel"}
    BY <1>2 DEF UpdateChecks, At
  <2>2. requests[q] \in Write /\ requests \in Seq(Write)
    BY DEF Inv, OrderInv, OrderTypeOK, Sent
  <2>3. status \in Statuses
    BY <2>1 DEF Allowed, Statuses
  <2>4. /\ w \in Write
        /\ w.kind = requests[q].kind /\ w.seen = status
    BY <2>2, <2>3 DEF Write, Stages
  <2> HIDE DEF w
  <2>5. /\ requests' \in Seq(Write)
        /\ Sent' = Sent
        /\ requests'[q] = w
        /\ \A p \in Sent \ {q} : requests'[p] = requests[p]
    BY <2>1, <2>2, <2>4, Replaced
  <2>6. ASSUME NEW p \in Sent PROVE (CreateOK(p) /\ CheckOK(p))'
    <3>1. CASE p = q
      BY <3>1, <2>1, <2>4, <2>5 DEF CreateOK, CheckOK, Target, Allowed
    <3>2. CASE p # q
      <4>1. requests'[p] = requests[p]
        BY <3>2, <2>5
      <4> QED
        BY <4>1, <2>1
           DEF Inv, OrderInv, CreateOK, CheckOK, Target, orderVars
    <3> QED
      BY <3>1, <3>2
  <2>7. OrderTypeOK' /\ WithinOrder' /\ StatusMatchesLines'
    BY <2>1, <2>5 DEF Inv, OrderInv, OrderTypeOK, WithinOrder,
       StatusMatchesLines, orderVars, AllIn, SomeIn
  <2>8. UnbornOrder'
    BY <2>1, <2>3, PurchasingAssumption DEF UnbornOrder, orderVars
  <2>9. PageInv'
    BY <2>1, PageStays DEF Inv, orderVars
  <2> QED
    BY <2>5, <2>6, <2>7, <2>8, <2>9 DEF Inv, OrderInv
<1> QED
  BY <1>1, <1>2

LEMMA UpdateWritesStep ==
    ASSUME Inv, NEW q \in Sent, UpdateWrites(q)
    PROVE  Inv'
<1>1. status # Nothing
  BY BornOrder DEF UpdateWrites
<1>2. /\ Target(q) \in {"SENT", "CANCELLED"}
      /\ requests[q].seen \in {"DRAFT", "SENT"}
  BY DEF Inv, OrderInv, CheckOK, UpdateWrites, Target, Allowed
<1>3. /\ requests' \in Seq(Write)
      /\ (\A p \in Sent : CreateOK(p) /\ CheckOK(p))'
  BY <1>1, RequestMoves DEF Inv, UpdateWrites, Stages
<1>4. OrderTypeOK'
  BY <1>2, <1>3 DEF Inv, OrderInv, OrderTypeOK, UpdateWrites, Statuses
<1>5. WithinOrder'
  BY DEF Inv, OrderInv, WithinOrder, UpdateWrites
<1>6. StatusMatchesLines'
  BY <1>2 DEF Inv, OrderInv, StatusMatchesLines, UpdateWrites, AllIn, SomeIn
<1>7. UnbornOrder'
  BY <1>2, PurchasingAssumption DEF UnbornOrder, UpdateWrites, Statuses
<1>8. PageInv'
  <2>1. status' # Nothing
    BY <1>2, PurchasingAssumption DEF UpdateWrites, Statuses
  <2> QED
    BY <2>1, PageStays DEF Inv, UpdateWrites
<1> QED
  BY <1>3, <1>4, <1>5, <1>6, <1>7, <1>8 DEF Inv, OrderInv

LEMMA ReceiveStep ==
    ASSUME Inv, NEW q \in Sent, Receive(q)
    PROVE  Inv'
<1>1. CASE Refuses(q)
  BY <1>1, RefusesStep
<1>2. CASE ~Refuses(q)
  <2> DEFINE takes == requests[q].takes
             more == [l \in Line |-> got[l] + takes[l]]
  <2>1. /\ Receivable(status) /\ \A l \in Line : Fits(takes, l)
        /\ got' = more
        /\ stock' = [l \in Line |-> stock[l] + takes[l]]
        /\ status' = NewStatus(more)
        /\ Moves(q, "done")
        /\ UNCHANGED <<lined, crossed, pageVars>>
        /\ requests[q].kind = "receive"
    BY <1>2 DEF Receive, At
  <2>2. status # Nothing
    BY <2>1, BornOrder
  <2>3. takes \in Quantities /\ got \in Quantities /\ stock \in Quantities
    <3>1. requests[q] \in Write
      BY DEF Inv, OrderInv, OrderTypeOK, Sent
    <3> QED
      BY <3>1 DEF Inv, OrderInv, OrderTypeOK, Write
  <2>4. \A l \in Line : /\ more[l] \in Nat
                        /\ more[l] >= got[l]
                        /\ more[l] <= Ordered[l]
    BY <2>1, <2>3, PurchasingAssumption DEF Fits, Quantities
  <2>5. more \in Quantities /\ stock' \in Quantities
    BY <2>1, <2>3 DEF Quantities
  <2> HIDE DEF more, takes
  <2>6. status' \in Statuses
    BY <2>1, <2>2 DEF Inv, OrderInv, OrderTypeOK, NewStatus, Statuses
  <2>7. /\ requests' \in Seq(Write)
        /\ (\A p \in Sent : CreateOK(p) /\ CheckOK(p))'
    BY <2>1, <2>2, RequestMoves DEF Inv, Stages
  <2>8. OrderTypeOK'
    BY <2>1, <2>5, <2>6, <2>7 DEF Inv, OrderInv, OrderTypeOK
  <2>9. WithinOrder'
    BY <2>1, <2>4 DEF WithinOrder
  <2>10. StatusMatchesLines'
    <3>1. SomeIn(got) => SomeIn(more)
      BY <2>3, <2>4 DEF SomeIn, Quantities
    <3>2. status # "RECEIVED" /\ status # "CANCELLED"
      BY <2>1 DEF Receivable
    <3>3. CASE AllIn(more)
      BY <3>3, <2>1 DEF NewStatus, StatusMatchesLines, AllIn
    <3>4. CASE ~AllIn(more) /\ SomeIn(more)
      BY <3>4, <2>1 DEF NewStatus, StatusMatchesLines, AllIn, SomeIn
    <3>5. CASE ~AllIn(more) /\ ~SomeIn(more)
      BY <3>1, <3>2, <3>5, <2>1
         DEF NewStatus, Inv, OrderInv, StatusMatchesLines, AllIn, SomeIn
    <3> QED
      BY <3>3, <3>4, <3>5
  <2>11. UnbornOrder'
    BY <2>6, PurchasingAssumption DEF UnbornOrder
  <2>12. PageInv'
    <3>1. status' # Nothing
      BY <2>6, PurchasingAssumption
    <3> QED
      BY <2>1, <3>1, PageStays DEF Inv
  <2> QED
    BY <2>7, <2>8, <2>9, <2>10, <2>11, <2>12 DEF Inv, OrderInv
<1> QED
  BY <1>1, <1>2

LEMMA ServeStep ==
    ASSUME Inv, NEW q \in Sent, Serve(q)
    PROVE  Inv'
<1>1. CASE Crashes(q)
  BY <1>1, RefusesStep DEF Crashes
<1> QED
  BY <1>1, CreateRowStep, CreateLinesStep, SendChecksStep, UpdateChecksStep,
     UpdateWritesStep, ReceiveStep DEF Serve

----------------------------------------------------------------------------
(* Answers. *)

LEMMA AnsweredStep ==
    ASSUME Inv, NEW q \in Sent, Answered(q)
    PROVE  Inv'
<1> DEFINE c == requests[q].by
<1>1. requests[q].kind # "create" /\ status # Nothing
  BY BornOrder DEF Answered
<1>2. OrderInv' /\ UnbornOrder'
  BY <1>1, MovesStep DEF Answered, Stages
<1>3. /\ asking' \subseteq Clerk
      /\ coming' \in [Clerk -> Answer \cup {Nothing}]
  BY DEF Inv, PageInv, PageTypeOK, Answered, Invalidates
<1>4. /\ receiving' \subseteq receiving
      /\ entries' \in [Clerk -> Quantities]
      /\ \A d \in receiving' : entries'[d] = entries[d]
  <2>1. CASE UNCHANGED <<receiving, entries>>
    BY <2>1 DEF Inv, PageInv, PageTypeOK
  <2>2. CASE ~UNCHANGED <<receiving, entries>>
    <3>1. /\ c \in receiving /\ receiving' = receiving \ {c}
          /\ Untyped(c)
      BY <2>2 DEF Answered
    <3>2. c \in Clerk /\ receiving \subseteq Clerk
      BY <3>1 DEF Inv, PageInv, PageTypeOK
    <3>3. /\ entries' \in [Clerk -> Quantities]
          /\ \A d \in Clerk \ {c} : entries'[d] = entries[d]
      BY <3>1, <3>2, UntypedType DEF Inv, PageInv, PageTypeOK
    <3> QED
      BY <3>1, <3>2, <3>3
  <2> QED
    BY <2>1, <2>2
<1>5. UNCHANGED <<status, on, shown, reads>>
  BY DEF Answered, orderVars
<1>6. PageTypeOK'
  BY <1>3, <1>4, <1>5 DEF Inv, PageInv, PageTypeOK
<1>7. UnbornPages' /\ DialogOnAnswer' /\ EntriesFit'
  BY <1>1, <1>4, <1>5
     DEF Inv, PageInv, UnbornPages, DialogOnAnswer, EntriesFit, Remaining
<1> QED
  BY <1>2, <1>6, <1>7 DEF Inv, PageInv

LEMMA CreatedStep ==
    ASSUME Inv, NEW q \in Sent, Created(q)
    PROVE  Inv'
<1>1. status # Nothing /\ requests[q].by \in Clerk
  BY BornOrder DEF Created, Inv, OrderInv, CreateOK
<1>2. OrderInv' /\ UnbornOrder'
  BY <1>1, MovesStep DEF Created, Stages
<1>3. PageInv'
  BY <1>1 DEF Inv, Created, PageInv, PageTypeOK, UnbornPages,
     DialogOnAnswer, EntriesFit, Remaining, orderVars
<1> QED
  BY <1>2, <1>3 DEF Inv

LEMMA AnswerFailsStep ==
    ASSUME Inv, NEW q \in Sent, AnswerFails(q)
    PROVE  Inv'
<1>1. OrderInv' /\ UnbornOrder'
  BY MovesStep DEF AnswerFails, Stages
<1>2. PageInv'
  BY PageStays DEF Inv, AnswerFails, orderVars
<1> QED
  BY <1>1, <1>2 DEF Inv

----------------------------------------------------------------------------
(* The theorems. *)

LEMMA InitInv == Init => Inv
<1> SUFFICES ASSUME Init PROVE Inv
  OBVIOUS
<1>1. OrderTypeOK
  <2>1. requests \in Seq(Write)
    BY DEF Init
  <2>2. lined \in BOOLEAN
    BY DEF Init
  <2> QED
    BY <2>1, <2>2, NoQuantitiesType DEF Init, OrderTypeOK, Statuses
<1>2. PageTypeOK
  BY NoQuantitiesType, PurchasingAssumption DEF Init, PageTypeOK
<1>3. Sent = {}
  BY DEF Init, Sent
<1>4. WithinOrder /\ StatusMatchesLines
  BY PurchasingAssumption
     DEF Init, WithinOrder, StatusMatchesLines, NoQuantities, SomeIn,
         Statuses
<1> QED
  BY <1>1, <1>2, <1>3, <1>4
     DEF Init, Inv, OrderInv, UnbornOrder, PageInv, UnbornPages,
         DialogOnAnswer, EntriesFit

LEMMA StutterInv == Inv /\ UNCHANGED vars => Inv'
BY OrderStays, PageStays DEF Inv, vars, orderVars

LEMMA NextInv == Inv /\ [Next]_vars => Inv'
<1> SUFFICES ASSUME Inv, [Next]_vars PROVE Inv'
  OBVIOUS
<1>1. ASSUME NEW c \in Clerk, PageStep(c) \/ Send(c) PROVE Inv'
  BY <1>1, PageStepStep, SendStep
<1>2. ASSUME NEW kind \in Kinds \ {"create"}, NEW takes \in Deliveries,
             OthersSend(kind, takes)
      PROVE  Inv'
  BY <1>2, OthersStep
<1>3. ASSUME NEW q \in Sent, Serve(q) PROVE Inv'
  BY <1>3, ServeStep
<1>4. ASSUME NEW q \in Sent, Answered(q) \/ Created(q) \/ AnswerFails(q)
      PROVE  Inv'
  BY <1>4, AnsweredStep, CreatedStep, AnswerFailsStep
<1>5. CASE UNCHANGED vars
  BY <1>5, StutterInv
<1> QED
  BY <1>1, <1>2, <1>3, <1>4, <1>5 DEF Next

LEMMA InvHolds == Spec => []Inv
BY InitInv, NextInv, PTL DEF Spec

(* Every variable keeps its type: no request or page makes a quantity      *)
(* negative, whatever is typed and however old the page.                   *)
THEOREM PurchasingType == Spec => []TypeOK
<1>1. Inv => TypeOK
  BY TypeParts DEF Inv, OrderInv, PageInv
<1> QED
  BY InvHolds, <1>1, PTL

(* update_po_status and receive_po_lines: the status of an order agrees    *)
(* with its lines unless a check and its write were crossed.               *)
THEOREM StatusRight == Spec => []StatusMatchesLines
<1>1. Inv => StatusMatchesLines
  BY DEF Inv, OrderInv
<1> QED
  BY InvHolds, <1>1, PTL

(* GoodsReceivingModal: what is typed fits what the page says remains.     *)
THEOREM EntriesRight == Spec => []EntriesFit
<1>1. Inv => EntriesFit
  BY DEF Inv, PageInv
<1> QED
  BY InvHolds, <1>1, PTL

----------------------------------------------------------------------------
(* Steps of the order: only Receive changes the stock, and it refuses a    *)
(* cancelled order.                                                        *)

LEMMA OrderSteps ==
    ASSUME [Next]_vars
    PROVE  \/ UNCHANGED orderVars
           \/ \E q \in Sent :
                \/ CreateRow(q) \/ CreateLines(q) \/ UpdateWrites(q)
                \/ (Receive(q) /\ ~Refuses(q))
<1>1. ASSUME NEW c \in Clerk, PageStep(c) PROVE UNCHANGED orderVars
  BY <1>1 DEF PageStep, Visit, Leave, Refetch, ServerReads, Lands, Landed,
     FetchFails, OpenDialog, CloseDialog, UpdateQty
<1>2. ASSUME NEW c \in Clerk, Send(c) PROVE UNCHANGED orderVars
  BY <1>2 DEF Send, SubmitOrder, SendViaWhatsApp, ConfirmCancel,
     ConfirmReceipt, Sends, Posts
<1>3. ASSUME NEW kind, NEW takes, OthersSend(kind, takes)
      PROVE  UNCHANGED orderVars
  BY <1>3 DEF OthersSend, Posts
<1>4. ASSUME NEW q \in Sent, Answered(q) \/ Created(q) \/ AnswerFails(q)
      PROVE  UNCHANGED orderVars
  BY <1>4 DEF Answered, Created, AnswerFails
<1>5. ASSUME NEW q \in Sent, Serve(q)
      PROVE  \/ UNCHANGED orderVars
             \/ CreateRow(q) \/ CreateLines(q) \/ UpdateWrites(q)
             \/ (Receive(q) /\ ~Refuses(q))
  BY <1>5 DEF Serve, Crashes, SendChecks, UpdateChecks, Refuses
<1>6. CASE UNCHANGED vars
  BY <1>6 DEF vars
<1> QED
  BY <1>1, <1>2, <1>3, <1>4, <1>5, <1>6 DEF Next

(* A cancelled order takes no goods and stays cancelled, unless a send     *)
(* that checked it before writes over it.                                  *)
THEOREM CancelledStays == Spec => CancelledIsFinal
<1>1. ASSUME Inv, [Next]_vars, status = "CANCELLED"
      PROVE  stock' = stock /\ (status' = "CANCELLED" \/ crossed')
  <2>1. CASE UNCHANGED orderVars
    BY <2>1, <1>1 DEF orderVars
  <2>2. ASSUME NEW q \in Sent, CreateRow(q)
        PROVE  FALSE
    BY <2>2, <1>1, PurchasingAssumption
       DEF Inv, OrderInv, CreateOK, CreateRow, At, Statuses
  <2>3. ASSUME NEW q \in Sent, CreateLines(q)
        PROVE  stock' = stock /\ status' = status
    BY <2>3 DEF CreateLines
  <2>4. ASSUME NEW q \in Sent, UpdateWrites(q)
        PROVE  stock' = stock /\ (status' = "CANCELLED" \/ crossed')
    BY <2>4, <1>1 DEF UpdateWrites, Inv, OrderInv, CheckOK, Allowed
  <2>5. ASSUME NEW q \in Sent, Receive(q), ~Refuses(q)
        PROVE  FALSE
    BY <2>5, <1>1 DEF Receive, Receivable
  <2> QED
    BY <2>1, <2>2, <2>3, <2>4, <2>5, <1>1, OrderSteps
<1>2. Inv /\ [Next]_vars =>
        [status = "CANCELLED" =>
           stock' = stock /\ (status' = "CANCELLED" \/ crossed')]_vars
  BY <1>1
<1> QED
  BY InvHolds, <1>2, PTL DEF Spec, CancelledIsFinal

(* receive_po_lines implements Inbound: receipts are whole, all lines in   *)
(* one step, and within what is due.                                       *)
THEOREM ReceiptsAreWhole == Spec => InboundSpec
<1>1. Init => InboundOf!Init
  BY PurchasingAssumption
     DEF Init, InboundOf!Init, Due, NoQuantities
<1>2. ASSUME Inv, [Next]_vars
      PROVE  [InboundOf!Receipt]_<<Due, stock>>
  <2>1. CASE UNCHANGED <<got, stock>>
    BY <2>1 DEF Due
  <2>2. ASSUME NEW q \in Sent, Receive(q), ~Refuses(q)
        PROVE  InboundOf!Receipt
    <3> DEFINE takes == requests[q].takes
    <3>1. /\ \A l \in Line : Fits(takes, l)
          /\ got' = [l \in Line |-> got[l] + takes[l]]
          /\ stock' = [l \in Line |-> stock[l] + takes[l]]
      BY <2>2 DEF Receive
    <3>2. takes \in Quantities /\ got \in Quantities
          /\ stock \in Quantities
      <4>1. requests[q] \in Write
        BY <1>2 DEF Inv, OrderInv, OrderTypeOK, Sent
      <4> QED
        BY <4>1, <1>2 DEF Inv, OrderInv, OrderTypeOK, Write
    <3> HIDE DEF takes
    <3>3. ASSUME NEW l \in Line
          PROVE  /\ Due'[l] \in Nat /\ Due'[l] <= Due[l]
                 /\ stock'[l] = stock[l] + (Due[l] - Due'[l])
      BY <3>1, <3>2, PurchasingAssumption DEF Due, Fits, Quantities
    <3>4. Due' \in [Line -> Nat]
      BY <3>3 DEF Due
    <3>5. stock' = [l \in Line |-> stock[l] + (Due[l] - Due'[l])]
      BY <3>1, <3>3
    <3> QED
      BY <3>3, <3>4, <3>5 DEF InboundOf!Receipt
  <2> QED
    BY <2>1, <2>2, <1>2, OrderSteps
       DEF orderVars, CreateRow, CreateLines, UpdateWrites
<1> QED
  BY InvHolds, <1>1, <1>2, PTL
     DEF Spec, InboundSpec, InboundOf!Spec, InboundOf!vars
=============================================================================
