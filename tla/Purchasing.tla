----------------------------- MODULE Purchasing -----------------------------
(***************************************************************************)
(* One purchase order: the clerks' pages, the requests they send, and the  *)
(* service that creates, sends, cancels and receives it.                   *)
(*                                                                         *)
(* Creating commits the order and then its lines.  A status is read by one *)
(* statement and written by another, without a lock.  A receipt is one     *)
(* transaction that locks the order.  The pages work on the answer they    *)
(* have, which may be as old as their cache.  Besides these clerks, other  *)
(* clients send any request the service lets through its serializers.      *)
(* Prices are left out.                                                    *)
(***************************************************************************)
EXTENDS Integers, Sequences

CONSTANTS
    Clerk,
    Line,           \* the lines of the order, of a variant each
    Ordered,        \* how much of each was ordered
    MaxRequests,    \* bound: the writes that are sent
    MaxReads,       \* bound: the answers the server gives
    MaxTake,        \* bound: the quantity others send for a line
    Nothing         \* no answer, no order

VARIABLES
    status,         \* PurchaseOrder.status, Nothing before it exists
    lined,          \* its lines exist
    got,            \* received_qty of each line
    stock,          \* what receipts added to the stock of its variant
    crossed,        \* a status was written over another than was checked
    requests,       \* each write: its stage, and what it carries
    on,             \* the clerks whose browser is on the order's page
    shown,          \* the answer each clerk's page has, or Nothing
    asking,         \* the clerks whose read is on its way to the server
    coming,         \* the answer on its way back, or Nothing
    reads,          \* answers given, for the bound
    receiving,      \* the clerks whose receiving dialog is open
    entries         \* this_qty of each line in the dialog

orderVars == <<status, lined, got, stock, crossed>>
pageVars == <<on, shown, asking, coming, reads, receiving,
              entries>>
vars == <<orderVars, requests, pageVars>>

Statuses == {"DRAFT", "SENT", "PARTIALLY_RECEIVED", "RECEIVED", "CANCELLED"}
Stages == {"asked", "row", "messaged", "checked", "done", "refused",
           "over"}
Kinds == {"create", "send", "mark", "cancel", "receive"}
NoQuantities == [l \in Line |-> 0]
Quantities == [Line -> Nat]
Answer == [status : Statuses, lined : BOOLEAN, got : Quantities]
Write == [stage : Stages, kind : Kinds, by : Clerk \cup {Nothing},
          here : BOOLEAN, seen : Statuses, takes : Quantities]

ASSUME PurchasingAssumption ==
    /\ Ordered \in [Line -> Nat \ {0}]
    /\ MaxRequests \in Nat /\ MaxReads \in Nat /\ MaxTake \in Nat
    /\ Nothing \notin Clerk \cup Statuses \cup Answer

TypeOK ==
    /\ status \in Statuses \cup {Nothing}
    /\ lined \in BOOLEAN /\ crossed \in BOOLEAN
    /\ got \in Quantities /\ stock \in Quantities
    /\ requests \in Seq(Write)
    /\ on \subseteq Clerk /\ receiving \subseteq on
    /\ shown \in [Clerk -> Answer \cup {Nothing}]
    /\ asking \subseteq Clerk /\ reads \in 0..MaxReads
    /\ coming \in [Clerk -> Answer \cup {Nothing}]
    /\ entries \in [Clerk -> Quantities]

Init ==
    /\ status \in {Nothing, "DRAFT", "SENT"} /\ lined = (status # Nothing)
    /\ crossed = FALSE
    /\ got = NoQuantities /\ stock = NoQuantities
    /\ requests = <<>>
    /\ on = {} /\ receiving = {}
    /\ shown = [c \in Clerk |-> Nothing]
    /\ reads = 0 /\ asking = {} /\ coming = [c \in Clerk |-> Nothing]
    /\ entries = [c \in Clerk |-> NoQuantities]

(***************************************************************************)
(* The page: its answer, and the dialog.                                   *)
(***************************************************************************)
Shows(c, S) == c \in on /\ shown[c] # Nothing /\ shown[c].status \in S
Remaining(c, l) == Ordered[l] - shown[c].got[l]

(* The dialog forgets what was typed when it opens or closes, and when the *)
(* lines of the answer change.                                             *)
Untyped(c) == entries' = [entries EXCEPT ![c] = NoQuantities]

Visit(c) ==
    /\ c \notin on /\ status # Nothing
    /\ on' = on \cup {c}
    /\ \/ shown[c] # Nothing /\ UNCHANGED asking
       \/ asking' = asking \cup {c}
    /\ UNCHANGED <<orderVars, requests, shown, coming, reads, receiving,
                   entries>>

(* Leaving drops the dialog and the buttons' memory of what is under way;  *)
(* the cached answer and the requests stay.                                *)
Forgotten(r, c) == IF r.by = c THEN [r EXCEPT !.here = FALSE] ELSE r
Leave(c) ==
    /\ c \in on
    /\ on' = on \ {c}
    /\ receiving' = receiving \ {c}
    /\ Untyped(c)
    /\ requests' =
        [q \in DOMAIN requests |-> Forgotten(requests[q], c)]
    /\ UNCHANGED <<orderVars, shown, asking, coming, reads>>

(* The answer is old, or the window got the focus.  A read that brings the *)
(* same answer changes nothing and is left out.                            *)
Current == [status |-> status, lined |-> lined, got |-> got]
Refetch(c) ==
    /\ c \in on /\ c \notin asking /\ coming[c] = Nothing
    /\ shown[c] # Current
    /\ asking' = asking \cup {c}
    /\ UNCHANGED <<orderVars, requests, on, shown, coming, reads, receiving,
                   entries>>

ServerReads(c) ==
    /\ c \in asking /\ reads < MaxReads
    /\ reads' = reads + 1
    /\ asking' = asking \ {c}
    /\ coming' = [coming EXCEPT ![c] = Current]
    /\ UNCHANGED <<orderVars, requests, on, shown, receiving, entries>>

Landed(c) ==
    /\ coming[c] # Nothing
    /\ shown' = [shown EXCEPT ![c] = coming[c]]
    /\ coming' = [coming EXCEPT ![c] = Nothing]
    /\ UNCHANGED <<orderVars, requests, on, asking, reads, receiving>>
Lands_KeepsTyped(c) ==  \* mutant: the effect does not depend on the lines
    /\ Landed(c)
    /\ UNCHANGED entries
Lands(c) ==
    /\ Landed(c)
    /\ IF /\ shown[c] # Nothing
          /\ shown[c].lined = coming[c].lined
          /\ shown[c].got = coming[c].got
       THEN UNCHANGED entries
       ELSE Untyped(c)

FetchFails(c) ==
    /\ c \in asking \/ coming[c] # Nothing
    /\ asking' = asking \ {c}
    /\ coming' = [coming EXCEPT ![c] = Nothing]
    /\ UNCHANGED <<orderVars, requests, on, shown, reads, receiving,
                   entries>>

OpenDialog(c) ==
    /\ Shows(c, {"SENT", "PARTIALLY_RECEIVED"}) /\ c \notin receiving
    /\ receiving' = receiving \cup {c}
    /\ Untyped(c)
    /\ UNCHANGED <<orderVars, requests, on, shown, asking, coming, reads>>

CloseDialog(c) ==
    /\ c \in receiving
    /\ receiving' = receiving \ {c}
    /\ Untyped(c)
    /\ UNCHANGED <<orderVars, requests, on, shown, asking, coming, reads>>

(* The stepper and the box change a quantity by a delta, then clamp it; a  *)
(* line that is fully received is not offered.                             *)
Larger(a, b) == IF a > b THEN a ELSE b
Smaller(a, b) == IF a < b THEN a ELSE b
Clamp_Above(n, most) == Smaller(most, n)  \* mutant: no lower limit
Clamp(n, most) == Smaller(most, Larger(0, n))

UpdateQty(c, l, delta) ==
    /\ c \in receiving /\ shown[c].lined /\ Remaining(c, l) > 0
    /\ entries' = [entries EXCEPT ![c][l] =
                      Clamp(entries[c][l] + delta, Remaining(c, l))]
    /\ UNCHANGED <<orderVars, requests, on, shown, asking, coming, reads,
                   receiving>>

(***************************************************************************)
(* Requests.  A button is disabled while its own mutation is pending; a    *)
(* page that was left and visited again has forgotten it.                  *)
(***************************************************************************)
Sent == DOMAIN requests
Idle(c, kind) ==
    ~\E q \in Sent : /\ requests[q].by = c /\ requests[q].kind = kind
                     /\ requests[q].here /\ requests[q].stage # "over"

Posts(c, kind, takes) ==
    /\ Len(requests) < MaxRequests
    /\ requests' = Append(requests,
                     [stage |-> "asked", kind |-> kind, by |-> c,
                      here |-> c \in on, seen |-> "DRAFT", takes |-> takes])
    /\ UNCHANGED <<orderVars, pageVars>>
Sends(c, kind, takes) == Idle(c, kind) /\ Posts(c, kind, takes)

SubmitOrder(c) ==
    /\ status = Nothing
    /\ requests = <<>>
    /\ Sends(c, "create", NoQuantities)

SendViaWhatsApp(c) ==
    Shows(c, {"DRAFT"}) /\ Sends(c, "send", NoQuantities)

ConfirmCancel(c) ==
    /\ Shows(c, {"DRAFT", "SENT", "PARTIALLY_RECEIVED"})
    /\ Sends(c, "cancel", NoQuantities)

ConfirmReceipt(c) ==
    /\ c \in receiving /\ entries[c] # NoQuantities
    /\ Sends(c, "receive", entries[c])

(* Another browser, or a script, which may also mark the order as sent.    *)
(* The serializer wants each quantity to be positive; a line that is not   *)
(* taken is not in the request.                                            *)
OthersSend(kind, takes) ==
    /\ status # Nothing
    /\ takes # NoQuantities <=> kind = "receive"
    /\ Posts(Nothing, kind, takes)

(***************************************************************************)
(* The service.                                                            *)
(***************************************************************************)
At(q, kind, stage) == requests[q].kind = kind /\ requests[q].stage = stage
Moves(q, stage) == requests' = [requests EXCEPT ![q].stage = stage]

(* create_po has no transaction around its two inserts. *)
CreateRow(q) ==
    /\ At(q, "create", "asked")
    /\ status' = "DRAFT"
    /\ Moves(q, "row")
    /\ UNCHANGED <<lined, got, stock, crossed, pageVars>>

CreateLines(q) ==
    /\ At(q, "create", "row")
    /\ lined' = TRUE
    /\ Moves(q, "done")
    /\ UNCHANGED <<status, got, stock, crossed, pageVars>>

Refuses(q) ==
    /\ Moves(q, "refused")
    /\ UNCHANGED <<orderVars, pageVars>>

(* The process ends between two statements, or an insert fails. *)
Crashes(q) ==
    /\ requests[q].stage \in {"asked", "row", "messaged", "checked"}
    /\ Refuses(q)

(* send-whatsapp looks at the status before it sends the message, which    *)
(* takes its time, and update_po_status looks again afterwards.            *)
SendChecks(q) ==
    /\ At(q, "send", "asked")
    /\ IF status = "DRAFT"
       THEN Moves(q, "messaged") /\ UNCHANGED <<orderVars, pageVars>>
       ELSE Refuses(q)

Target(q) == IF requests[q].kind = "cancel" THEN "CANCELLED" ELSE "SENT"
Allowed(from, to) ==
    \/ from = "DRAFT" /\ to \in {"SENT", "CANCELLED"}
    \/ from = "SENT" /\ to = "CANCELLED"

UpdateChecks(q) ==
    /\ \/ At(q, "send", "messaged")
       \/ At(q, "mark", "asked") \/ At(q, "cancel", "asked")
    /\ IF Allowed(status, Target(q))
       THEN /\ requests' = [requests EXCEPT ![q] =
                              [@ EXCEPT !.stage = "checked", !.seen = status]]
            /\ UNCHANGED <<orderVars, pageVars>>
       ELSE Refuses(q)

UpdateWrites(q) ==
    /\ requests[q].stage = "checked"
    /\ crossed' = (crossed \/ status # requests[q].seen)
    /\ status' = Target(q)
    /\ Moves(q, "done")
    /\ UNCHANGED <<lined, got, stock, pageVars>>

Receivable_Unless_Received(s) ==  \* mutant: only RECEIVED is refused
    s # "RECEIVED"
Receivable(s) == s \notin {"CANCELLED", "RECEIVED"}

Fits_Ordered(takes, l) ==  \* mutant: compared with all that was ordered
    takes[l] <= Ordered[l]
Fits(takes, l) == takes[l] <= Ordered[l] - got[l]

AllIn(g) == \A l \in Line : g[l] >= Ordered[l]
SomeIn(g) == \E l \in Line : g[l] > 0
NewStatus_AnyLine(g) ==  \* mutant: one full line is enough
    IF \E l \in Line : g[l] >= Ordered[l] THEN "RECEIVED"
    ELSE IF SomeIn(g) THEN "PARTIALLY_RECEIVED" ELSE status
NewStatus(g) ==
    IF AllIn(g) THEN "RECEIVED"
    ELSE IF SomeIn(g) THEN "PARTIALLY_RECEIVED" ELSE status

Receive(q) ==
    /\ At(q, "receive", "asked")
    /\ LET takes == requests[q].takes
           more == [l \in Line |-> got[l] + takes[l]]
       IN  IF Receivable(status) /\ lined /\ \A l \in Line : Fits(takes, l)
           THEN /\ got' = more
                /\ stock' = [l \in Line |-> stock[l] + takes[l]]
                /\ status' = NewStatus(more)
                /\ Moves(q, "done")
                /\ UNCHANGED <<lined, crossed, pageVars>>
           ELSE Refuses(q)

(***************************************************************************)
(* Answers.  A success invalidates the clerk's answer: a page that shows   *)
(* one asks again at once, dropping a read that is under way.  A receipt   *)
(* also closes the dialog of the page that sent it; a creation takes the   *)
(* clerk to the order's page.                                              *)
(***************************************************************************)
Fetching(c) == c \in asking \/ coming[c] # Nothing
Invalidates(c) ==
    IF c \in on /\ (shown[c] # Nothing \/ ~Fetching(c))
    THEN /\ asking' = asking \cup {c}
         /\ coming' = [coming EXCEPT ![c] = Nothing]
    ELSE UNCHANGED <<asking, coming>>

Answered(q) ==
    LET c == requests[q].by IN
    /\ requests[q].kind # "create" /\ requests[q].stage = "done"
    /\ Moves(q, "over")
    /\ Invalidates(c)
    /\ IF requests[q].kind = "receive" /\ requests[q].here /\ c \in receiving
       THEN receiving' = receiving \ {c} /\ Untyped(c)
       ELSE UNCHANGED <<receiving, entries>>
    /\ UNCHANGED <<orderVars, on, shown, reads>>

Created(q) ==
    LET c == requests[q].by IN
    /\ requests[q].kind = "create" /\ requests[q].stage = "done"
    /\ Moves(q, "over")
    /\ on' = on \cup {c}
    /\ asking' = IF c \in on \/ Fetching(c) THEN asking ELSE asking \cup {c}
    /\ UNCHANGED <<orderVars, shown, coming, reads, receiving,
                   entries>>

(* Refused, or the answer is lost: the clerk sees an error, and the page   *)
(* stays as it is.                                                         *)
AnswerFails(q) ==
    /\ requests[q].stage \in {"refused", "done"}
    /\ Moves(q, "over")
    /\ UNCHANGED <<orderVars, pageVars>>

Deltas == {-1, 1}
Deliveries == [Line -> 0..MaxTake]

PageStep(c) ==
    \/ Visit(c)
    \/ Leave(c)
    \/ Refetch(c)
    \/ ServerReads(c)
    \/ Lands(c)
    \/ FetchFails(c)
    \/ OpenDialog(c)
    \/ CloseDialog(c)
    \/ \E l \in Line, delta \in Deltas : UpdateQty(c, l, delta)

Send(c) ==
    \/ SubmitOrder(c)
    \/ SendViaWhatsApp(c)
    \/ ConfirmCancel(c)
    \/ ConfirmReceipt(c)

Serve(q) ==
    \/ CreateRow(q)
    \/ CreateLines(q)
    \/ Crashes(q)
    \/ SendChecks(q)
    \/ UpdateChecks(q)
    \/ UpdateWrites(q)
    \/ Receive(q)

Next ==
    \/ \E c \in Clerk : PageStep(c) \/ Send(c)
    \/ \E kind \in Kinds \ {"create"} :
         \E takes \in Deliveries : OthersSend(kind, takes)
    \/ \E q \in Sent : Serve(q)
    \/ \E q \in Sent : Answered(q) \/ Created(q) \/ AnswerFails(q)

Spec == Init /\ [][Next]_vars

(***************************************************************************)
(* Properties.                                                             *)
(***************************************************************************)
(* The status agrees with the lines, however receipts, cancellations and   *)
(* sends of several clerks are interleaved, unless one was written over    *)
(* another than it was checked against; RECEIVED is never wrong.           *)
StatusMatchesLines ==
    /\ status = "RECEIVED" => AllIn(got)
    /\ ~crossed =>
         /\ status = "PARTIALLY_RECEIVED" => SomeIn(got) /\ ~AllIn(got)
         /\ status \in {"DRAFT", "SENT", "CANCELLED"} => ~SomeIn(got)

(* What is typed in the dialog fits what the page says remains, also when  *)
(* another clerk's receipt arrives while it is open.                       *)
EntriesFit ==
    \A c \in receiving : \A l \in Line :
        entries[c][l] > 0 => entries[c][l] <= Remaining(c, l)

(* "Once cancelled, no goods can be received": the goods and the status of *)
(* a cancelled order stay as they are, unless a send that checked it       *)
(* before writes its status over it.                                       *)
CancelledIsFinal ==
    [][status = "CANCELLED" =>
         /\ stock' = stock
         /\ status' = "CANCELLED" \/ crossed']_vars

(* Receipts are what Inbound says they are: whole, and within what is due, *)
(* under stale pages, doubled requests and lost answers.                   *)
Due == [l \in Line |-> Ordered[l] - got[l]]
InboundOf == INSTANCE Inbound WITH due <- Due, arrived <- stock
InboundSpec == InboundOf!Spec
=============================================================================
