------------------------------ MODULE Register ------------------------------
(***************************************************************************)
(* The point-of-sale page of the web client: the cart store, discounts and *)
(* the manager's PIN, promotions, payment, hold and retrieve, the exchange *)
(* credit of a return, and the cart snapshot in IndexedDB.                 *)
(*                                                                         *)
(* JavaScript runs one callback at a time: a click, a scan, a timer, the   *)
(* answer of a request, or what follows an await is one step.  What was    *)
(* read before an await is kept in the request record; what a callback     *)
(* reads from the store afterwards is read in its own step.  A dialog      *)
(* covers the page and blocks clicks on it; the barcode scanner listens on *)
(* the window and is never blocked.                                        *)
(*                                                                         *)
(* A variant has the same price everywhere, Price cents; amounts are whole *)
(* cents.  The receipt dialog, which changes no state, is left out.        *)
(***************************************************************************)
EXTENDS Integers, FiniteSets, Sequences, Functions

CONSTANTS
    Items,          \* product variants
    MaxCharges,     \* bound: sale submissions
    Rates,          \* discount percentages a cashier types in
    Return,         \* returns refunded as exchange credit
    Price,          \* of one unit, in cents
    CreditValue,    \* what one exchange credit covers, in cents
    MayOverride,    \* the user is a manager or above
    MaxUnits,       \* bound: units in the cart
    MaxHolds,       \* bound: sales held on the server
    MaxEvals,       \* bound: promotion requests in flight
    MaxVisits,      \* bound: times the page is left or reloaded
    Habits,         \* bound: the sets of facilities one behaviour may use
    None

Facility == {"edit", "line", "discount", "undo", "promotion", "hold", "visit",
             "again", "storage"}

Charge == 1..MaxCharges
LineThreshold == 10
CartThreshold == 5
MaxFailures == 3

ASSUME RegisterAssumption ==
    /\ IsFiniteSet(Items)
    /\ {Price, CreditValue, MaxCharges, MaxUnits, MaxHolds, MaxEvals,
        MaxVisits} \subseteq Nat
    /\ Rates \subseteq 1..100
    /\ MayOverride \in BOOLEAN
    /\ Habits \subseteq SUBSET Facility
    /\ None \notin Return

VARIABLES
    cart,       \* items, discounts and authorising manager of the cart store
    credit,     \* linkedReturnId: the return whose credit is on the cart
    promos,     \* the basket applied_promotions were computed for, or None
    evals,      \* baskets whose promotions are being evaluated
    due,        \* the 300 ms evaluation timer is running
    screen,     \* what covers the page, or "away" when it is not mounted
    submitting, \* isSubmitting
    posts,      \* the sale submissions
    hold,       \* the request of the Hold button
    swap,       \* the hold request of "Hold & Retrieve" and what it restores
    pin,        \* the manager's PIN dialog
    undo,       \* the cart the "Undo" toast would bring back
    stored,     \* the IndexedDB snapshot
    saving,     \* what is being written over it, or None
    restoring,  \* the snapshot a page that just mounted has read
    sales,      \* on the server: the sale of each submission
    held,       \* on the server: the held sales, in order
    visits,     \* how often the page was left or reloaded
    orphaned,   \* an answer was lost, or its page was gone when it came
    uses        \* the facilities this behaviour uses

storeVars == <<cart, credit, promos>>
evalVars == <<evals, due>>
postVars == <<submitting, posts>>
holdVars == <<hold, swap>>
pageVars == <<screen, pin, undo>>
diskVars == <<stored, saving, restoring>>
serverVars == <<sales, held>>
pastVars == <<visits, orphaned, uses>>
vars == <<storeVars, evalVars, postVars, holdVars, pageVars, diskVars,
          serverVars, pastVars>>

(***************************************************************************)
(* The cart store.                                                         *)
(***************************************************************************)
Empty == [i \in Items |-> 0]
NoCart == [qty |-> Empty, line |-> Empty, percent |-> 0, amount |-> 0,
           mgr |-> FALSE]

Basket == [Items -> 0..MaxUnits]
Percent == Rates \cup {0}
Cart == [qty : Basket, line : [Items -> Percent], percent : Percent,
         amount : Nat, mgr : BOOLEAN]
Ticket == [cart : Cart, credit : Return \cup {None},
           promos : Basket \cup {None}]
ASSUME NoneAssumption == None \notin Ticket

IsEmpty(c) == c.qty = Empty
SumOver(f) == FoldFunction(+, 0, f)
Units(c) == SumOver(c.qty)
Subtotal(c) ==
    SumOver([i \in Items |-> (Price * c.qty[i] * (100 - c.line[i])) \div 100])
CartDiscountEffective(c) ==
    IF c.percent > 0 THEN (Subtotal(c) * c.percent) \div 100 ELSE c.amount
Total(c) == Subtotal(c) - CartDiscountEffective(c)

Put(c, i, n) == [c EXCEPT !.qty[i] = n,
                          !.line[i] = IF n = 0 THEN 0 ELSE @]
LineDiscount(c, i, p) == IF c.qty[i] = 0 THEN c ELSE [c EXCEPT !.line[i] = p]
PercentDiscount(c, p) == [c EXCEPT !.percent = p, !.amount = 0]
AmountDiscount(c, a) == [c EXCEPT !.percent = 0, !.amount = a]
AmountFor(c, p) == (Subtotal(c) * p) \div 100
WithManager(c) == [c EXCEPT !.mgr = TRUE]

(* usePersistCartEffect: a mounted page starts to write every change of    *)
(* the cart to IndexedDB, and to delete the snapshot of an empty one.  The *)
(* writes land in their order, after the page is left as well.  One that   *)
(* fails says nothing: it is one that never lands.                         *)
Mounted == screen # "away"
Snapshot(c) == IF IsEmpty(c) THEN NoCart ELSE c
SetCart_NoDelete(c) ==  \* mutant: an empty cart does not delete the snapshot
    /\ cart' = c
    /\ saving' = IF Mounted /\ ~IsEmpty(c) THEN c ELSE saving
    /\ UNCHANGED stored
SetCart(c) ==
    /\ cart' = c
    /\ saving' = IF Mounted THEN Snapshot(c) ELSE saving
    /\ UNCHANGED stored

(* clearCart resets the whole store, replaceCart keeps the promotions. *)
ClearCart_KeepsCredit ==  \* mutant: clearCart forgets linkedReturnId
    /\ SetCart(NoCart)
    /\ promos' = None
    /\ UNCHANGED credit
ClearCart ==
    /\ SetCart(NoCart)
    /\ credit' = None
    /\ promos' = None
ReplaceCart(c) ==
    /\ SetCart(c)
    /\ credit' = None

(***************************************************************************)
(* Requests and dialogs.                                                   *)
(***************************************************************************)
NoPost == [stage |-> "none", ticket |-> None, asked |-> 0, here |-> FALSE]
NoHold == [stage |-> "none", cart |-> NoCart, back |-> NoCart]
NoPin == [stage |-> "none", shown |-> FALSE, item |-> None, rate |-> 0,
          amount |-> 0, fails |-> 0]
NoSale == None

(* Submissions without an answer, and those whose handler has not ended.   *)
InFlight == {n \in Charge : posts[n].stage \in {"sent", "saved", "refused"}}
Unfinished == InFlight \cup {n \in Charge : posts[n].stage = "cleared"}

(* buildBasePayload: of the two forms of a cart discount only the amount   *)
(* is sent.                                                                *)
BasePayload == [cart |-> [cart EXCEPT !.percent = 0], credit |-> credit,
                promos |-> promos]

Hold == [stage : {"none", "sent", "saved", "cleared"}, cart : Cart, back : Cart]

TypeOK ==
    /\ cart \in Cart
    /\ credit \in Return \cup {None}
    /\ promos \in Basket \cup {None}
    /\ evals \subseteq Basket /\ due \in BOOLEAN
    /\ screen \in {"terminal", "charge", "pay", "retrieve", "away"}
    /\ submitting \in BOOLEAN
    /\ posts \in [Charge -> [stage : {"none", "sent", "saved", "refused",
                                      "cleared", "over"},
                             ticket : Ticket \cup {None}, asked : Int,
                             here : BOOLEAN]]
    /\ hold \in Hold /\ swap \in Hold
    /\ pin \in [stage : {"none", "typing", "sent"}, shown : BOOLEAN,
                item : Items \cup {None}, rate : Percent, amount : Nat,
                fails : 0..MaxFailures]
    /\ undo \in Cart \cup {None}
    /\ stored \in Cart /\ {saving, restoring} \subseteq Cart \cup {None}
    /\ sales \in [Charge -> Ticket \cup {NoSale}]
    /\ held \in Seq(Cart) /\ Len(held) <= MaxHolds
    /\ visits \in 0..MaxVisits /\ orphaned \in BOOLEAN
    /\ uses \in Habits

Init ==
    /\ cart = NoCart /\ credit = None /\ promos = None
    /\ evals = {} /\ due = FALSE
    /\ screen = "terminal" /\ pin = NoPin /\ undo = None
    /\ submitting = FALSE /\ posts = [n \in Charge |-> NoPost]
    /\ hold = NoHold /\ swap = NoHold
    /\ stored = NoCart /\ saving = None /\ restoring = None
    /\ sales = [n \in Charge |-> NoSale] /\ held = <<>>
    /\ visits = 0 /\ orphaned = FALSE
    /\ uses \in Habits

Clickable == screen = "terminal" /\ ~pin.shown

(***************************************************************************)
(* Filling the cart.  Scan stands for the scanner, the product card and    *)
(* the variant dialog: each ends in addItem.                               *)
(***************************************************************************)
Scan(i) ==
    /\ Mounted /\ Units(cart) < MaxUnits
    /\ SetCart(Put(cart, i, cart.qty[i] + 1))
    /\ due' = TRUE
    /\ UNCHANGED <<credit, promos, evals, postVars, holdVars, pageVars,
                   restoring, serverVars, pastVars>>

Edit(c) ==
    /\ Clickable
    /\ SetCart(c)
    /\ due' = TRUE
    /\ UNCHANGED <<credit, promos, evals, postVars, holdVars, pageVars,
                   restoring, serverVars, pastVars>>

RemoveItem(i) == cart.qty[i] > 0 /\ Edit(Put(cart, i, 0))
UpdateQuantity(i) == cart.qty[i] > 1 /\ Edit(Put(cart, i, cart.qty[i] - 1))

(* Discounts up to the threshold are the cashier's own. *)
ApplyLineDiscount(i, p) ==
    /\ cart.qty[i] > 0
    /\ MayOverride \/ p <= LineThreshold
    /\ Edit(LineDiscount(cart, i, p))

SetDiscount(c) ==
    /\ Clickable /\ ~IsEmpty(cart)
    /\ SetCart(c)
    /\ UNCHANGED <<credit, promos, evalVars, postVars, holdVars, pageVars,
                   restoring, serverVars, pastVars>>

ApplyCartDiscount(p) ==
    /\ MayOverride \/ p <= CartThreshold
    /\ \/ SetDiscount(PercentDiscount(cart, p))
       \/ SetDiscount(AmountDiscount(cart, AmountFor(cart, p)))

(* Switching between percent and rupees resets the discount, "Clear" also  *)
(* forgets the manager.                                                    *)
SwitchDiscountMode == SetDiscount(PercentDiscount(cart, 0))
ClearCartDiscount ==
    /\ cart.percent > 0 \/ cart.amount > 0
    /\ SetDiscount([PercentDiscount(cart, 0) EXCEPT !.mgr = FALSE])

(***************************************************************************)
(* The manager's PIN.  Closing the dialog does not withdraw a PIN that is  *)
(* being verified; a refusal that comes later is counted, and the next     *)
(* dialog starts with it when it is the same one.                          *)
(***************************************************************************)
PinOnly ==
    UNCHANGED <<storeVars, evalVars, postVars, holdVars, screen, undo,
                diskVars, serverVars, pastVars>>

AskManager(i, p) ==
    /\ Clickable /\ pin.stage = "none" /\ ~IsEmpty(cart) /\ ~MayOverride
    /\ IF i = None THEN p > CartThreshold
       ELSE cart.qty[i] > 0 /\ p > LineThreshold
    /\ \E a \in {0} \cup (IF i = None THEN {AmountFor(cart, p)} ELSE {}),
          n \in {0, pin.fails} :
          pin' = [NoPin EXCEPT !.stage = "typing", !.shown = TRUE, !.item = i,
                               !.rate = p, !.amount = a, !.fails = n]
    /\ PinOnly

SubmitPin ==
    /\ pin.stage = "typing"
    /\ pin' = [pin EXCEPT !.stage = "sent"]
    /\ PinOnly

ClosePin ==
    /\ pin.shown
    /\ pin' = IF pin.stage = "sent" THEN [pin EXCEPT !.shown = FALSE]
              ELSE NoPin
    /\ PinOnly

PinRefused_NoLimit ==  \* mutant: no limit on wrong PINs
    /\ pin.stage = "sent"
    /\ pin' = IF pin.shown
              THEN [pin EXCEPT !.stage = "typing", !.fails = @ + 1]
              ELSE NoPin
    /\ PinOnly
PinRefused ==
    /\ pin.stage = "sent"
    /\ pin' = IF pin.fails + 1 = MaxFailures THEN NoPin
              ELSE IF pin.shown
              THEN [pin EXCEPT !.stage = "typing", !.fails = @ + 1]
              ELSE [NoPin EXCEPT !.fails = pin.fails + 1]
    /\ PinOnly

PinUnanswered ==
    /\ pin.stage = "sent"
    /\ pin' = IF pin.shown THEN [pin EXCEPT !.stage = "typing"] ELSE NoPin
    /\ PinOnly

PinAccepted ==
    /\ pin.stage = "sent"
    /\ pin' = NoPin
    /\ IF pin.item = None
       THEN /\ SetCart(WithManager(
                   IF pin.amount > 0 THEN AmountDiscount(cart, pin.amount)
                   ELSE PercentDiscount(cart, pin.rate)))
            /\ UNCHANGED due
       ELSE /\ SetCart(WithManager(LineDiscount(cart, pin.item, pin.rate)))
            /\ due' = TRUE
    /\ UNCHANGED <<credit, promos, evals, postVars, holdVars, screen, undo,
                   restoring, serverVars, pastVars>>

(***************************************************************************)
(* Clearing the cart; the toast offers to undo it for three seconds.       *)
(***************************************************************************)
HandleClearCart ==
    /\ Clickable /\ ~IsEmpty(cart)
    /\ undo' = cart
    /\ ClearCart
    /\ UNCHANGED <<evalVars, postVars, holdVars, screen, pin, restoring,
                   serverVars, pastVars>>

Undo ==
    /\ undo # None
    /\ SetCart(undo)
    /\ undo' = None
    /\ UNCHANGED <<credit, promos, evalVars, postVars, holdVars, screen, pin,
                   restoring, serverVars, pastVars>>

UndoExpires ==
    /\ undo # None
    /\ undo' = None
    /\ UNCHANGED <<storeVars, evalVars, postVars, holdVars, screen, pin,
                   diskVars, serverVars, pastVars>>

(***************************************************************************)
(* Promotions: 300 ms after the last edit, or at once for a promo code.    *)
(* The answer is stored whatever the cart holds by then.                   *)
(***************************************************************************)
EvaluatePromotions ==
    /\ due' = FALSE
    /\ IF IsEmpty(cart) THEN promos' = None /\ UNCHANGED evals
       ELSE /\ Cardinality(evals) < MaxEvals
            /\ evals' = evals \cup {cart.qty}
            /\ UNCHANGED promos
    /\ UNCHANGED <<cart, credit, postVars, holdVars, pageVars, diskVars,
                   serverVars, pastVars>>

TimerFires == due /\ EvaluatePromotions
SetPromoCode == Clickable /\ EvaluatePromotions

PromotionsAnswered(b) ==
    /\ b \in evals
    /\ evals' = evals \ {b}
    /\ promos' \in {b, promos}      \* a failed evaluation keeps the old ones
    /\ UNCHANGED <<cart, credit, due, postVars, holdVars, pageVars, diskVars,
                   serverVars, pastVars>>

(***************************************************************************)
(* Payment.  Escape closes a payment dialog even while its sale is being   *)
(* submitted; the payload is what the page showed at the confirmation.     *)
(***************************************************************************)
Goto(s) ==
    /\ screen' = s
    /\ UNCHANGED <<storeVars, evalVars, postVars, holdVars, pin, undo,
                   diskVars, serverVars, pastVars>>

CreditCovers == credit # None /\ Total(cart) <= CreditValue

Charge_ == Clickable /\ ~IsEmpty(cart) /\ ~CreditCovers /\ Goto("charge")
SelectMethod == screen = "charge" /\ Goto("pay")
ClosePayment == screen \in {"charge", "pay"} /\ Goto("terminal")

SubmitSale ==
    /\ ~submitting
    /\ \E n \in Charge :
          /\ posts[n] = NoPost
          /\ n = 1 \/ "again" \in uses
          /\ \A m \in 1..(n - 1) : posts[m] # NoPost
          /\ posts' = [posts EXCEPT ![n] =
                          [stage |-> "sent", ticket |-> BasePayload,
                           asked |-> Total(cart), here |-> TRUE]]
    /\ submitting' = TRUE
    /\ UNCHANGED <<storeVars, evalVars, holdVars, pageVars, diskVars,
                   serverVars, pastVars>>

ConfirmPayment == screen = "pay" /\ SubmitSale
ConfirmExchange ==
    Clickable /\ ~IsEmpty(cart) /\ CreditCovers /\ SubmitSale

(* The server records the sale or refuses it; a sale without lines, or     *)
(* with a discount above its subtotal, is always refused.                  *)
ServerSaves_Late(n) ==  \* mutant: the payload is built when it is sent
    /\ posts[n].stage = "sent"
    /\ ~IsEmpty(cart) /\ Total(BasePayload.cart) >= 0
    /\ sales' = [sales EXCEPT ![n] = BasePayload]
    /\ posts' = [posts EXCEPT ![n].stage = "saved"]
    /\ UNCHANGED <<storeVars, evalVars, submitting, holdVars, pageVars,
                   diskVars, held, pastVars>>

ServerSaves(n) ==
    /\ posts[n].stage = "sent"
    /\ ~IsEmpty(posts[n].ticket.cart) /\ Total(posts[n].ticket.cart) >= 0
    /\ sales' = [sales EXCEPT ![n] = posts[n].ticket]
    /\ posts' = [posts EXCEPT ![n].stage = "saved"]
    /\ UNCHANGED <<storeVars, evalVars, submitting, holdVars, pageVars,
                   diskVars, held, pastVars>>

ServerRefuses(n) ==
    /\ posts[n].stage = "sent"
    /\ posts' = [posts EXCEPT ![n].stage = "refused"]
    /\ UNCHANGED <<storeVars, evalVars, submitting, holdVars, pageVars,
                   diskVars, serverVars, pastVars>>

(* The end of a handler frees isSubmitting of the page that began it. *)
Answered_AnyPage(n) ==  \* mutant: isSubmitting kept in the store, not the page
    /\ posts' = [posts EXCEPT ![n].stage = "over", ![n].here = FALSE]
    /\ submitting' = FALSE
    /\ UNCHANGED <<storeVars, evalVars, holdVars, pin, undo, diskVars,
                   serverVars, visits, uses>>
Answered_Busy(n) ==  \* mutant: no finally
    /\ posts' = [posts EXCEPT ![n].stage = "over", ![n].here = FALSE]
    /\ submitting' = (submitting /\ posts[n].stage = "refused")
    /\ UNCHANGED <<storeVars, evalVars, holdVars, pin, undo, diskVars,
                   serverVars, visits, uses>>
Answered(n) ==
    /\ posts' = [posts EXCEPT ![n].stage = "over", ![n].here = FALSE]
    /\ submitting' = (submitting /\ ~posts[n].here)
    /\ UNCHANGED <<storeVars, evalVars, holdVars, pin, undo, diskVars,
                   serverVars, visits, uses>>

(* handleSaleSuccess clears the cart and waits for the held sales to be    *)
(* counted again; only then the dialogs close and isSubmitting is freed.   *)
HandleSaleSuccess(n) ==
    /\ posts[n].stage = "saved"
    /\ posts' = [posts EXCEPT ![n].stage = "cleared"]
    /\ ClearCart
    /\ UNCHANGED <<evalVars, submitting, holdVars, pageVars, restoring,
                   serverVars, pastVars>>

SaleEnds(n) ==
    /\ posts[n].stage = "cleared"
    /\ Answered(n)
    /\ screen' = IF posts[n].here /\ screen \in {"charge", "pay"}
                 THEN "terminal" ELSE screen
    /\ UNCHANGED orphaned

SaleFails(n) ==
    /\ posts[n].stage = "refused"
    /\ Answered(n)
    /\ UNCHANGED <<screen, orphaned>>

(* The connection breaks after the sale was recorded: to the page this is  *)
(* a failure.                                                              *)
AnswerLost(n) ==
    /\ posts[n].stage = "saved"
    /\ Answered(n)
    /\ orphaned' = TRUE
    /\ UNCHANGED screen

(***************************************************************************)
(* Hold and retrieve.  A held sale keeps its cart discount as an amount.   *)
(* The server never changes a held sale that was retrieved, and refuses to *)
(* void one, so "Discard" changes nothing.  The bound hold.stage = "none"  *)
(* leaves out a second request of a page mounted anew while the request of *)
(* the page before it is under way.                                        *)
(***************************************************************************)
AsHeld(c) ==
    [c EXCEPT !.percent = 0, !.amount = CartDiscountEffective(c)]

HoldOnly ==
    UNCHANGED <<storeVars, evalVars, postVars, pageVars, diskVars, sales,
                pastVars>>

HoldSale ==
    /\ Clickable /\ ~IsEmpty(cart) /\ hold.stage = "none"
    /\ hold' = [NoHold EXCEPT !.stage = "sent", !.cart = cart]
    /\ UNCHANGED <<swap, held>> /\ HoldOnly

ServerHolds ==
    /\ Len(held) < MaxHolds
    /\ \/ /\ hold.stage = "sent"
          /\ hold' = [hold EXCEPT !.stage = "saved"]
          /\ held' = Append(held, AsHeld(hold.cart))
          /\ UNCHANGED swap
       \/ /\ swap.stage = "sent"
          /\ swap' = [swap EXCEPT !.stage = "saved"]
          /\ held' = Append(held, AsHeld(swap.cart))
          /\ UNCHANGED hold
    /\ HoldOnly

(* Refused by the server, or the answer is lost: the cart stays. *)
HoldFails ==
    /\ \/ hold.stage \in {"sent", "saved"} /\ hold' = NoHold /\ UNCHANGED swap
       \/ swap.stage \in {"sent", "saved"} /\ swap' = NoHold /\ UNCHANGED hold
    /\ UNCHANGED held /\ HoldOnly

(* After the clear the held sales are read again, as after a sale. *)
HoldAnswered ==
    /\ hold.stage = "saved"
    /\ hold' = [hold EXCEPT !.stage = "cleared"]
    /\ ClearCart
    /\ UNCHANGED <<evalVars, postVars, swap, pageVars, restoring, serverVars,
                   pastVars>>

HoldEnds ==
    /\ hold.stage = "cleared"
    /\ hold' = NoHold
    /\ UNCHANGED <<swap, held>> /\ HoldOnly

OpenRetrieve == Clickable /\ Goto("retrieve")
CloseRetrieve == screen = "retrieve" /\ Goto("terminal")

RetrieveIntoEmpty(k) ==
    /\ screen = "retrieve" /\ swap.stage = "none" /\ IsEmpty(cart)
    /\ ReplaceCart(held[k])
    /\ screen' = "terminal"
    /\ UNCHANGED <<promos, evalVars, postVars, holdVars, pin, undo, restoring,
                   serverVars, pastVars>>

HoldAndRetrieve(k) ==
    /\ screen = "retrieve" /\ swap.stage = "none" /\ ~IsEmpty(cart)
    /\ swap' = [stage |-> "sent", cart |-> cart, back |-> held[k]]
    /\ UNCHANGED <<hold, held>> /\ HoldOnly

(* "Hold & Retrieve" clears the cart, reads the held sales again, and then *)
(* puts the retrieved sale in place of whatever is in the cart by then.    *)
SwapAnswered_Early ==  \* mutant: the hold is not awaited
    /\ swap.stage \in {"sent", "saved"}
    /\ swap' = [swap EXCEPT !.stage = "cleared"]
    /\ ClearCart
    /\ UNCHANGED <<evalVars, postVars, hold, pageVars, restoring, serverVars,
                   pastVars>>

SwapAnswered ==
    /\ swap.stage = "saved"
    /\ swap' = [swap EXCEPT !.stage = "cleared"]
    /\ ClearCart
    /\ UNCHANGED <<evalVars, postVars, hold, pageVars, restoring, serverVars,
                   pastVars>>

RestoreSaleToCart ==
    /\ swap.stage = "cleared"
    /\ swap' = NoHold
    /\ ReplaceCart(swap.back)
    /\ screen' = IF screen = "retrieve" THEN "terminal" ELSE screen
    /\ UNCHANGED <<promos, evalVars, postVars, hold, pin, undo, restoring,
                   serverVars, pastVars>>

(***************************************************************************)
(* Leaving the page, reloading it, and coming back.  A page that mounts    *)
(* reads the snapshot, and its effect then starts to write the cart in     *)
(* memory over it; the snapshot replaces the cart when the read answers.   *)
(***************************************************************************)
Leave ==
    /\ Clickable /\ visits < MaxVisits
    /\ visits' = visits + 1
    /\ screen' = "away"
    /\ submitting' = FALSE
    /\ posts' = [n \in Charge |-> [posts[n] EXCEPT !.here = FALSE]]
    /\ orphaned' = (orphaned \/ InFlight # {})
    /\ UNCHANGED <<storeVars, evalVars, holdVars, pin, undo, diskVars,
                   serverVars, uses>>

(* On the history page: a return refunded by exchange puts its credit on   *)
(* the cart of the terminal.                                               *)
SetExchangeCredit(r) ==
    /\ screen = "away"
    /\ \A n \in Charge : posts[n] # NoPost => posts[n].ticket.credit # r
    /\ credit' = r
    /\ UNCHANGED <<cart, promos, evalVars, postVars, holdVars, pageVars,
                   diskVars, serverVars, pastVars>>

ClearExchangeCredit ==
    /\ Clickable /\ credit # None
    /\ credit' = None
    /\ UNCHANGED <<cart, promos, evalVars, postVars, holdVars, pageVars,
                   diskVars, serverVars, pastVars>>

ReadSnapshot ==
    restoring' = IF IsEmpty(stored) THEN None ELSE stored

Mount ==
    /\ screen = "away"
    /\ screen' = "terminal"
    /\ ReadSnapshot
    /\ saving' = Snapshot(cart)
    /\ UNCHANGED <<stored, storeVars, evalVars, postVars, holdVars, pin, undo,
                   serverVars, pastVars>>

Reload ==
    /\ visits < MaxVisits
    /\ visits' = visits + 1
    /\ cart' = NoCart /\ credit' = None /\ promos' = None
    /\ evals' = {} /\ due' = FALSE
    /\ screen' = "terminal" /\ pin' = NoPin /\ undo' = None
    /\ submitting' = FALSE
    /\ posts' = [n \in Charge |-> IF n \in Unfinished
                    THEN [posts[n] EXCEPT !.stage = "over", !.here = FALSE]
                    ELSE posts[n]]
    /\ orphaned' = (orphaned \/ InFlight # {})
    /\ hold' = NoHold /\ swap' = NoHold
    /\ ReadSnapshot
    /\ saving' = NoCart
    /\ UNCHANGED <<stored, serverVars, uses>>

Restore ==
    /\ restoring # None
    /\ restoring' = None
    /\ ReplaceCart(restoring)
    /\ UNCHANGED <<promos, evalVars, postVars, holdVars, pageVars, serverVars,
                   pastVars>>

SaveLands ==
    /\ saving # None
    /\ stored' = saving
    /\ saving' = None
    /\ UNCHANGED <<storeVars, evalVars, postVars, holdVars, pageVars, restoring,
                   serverVars, pastVars>>

(***************************************************************************)
(* The specification.  A sale that was sent is answered, and what follows  *)
(* its await runs, since a fetch settles; nothing else is bound to happen. *)
(* In a behaviour without "storage" every write to IndexedDB fails.        *)
(***************************************************************************)
Discounting ==
    \/ \E p \in Rates : ApplyCartDiscount(p) \/ AskManager(None, p)
    \/ SwitchDiscountMode \/ ClearCartDiscount

LineDiscounting ==
    \E i \in Items, p \in Rates : ApplyLineDiscount(i, p) \/ AskManager(i, p)

Holding ==
    \/ HoldSale \/ OpenRetrieve \/ CloseRetrieve
    \/ \E k \in DOMAIN held : RetrieveIntoEmpty(k) \/ HoldAndRetrieve(k)

Visiting ==
    \/ Leave \/ Mount \/ Reload
    \/ \E r \in Return : SetExchangeCredit(r)
    \/ ClearExchangeCredit

Cashier ==
    \/ \E i \in Items : Scan(i)
    \/ "edit" \in uses /\ \E i \in Items : RemoveItem(i) \/ UpdateQuantity(i)
    \/ "discount" \in uses /\ Discounting
    \/ "line" \in uses /\ LineDiscounting
    \/ SubmitPin \/ ClosePin
    \/ "undo" \in uses /\ (HandleClearCart \/ Undo)
    \/ "promotion" \in uses /\ SetPromoCode
    \/ Charge_ \/ SelectMethod \/ ClosePayment
    \/ ConfirmPayment \/ ConfirmExchange
    \/ "hold" \in uses /\ Holding
    \/ "visit" \in uses /\ Visiting

Server(n) == ServerSaves(n) \/ ServerRefuses(n)
Answer(n) ==
    HandleSaleSuccess(n) \/ SaleEnds(n) \/ SaleFails(n) \/ AnswerLost(n)

Browser ==
    \/ "promotion" \in uses /\ TimerFires
    \/ UndoExpires \/ Restore
    \/ \E b \in evals : PromotionsAnswered(b)
    \/ PinRefused \/ PinUnanswered \/ PinAccepted
    \/ ServerHolds \/ HoldFails \/ HoldAnswered \/ HoldEnds
    \/ SwapAnswered \/ RestoreSaleToCart
    \/ "storage" \in uses /\ SaveLands

Next ==
    \/ Cashier
    \/ Browser
    \/ \E n \in Charge : Server(n) \/ Answer(n)

Spec ==
    /\ Init /\ [][Next]_vars
    /\ \A n \in Charge : WF_vars(Server(n)) /\ WF_vars(Answer(n))

(***************************************************************************)
(* Properties.                                                             *)
(***************************************************************************)

(* usePersistCartEffect keeps the snapshot in step with the store through  *)
(* sales, holds, swaps, undo, leaving the page and coming back: either the *)
(* snapshot is the cart on the page, or the last write of that very cart   *)
(* is what has not landed.  So a reload brings back an older cart only in  *)
(* that gap, and a write of an older cart never lands over a newer one.    *)
SnapshotIsCart ==
    Mounted => \/ saving = None /\ stored = Snapshot(cart)
               \/ saving = Snapshot(cart)

(* The page runs the handler of at most one sale submission, and shows     *)
(* isSubmitting exactly until that handler has ended, the await after the  *)
(* answer included: the dialogs of CartPanel cannot be confirmed twice,    *)
(* also when the handler of a page that is gone ends on the new one.       *)
OneSaleInFlight ==
    LET mine == {n \in Unfinished : posts[n].here}
    IN  /\ Cardinality(mine) <= 1
        /\ submitting <=> mine # {}

(* A return refunded by exchange pays for one sale.  (An answer that never *)
(* reaches its page leaves the credit on the cart, which the page cannot   *)
(* help.)                                                                  *)
CreditSpentOnce ==
    ~orphaned =>
        \A m, n \in Charge :
            /\ sales[m] # NoSale /\ sales[n] # NoSale
            /\ sales[m].credit # None /\ sales[m].credit = sales[n].credit
            => m = n

(* "Hold & Retrieve" takes a cart away only once the server holds the cart *)
(* it was pressed on; and while the cart is cleared and the retrieved sale *)
(* is not back yet, the server holds both, so that a reload at that point  *)
(* loses neither.                                                          *)
SwapKeepsTheCart ==
    [][ \/ swap.stage = "cleared"
        \/ swap.stage # "none" /\ swap' # swap /\ cart' # cart /\ visits' = visits
        => {AsHeld(swap.cart), swap.back} \subseteq Range(held) ]_vars

(* Seen from outside, whatever the dialogs, the storage and the timing of  *)
(* answers do, every submission of CartPanel is a charge of the cart in    *)
(* front of the cashier, recorded at most once and exactly as charged.     *)
Till == INSTANCE Counter
            WITH NoTicket <- None, front <- BasePayload,
                 charged <- [n \in Charge |-> posts[n].ticket],
                 recorded <- sales
CounterSpec == Till!Spec

(* The Charge button is not stuck: every submission ends, by an answer, a  *)
(* failure or the page going away (the finally of handleCashConfirm).      *)
SubmissionEnds == submitting ~> ~submitting

(* The sale that is recorded has the total CartPanel showed when it was    *)
(* confirmed.                                                              *)
ChargedAsShown ==
    \A n \in Charge :
        sales[n] # NoSale => Total(sales[n].cart) = posts[n].asked
=============================================================================
