--------------------------- MODULE RegisterProofs ---------------------------
(***************************************************************************)
(* The terminal is right for any items, prices, returns and numbers of     *)
(* submissions.  Most steps are quiet: they touch no submission and no     *)
(* sale, keep or drop the credit, and keep the snapshot in step.  The rest *)
(* are argued one by one.  The types need that sums of a cart are natural  *)
(* numbers, which SumProofs has.                                           *)
(***************************************************************************)
EXTENDS Register, SumProofs, SequenceTheorems, TLAPS

Mine == {n \in Unfinished : posts[n].here}

(* posts and sales are arrays over Charge, a post is a record of four.     *)
Post(t, a) == [stage : {"none", "sent", "saved", "refused", "cleared", "over"},
               ticket : {t}, asked : {a}, here : BOOLEAN]
Shape ==
    /\ posts = [n \in Charge |-> posts[n]]
    /\ \A n \in Charge : posts[n] \in Post(posts[n].ticket, posts[n].asked)
    /\ sales = [n \in Charge |-> sales[n]]
    /\ submitting \in BOOLEAN /\ orphaned \in BOOLEAN
    /\ visits \in Int

SubmitInv ==
    /\ submitting <=> Mine # {}
    /\ \A m, n \in Mine : m = n

(* A submission spends its credit once it may be, or was, recorded. *)
Spends(n) == posts[n].stage \in {"sent", "saved"} \/ sales[n] # NoSale

SaleOfPost ==
    \A n \in Charge : sales[n] # NoSale =>
        /\ posts[n].stage \in {"saved", "cleared", "over"}
        /\ sales[n] = posts[n].ticket

CreditInv ==
    ~orphaned =>
        /\ \A n \in InFlight : posts[n].here
        /\ \A n \in Charge :
             /\ sales[n] # NoSale /\ posts[n].stage \in {"cleared", "over"}
             /\ posts[n].ticket.credit # None
             => credit # posts[n].ticket.credit
        /\ \A m, n \in Charge :
             /\ Spends(m) /\ Spends(n)
             /\ posts[m].ticket.credit = posts[n].ticket.credit
             /\ posts[m].ticket.credit # None
             => m = n

PostInv == Shape /\ SubmitInv /\ SaleOfPost /\ CreditInv

(* The server holds the sale a swap brings back, and, once it answered,    *)
(* the cart of the swap.                                                   *)
SwapInv ==
    /\ held \in Seq(Range(held))
    /\ swap = [stage |-> swap.stage, cart |-> swap.cart, back |-> swap.back]
    /\ swap.stage # "none" => swap.back \in Range(held)
    /\ swap.stage \in {"saved", "cleared"} => AsHeld(swap.cart) \in Range(held)

DiskInv == SnapshotIsCart

Inv == PostInv /\ SwapInv /\ DiskInv

----------------------------------------------------------------------------
(* What single steps do to the submissions. *)

PostsStay == UNCHANGED <<submitting, posts, sales, orphaned, visits>>
SwapsStay == UNCHANGED <<swap, held>>
DiskStep == DiskInv => DiskInv'
CreditStays == credit' \in {credit, None}
Quiet == PostsStay /\ CreditStays /\ SwapsStay /\ DiskStep

LEMMA CartDisk ==
    ASSUME NEW c, SetCart(c), Mounted' => Mounted
    PROVE  DiskStep
BY DEF SetCart, DiskStep, DiskInv, SnapshotIsCart, Snapshot

LEMMA SetCartDisk ==
    ASSUME NEW c, SetCart(c), screen' = screen
    PROVE  DiskStep
BY CartDisk DEF Mounted

LEMMA SameDisk ==
    ASSUME UNCHANGED <<cart, stored, saving>>, Mounted' => Mounted
    PROVE  DiskStep
BY DEF DiskStep, DiskInv, SnapshotIsCart, Snapshot

LEMMA EmptyDisk == Snapshot(NoCart) = NoCart
BY DEF Snapshot

LEMMA EditIsQuiet ==
    ASSUME NEW c, Edit(c)
    PROVE  Quiet
<1>1. SetCart(c) /\ screen' = screen
  BY DEF Edit, pageVars
<1> QED
  BY <1>1, SetCartDisk DEF Edit, Quiet, CreditStays, PostsStay, SwapsStay, postVars,
     holdVars, serverVars, pastVars

LEMMA SetDiscountIsQuiet ==
    ASSUME NEW c, SetDiscount(c)
    PROVE  Quiet
<1>1. SetCart(c) /\ screen' = screen
  BY DEF SetDiscount, pageVars
<1> QED
  BY <1>1, SetCartDisk DEF SetDiscount, Quiet, CreditStays, PostsStay, SwapsStay, postVars,
     holdVars, serverVars, pastVars

LEMMA CartIsQuiet ==
    ASSUME NEW i \in Items,
           \/ Scan(i) \/ RemoveItem(i) \/ UpdateQuantity(i)
    PROVE  Quiet
<1>1. CASE Scan(i)
  <2>1. SetCart(Put(cart, i, cart.qty[i] + 1)) /\ screen' = screen
    BY <1>1 DEF Scan, pageVars
  <2> QED
    BY <1>1, <2>1, SetCartDisk DEF Scan, Quiet, CreditStays, PostsStay, SwapsStay,
       postVars, holdVars, serverVars, pastVars
<1>2. CASE RemoveItem(i)
  BY <1>2, EditIsQuiet DEF RemoveItem
<1>3. CASE UpdateQuantity(i)
  BY <1>3, EditIsQuiet DEF UpdateQuantity
<1> QED
  BY <1>1, <1>2, <1>3

LEMMA PinOnlyIsQuiet ==
    ASSUME PinOnly
    PROVE  Quiet
<1>1. DiskStep
  BY SameDisk DEF PinOnly, storeVars, diskVars, Mounted
<1> QED
  BY <1>1 DEF PinOnly, Quiet, CreditStays, PostsStay, SwapsStay, storeVars, postVars,
     holdVars, serverVars, pastVars

LEMMA DiscountIsQuiet ==
    ASSUME Discounting \/ LineDiscounting
    PROVE  Quiet
<1>1. ASSUME NEW p \in Rates, ApplyCartDiscount(p)
      PROVE  Quiet
  BY <1>1, SetDiscountIsQuiet DEF ApplyCartDiscount
<1>2. ASSUME NEW p, NEW i, AskManager(i, p)
      PROVE  Quiet
  BY <1>2, PinOnlyIsQuiet DEF AskManager
<1>3. ASSUME NEW p \in Rates, NEW i \in Items, ApplyLineDiscount(i, p)
      PROVE  Quiet
  BY <1>3, EditIsQuiet DEF ApplyLineDiscount
<1>4. CASE SwitchDiscountMode
  BY <1>4, SetDiscountIsQuiet DEF SwitchDiscountMode
<1>5. CASE ClearCartDiscount
  BY <1>5, SetDiscountIsQuiet DEF ClearCartDiscount
<1> QED
  BY <1>1, <1>2, <1>3, <1>4, <1>5 DEF Discounting, LineDiscounting

LEMMA PinIsQuiet ==
    ASSUME \/ SubmitPin \/ ClosePin
           \/ PinRefused \/ PinUnanswered \/ PinAccepted
    PROVE  Quiet
<1>1. CASE SubmitPin \/ ClosePin \/ PinRefused \/ PinUnanswered
  BY <1>1, PinOnlyIsQuiet DEF SubmitPin, ClosePin, PinRefused, PinUnanswered
<1>2. CASE PinAccepted
  <2>1. screen' = screen /\ \E c : SetCart(c)
    BY <1>2 DEF PinAccepted
  <2>2. DiskStep
    BY <2>1, SetCartDisk
  <2> QED
    BY <1>2, <2>2 DEF PinAccepted, Quiet, CreditStays, PostsStay, SwapsStay, postVars,
       holdVars, serverVars, pastVars
<1> QED
  BY <1>1, <1>2

LEMMA ClearIsQuiet ==
    ASSUME HandleClearCart \/ Undo \/ UndoExpires
    PROVE  Quiet
<1>1. CASE HandleClearCart
  <2>1. SetCart(NoCart) /\ screen' = screen /\ credit' = None
    BY <1>1 DEF HandleClearCart, ClearCart
  <2> QED
    BY <1>1, <2>1, SetCartDisk DEF HandleClearCart, Quiet, CreditStays, PostsStay,
       SwapsStay, postVars, holdVars, serverVars, pastVars
<1>2. CASE Undo
  <2>1. SetCart(undo) /\ screen' = screen
    BY <1>2 DEF Undo
  <2> QED
    BY <1>2, <2>1, SetCartDisk DEF Undo, Quiet, CreditStays, PostsStay, SwapsStay,
       postVars, holdVars, serverVars, pastVars
<1>3. CASE UndoExpires
  <2>1. DiskStep
    BY <1>3, SameDisk DEF UndoExpires, storeVars, diskVars, Mounted
  <2> QED
    BY <1>3, <2>1 DEF UndoExpires, Quiet, CreditStays, PostsStay, SwapsStay, storeVars,
       postVars, holdVars, serverVars, pastVars
<1> QED
  BY <1>1, <1>2, <1>3

LEMMA PromotionIsQuiet ==
    ASSUME \/ SetPromoCode \/ TimerFires
           \/ \E b \in evals : PromotionsAnswered(b)
    PROVE  Quiet
<1>1. CASE EvaluatePromotions
  <2>1. DiskStep
    BY <1>1, SameDisk DEF EvaluatePromotions, pageVars, diskVars, Mounted
  <2> QED
    BY <1>1, <2>1 DEF EvaluatePromotions, Quiet, CreditStays, PostsStay, SwapsStay,
       postVars, holdVars, serverVars, pastVars
<1>2. ASSUME NEW b \in evals, PromotionsAnswered(b)
      PROVE  Quiet
  <2>1. DiskStep
    BY <1>2, SameDisk DEF PromotionsAnswered, pageVars, diskVars, Mounted
  <2> QED
    BY <1>2, <2>1 DEF PromotionsAnswered, Quiet, CreditStays, PostsStay, SwapsStay,
       postVars, holdVars, serverVars, pastVars
<1> QED
  BY <1>1, <1>2 DEF SetPromoCode, TimerFires

LEMMA GotoIsQuiet ==
    ASSUME NEW s, Goto(s), Mounted
    PROVE  Quiet
<1>1. DiskStep
  BY SameDisk DEF Goto, storeVars, diskVars
<1> QED
  BY <1>1 DEF Goto, Quiet, CreditStays, PostsStay, SwapsStay, storeVars, postVars,
     holdVars, serverVars, pastVars

LEMMA DialogIsQuiet ==
    ASSUME \/ Charge_ \/ SelectMethod \/ ClosePayment
           \/ OpenRetrieve \/ CloseRetrieve
    PROVE  Quiet
<1>1. Mounted
  BY DEF Charge_, SelectMethod, ClosePayment, OpenRetrieve, CloseRetrieve,
     Clickable, Mounted
<1> QED
  BY <1>1, GotoIsQuiet DEF Charge_, SelectMethod, ClosePayment, OpenRetrieve,
     CloseRetrieve

LEMMA HoldIsQuiet ==
    ASSUME \/ HoldSale \/ HoldAnswered \/ HoldEnds
           \/ \E k \in DOMAIN held : RetrieveIntoEmpty(k)
    PROVE  Quiet
<1>1. CASE HoldSale \/ HoldEnds
  <2>1. HoldOnly /\ SwapsStay
    BY <1>1 DEF HoldSale, HoldEnds, SwapsStay
  <2>2. DiskStep
    BY <2>1, SameDisk DEF HoldOnly, storeVars, pageVars, diskVars, Mounted
  <2> QED
    BY <2>1, <2>2 DEF HoldOnly, Quiet, CreditStays, PostsStay, storeVars, postVars,
       pastVars
<1>2. CASE HoldAnswered
  <2>1. SetCart(NoCart) /\ screen' = screen /\ credit' = None
    BY <1>2 DEF HoldAnswered, ClearCart, pageVars
  <2> QED
    BY <1>2, <2>1, SetCartDisk DEF HoldAnswered, Quiet, CreditStays, PostsStay, SwapsStay,
       postVars, serverVars, pastVars
<1>3. ASSUME NEW k \in DOMAIN held, RetrieveIntoEmpty(k)
      PROVE  Quiet
  <2>1. Mounted /\ SetCart(held[k]) /\ credit' = None
    BY <1>3 DEF RetrieveIntoEmpty, ReplaceCart, Mounted
  <2>2. DiskStep
    BY <2>1, CartDisk
  <2> QED
    BY <1>3, <2>1, <2>2 DEF RetrieveIntoEmpty, Quiet, CreditStays, PostsStay, SwapsStay,
       postVars, holdVars, serverVars, pastVars
<1> QED
  BY <1>1, <1>2, <1>3

LEMMA MountIsQuiet ==
    ASSUME Mount \/ Restore \/ SaveLands \/ ClearExchangeCredit
    PROVE  Quiet
<1>4. CASE SaveLands
  <2>1. DiskStep
    BY <1>4 DEF SaveLands, DiskStep, DiskInv, SnapshotIsCart, Mounted, storeVars,
       pageVars, Snapshot
  <2> QED
    BY <1>4, <2>1 DEF SaveLands, Quiet, CreditStays, PostsStay, SwapsStay, storeVars,
       postVars, holdVars, serverVars, pastVars
<1>1. CASE Mount
  <2>1. DiskStep
    BY <1>1 DEF Mount, DiskStep, DiskInv, SnapshotIsCart, storeVars, Snapshot
  <2> QED
    BY <1>1, <2>1 DEF Mount, Quiet, CreditStays, PostsStay, SwapsStay, storeVars, postVars,
       holdVars, serverVars, pastVars
<1>2. CASE Restore
  <2>1. SetCart(restoring) /\ screen' = screen /\ credit' = None
    BY <1>2 DEF Restore, ReplaceCart, pageVars
  <2> QED
    BY <1>2, <2>1, SetCartDisk DEF Restore, Quiet, CreditStays, PostsStay, SwapsStay,
       postVars, holdVars, serverVars, pastVars
<1>3. CASE ClearExchangeCredit
  <2>1. DiskStep
    BY <1>3, SameDisk DEF ClearExchangeCredit, pageVars, diskVars, Mounted
  <2> QED
    BY <1>3, <2>1 DEF ClearExchangeCredit, Quiet, CreditStays, PostsStay, SwapsStay,
       postVars, holdVars, serverVars, pastVars
<1> QED
  BY <1>1, <1>2, <1>3, <1>4

----------------------------------------------------------------------------
(* The steps that are not quiet. *)

Loud ==
    \/ SubmitSale
    \/ \E n \in Charge : Server(n) \/ Answer(n)
    \/ ServerHolds \/ HoldFails \/ SwapAnswered \/ RestoreSaleToCart
    \/ \E k \in DOMAIN held : HoldAndRetrieve(k)
    \/ Leave \/ Reload
    \/ \E r \in Return : SetExchangeCredit(r)

LEMMA NextIsQuietOrLoud ==
    ASSUME Next
    PROVE  Quiet \/ Loud
<1>1. ASSUME NEW i \in Items, \/ Scan(i) \/ RemoveItem(i) \/ UpdateQuantity(i)
      PROVE  Quiet
  BY <1>1, CartIsQuiet
<1>2. CASE Discounting \/ LineDiscounting
  BY <1>2, DiscountIsQuiet
<1>3. CASE SubmitPin \/ ClosePin \/ PinRefused \/ PinUnanswered \/ PinAccepted
  BY <1>3, PinIsQuiet
<1>4. CASE HandleClearCart \/ Undo \/ UndoExpires
  BY <1>4, ClearIsQuiet
<1>5. CASE \/ SetPromoCode \/ TimerFires
           \/ \E b \in evals : PromotionsAnswered(b)
  BY <1>5, PromotionIsQuiet
<1>6. CASE Charge_ \/ SelectMethod \/ ClosePayment
  BY <1>6, DialogIsQuiet
<1>7. CASE Holding
  BY <1>7, HoldIsQuiet, DialogIsQuiet DEF Holding, Loud
<1>8. CASE HoldAnswered \/ HoldEnds
  BY <1>8, HoldIsQuiet
<1>9. CASE Visiting
  BY <1>9, MountIsQuiet DEF Visiting, Loud
<1>10. CASE Restore \/ SaveLands
  BY <1>10, MountIsQuiet
<1>11. CASE ConfirmPayment \/ ConfirmExchange
  BY <1>11 DEF ConfirmPayment, ConfirmExchange, Loud
<1>12. CASE \/ ServerHolds \/ HoldFails \/ SwapAnswered \/ RestoreSaleToCart
            \/ \E n \in Charge : Server(n) \/ Answer(n)
  BY <1>12 DEF Loud
<1> QED
  BY <1>1, <1>2, <1>3, <1>4, <1>5, <1>6, <1>7, <1>8, <1>9, <1>10, <1>11,
     <1>12 DEF Next, Cashier, Browser

----------------------------------------------------------------------------
(* The submissions. *)

LEMMA InitPosts ==
    ASSUME Init
    PROVE  PostInv
<1>1. \A n \in Charge : posts[n] = NoPost /\ sales[n] = NoSale
  BY DEF Init
<1>2. Shape
  <2>1. posts = [n \in Charge |-> posts[n]] /\ sales = [n \in Charge |-> sales[n]]
    BY DEF Init
  <2>2. \A n \in Charge : posts[n] \in Post(posts[n].ticket, posts[n].asked)
    <3>1. NoPost \in Post(None, 0) /\ NoPost.ticket = None /\ NoPost.asked = 0
      BY DEF NoPost, Post
    <3> QED
      BY <1>1, <3>1
  <2>3. submitting \in BOOLEAN /\ orphaned \in BOOLEAN
    BY DEF Init
  <2>4. visits \in Int
    BY DEF Init
  <2> QED
    BY <2>1, <2>2, <2>3, <2>4 DEF Shape
<1>3. InFlight = {} /\ Mine = {}
  BY <1>1 DEF InFlight, Unfinished, NoPost, Mine
<1>4. SubmitInv
  BY <1>3 DEF SubmitInv, Init
<1>5. SaleOfPost
  BY <1>1 DEF SaleOfPost
<1>6. CreditInv
  BY <1>1, <1>3 DEF CreditInv, Spends, NoPost
<1> QED
  BY <1>2, <1>4, <1>5, <1>6 DEF PostInv

LEMMA StayKeepsPosts ==
    ASSUME PostInv, PostsStay, CreditStays
    PROVE  PostInv'
<1>1. InFlight' = InFlight /\ Mine' = Mine
  BY DEF InFlight, Unfinished, Mine, PostsStay
<1>2. Shape' /\ SubmitInv' /\ SaleOfPost'
  BY <1>1 DEF PostInv, PostsStay, Shape, SubmitInv, SaleOfPost
<1>3. CreditInv'
  BY <1>1 DEF PostInv, PostsStay, CreditStays, CreditInv, Spends
<1> QED
  BY <1>2, <1>3 DEF PostInv

(* A change of the stage of submission n, seen field by field. *)
Becomes(n, stage) ==
    /\ \A m \in Charge \ {n} : posts'[m] = posts[m]
    /\ posts'[n].stage = stage
    /\ posts'[n].ticket = posts[n].ticket
    /\ posts'[n] \in Post(posts[n].ticket, posts[n].asked)
    /\ posts' = [m \in Charge |-> posts'[m]]
Stages == {"none", "sent", "saved", "refused", "cleared", "over"}

LEMMA StageBecomes ==
    ASSUME Shape, NEW n \in Charge, NEW s \in Stages,
           posts' = [posts EXCEPT ![n].stage = s]
    PROVE  Becomes(n, s) /\ posts'[n].here = posts[n].here
BY DEF Shape, Becomes, Post, Stages

LEMMA AnswerBecomes ==
    ASSUME Shape, NEW n \in Charge, Answered(n)
    PROVE  Becomes(n, "over") /\ ~posts'[n].here
BY DEF Shape, Becomes, Answered, Post

LEMMA BecomesShape ==
    ASSUME Shape, NEW n \in Charge, NEW s, Becomes(n, s),
           sales' = [m \in Charge |-> sales'[m]],
           submitting' \in BOOLEAN, orphaned' \in BOOLEAN, visits' \in Int
    PROVE  Shape'
<1>1. \A m \in Charge : posts'[m] \in Post(posts'[m].ticket, posts'[m].asked)
  BY DEF Shape, Becomes, Post
<1> QED
  BY <1>1 DEF Shape, Becomes

LEMMA AnsweredSubmit ==
    ASSUME Shape, SubmitInv, NEW n \in Unfinished, Answered(n)
    PROVE  SubmitInv'
<1>1. n \in Charge /\ Becomes(n, "over") /\ ~posts'[n].here
  BY AnswerBecomes DEF Unfinished, InFlight
<1>2. Unfinished' = Unfinished \ {n}
  BY <1>1 DEF Unfinished, InFlight, Becomes
<1>3. Mine' = Mine \ {n}
  BY <1>1, <1>2 DEF Mine, Unfinished, InFlight, Becomes
<1>4. submitting' = (submitting /\ n \notin Mine)
  BY DEF Answered, Mine
<1> QED
  BY <1>3, <1>4 DEF SubmitInv

LEMMA SubmitKeepsPosts ==
    ASSUME PostInv, SubmitSale
    PROVE  PostInv'
<1>1. PICK n \in Charge :
        /\ posts[n] = NoPost
        /\ posts' = [posts EXCEPT ![n] =
                       [stage |-> "sent", ticket |-> BasePayload,
                        asked |-> Total(cart), here |-> TRUE]]
  BY DEF SubmitSale
<1>2. Mine = {} /\ submitting' = TRUE
  BY DEF SubmitSale, PostInv, SubmitInv
<1>3. UNCHANGED <<sales, orphaned, visits, credit>>
  BY DEF SubmitSale, storeVars, serverVars, pastVars
<1>4. /\ \A m \in Charge \ {n} : posts'[m] = posts[m]
      /\ posts'[n].stage = "sent" /\ posts'[n].here
      /\ posts'[n].ticket.credit = credit
      /\ posts'[n] \in Post(BasePayload, Total(cart))
      /\ posts' = [m \in Charge |-> posts'[m]]
  BY <1>1 DEF PostInv, Shape, Post, BasePayload
<1>5. \A m \in Charge : posts'[m] \in Post(posts'[m].ticket, posts'[m].asked)
  BY <1>4 DEF PostInv, Shape, Post
<1>6. Shape'
  BY <1>2, <1>3, <1>4, <1>5 DEF PostInv, Shape
<1>7. posts[n].stage = "none" /\ sales[n] = NoSale
  BY <1>1 DEF NoPost, PostInv, SaleOfPost
<1>8. InFlight' = InFlight \cup {n} /\ Mine' = {n}
  BY <1>2, <1>4, <1>7 DEF InFlight, Unfinished, Mine
<1>9. SubmitInv'
  BY <1>2, <1>8 DEF SubmitInv
<1>10. SaleOfPost'
  BY <1>3, <1>4, <1>7 DEF PostInv, SaleOfPost
<1>11. CreditInv'
  <2> SUFFICES ASSUME ~orphaned
               PROVE  CreditInv'
    BY <1>3 DEF CreditInv
  <2>1. InFlight = {}
    BY <1>2 DEF PostInv, CreditInv, Mine, Unfinished
  <2>2. \A m \in Charge \ {n} : Spends(m)' =>
          /\ Spends(m) /\ posts'[m].ticket = posts[m].ticket
          /\ sales[m] # NoSale /\ posts[m].stage \in {"cleared", "over"}
    BY <1>3, <1>4, <2>1 DEF Spends, InFlight, PostInv, SaleOfPost
  <2>3. \A m \in Charge \ {n} : Spends(m)' /\ posts'[m].ticket.credit # None
          => posts'[m].ticket.credit # credit
    BY <2>2 DEF PostInv, CreditInv
  <2>4. \A m \in InFlight' : posts'[m].here
    BY <1>4, <1>8, <2>1
  <2>5. \A m \in Charge :
          sales'[m] # NoSale /\ posts'[m].stage \in {"cleared", "over"}
          => m # n /\ Spends(m)'
    BY <1>4 DEF Spends
  <2>6. \A k, m \in Charge :
          /\ Spends(k)' /\ Spends(m)'
          /\ posts'[k].ticket.credit = posts'[m].ticket.credit
          /\ posts'[k].ticket.credit # None
          => k = m
    BY <1>4, <2>2, <2>3 DEF PostInv, CreditInv
  <2> QED
    BY <1>3, <2>3, <2>4, <2>5, <2>6 DEF CreditInv
<1> QED
  BY <1>6, <1>9, <1>10, <1>11 DEF PostInv

LEMMA SavesKeepsPosts ==
    ASSUME PostInv, NEW n \in Charge, ServerSaves(n)
    PROVE  PostInv'
<1>1. Becomes(n, "saved") /\ posts'[n].here = posts[n].here
  BY StageBecomes DEF ServerSaves, PostInv, Stages
<1>2. /\ posts[n].stage = "sent"
      /\ sales' = [sales EXCEPT ![n] = posts[n].ticket]
      /\ UNCHANGED <<submitting, orphaned, visits, credit>>
  BY DEF ServerSaves, storeVars, pastVars
<1>3. /\ sales' = [m \in Charge |-> sales'[m]]
      /\ sales'[n] = posts[n].ticket
      /\ \A m \in Charge \ {n} : sales'[m] = sales[m]
  BY <1>2 DEF PostInv, Shape
<1>4. Shape'
  BY <1>1, <1>2, <1>3, BecomesShape DEF PostInv, Shape
<1>5. \A m \in Charge : posts'[m].here = posts[m].here
  BY <1>1 DEF Becomes
<1>6. InFlight' = InFlight
  BY <1>1, <1>2 DEF InFlight, Becomes
<1>7. Mine' = Mine
  BY <1>1, <1>2, <1>5 DEF Mine, Unfinished, InFlight, Becomes
<1>8. SubmitInv'
  BY <1>2, <1>7 DEF PostInv, SubmitInv
<1>9. SaleOfPost'
  BY <1>1, <1>3 DEF PostInv, SaleOfPost, Becomes
<1>10. \A m \in Charge : Spends(m)' => Spends(m)
  BY <1>1, <1>2, <1>3 DEF Spends, Becomes
<1>11. \A m \in Charge : posts'[m].ticket = posts[m].ticket
  BY <1>1 DEF Becomes
<1>12. \A m \in Charge :
         sales'[m] # NoSale /\ posts'[m].stage \in {"cleared", "over"}
         => sales[m] # NoSale /\ posts[m].stage \in {"cleared", "over"}
  BY <1>1, <1>3 DEF Becomes
<1>13. \A m \in InFlight : m \in Charge
  BY DEF InFlight
<1>14. CreditInv'
  BY <1>2, <1>5, <1>6, <1>10, <1>11, <1>12, <1>13 DEF PostInv, CreditInv
<1> QED
  BY <1>4, <1>8, <1>9, <1>14 DEF PostInv

LEMMA RefusesKeepsPosts ==
    ASSUME PostInv, NEW n \in Charge, ServerRefuses(n)
    PROVE  PostInv'
<1>1. Becomes(n, "refused") /\ posts'[n].here = posts[n].here
  BY StageBecomes DEF ServerRefuses, PostInv, Stages
<1>2. /\ posts[n].stage = "sent"
      /\ UNCHANGED <<submitting, orphaned, visits, credit, sales>>
  BY DEF ServerRefuses, storeVars, pastVars, serverVars
<1>3. Shape'
  BY <1>1, <1>2, BecomesShape DEF PostInv, Shape
<1>4. \A m \in Charge : posts'[m].here = posts[m].here
  BY <1>1 DEF Becomes
<1>5. InFlight' = InFlight
  BY <1>1, <1>2 DEF InFlight, Becomes
<1>6. Mine' = Mine
  BY <1>1, <1>2, <1>4 DEF Mine, Unfinished, InFlight, Becomes
<1>7. SubmitInv'
  BY <1>2, <1>6 DEF PostInv, SubmitInv
<1>8. SaleOfPost'
  BY <1>1, <1>2 DEF PostInv, SaleOfPost, Becomes
<1>9. \A m \in Charge : Spends(m)' => Spends(m)
  BY <1>1, <1>2 DEF Spends, Becomes
<1>10. \A m \in Charge : posts'[m].ticket = posts[m].ticket
  BY <1>1 DEF Becomes
<1>11. \A m \in Charge :
         sales'[m] # NoSale /\ posts'[m].stage \in {"cleared", "over"}
         => sales[m] # NoSale /\ posts[m].stage \in {"cleared", "over"}
  BY <1>1, <1>2 DEF Becomes
<1>12. \A m \in InFlight : m \in Charge
  BY DEF InFlight
<1>13. CreditInv'
  BY <1>2, <1>4, <1>5, <1>9, <1>10, <1>11, <1>12 DEF PostInv, CreditInv
<1> QED
  BY <1>3, <1>7, <1>8, <1>13 DEF PostInv

LEMMA SuccessKeepsPosts ==
    ASSUME PostInv, NEW n \in Charge, HandleSaleSuccess(n)
    PROVE  PostInv'
<1>1. Becomes(n, "cleared") /\ posts'[n].here = posts[n].here
  BY StageBecomes DEF HandleSaleSuccess, PostInv, Stages
<1>2. /\ posts[n].stage = "saved" /\ credit' = None
      /\ UNCHANGED <<submitting, orphaned, visits, sales>>
  BY DEF HandleSaleSuccess, ClearCart, pastVars, serverVars
<1>3. Shape'
  BY <1>1, <1>2, BecomesShape DEF PostInv, Shape
<1>4. \A m \in Charge : posts'[m].here = posts[m].here
  BY <1>1 DEF Becomes
<1>5. InFlight' = InFlight \ {n}
  BY <1>1, <1>2 DEF InFlight, Becomes
<1>6. Mine' = Mine
  BY <1>1, <1>2, <1>4 DEF Mine, Unfinished, InFlight, Becomes
<1>7. SubmitInv'
  BY <1>2, <1>6 DEF PostInv, SubmitInv
<1>8. SaleOfPost'
  BY <1>1, <1>2 DEF PostInv, SaleOfPost, Becomes
<1>9. \A m \in Charge : Spends(m)' => Spends(m)
  BY <1>1, <1>2 DEF Spends, Becomes
<1>10. \A m \in Charge : posts'[m].ticket = posts[m].ticket
  BY <1>1 DEF Becomes
<1>11. \A m \in InFlight : m \in Charge
  BY DEF InFlight
<1>12. CreditInv'
  BY <1>2, <1>4, <1>5, <1>9, <1>10, <1>11 DEF PostInv, CreditInv
<1> QED
  BY <1>3, <1>7, <1>8, <1>12 DEF PostInv

LEMMA EndKeepsPosts ==
    ASSUME PostInv, NEW n \in Charge,
           SaleEnds(n) \/ SaleFails(n) \/ AnswerLost(n)
    PROVE  PostInv'
<1>1. /\ Answered(n) /\ posts[n].stage \in {"saved", "cleared", "refused"}
      /\ orphaned' \in BOOLEAN /\ (orphaned => orphaned')
      /\ ~orphaned' => posts[n].stage # "saved"
  BY DEF SaleEnds, SaleFails, AnswerLost, PostInv, Shape
<1>2. n \in Unfinished /\ UNCHANGED <<sales, visits, credit>>
  BY <1>1 DEF Unfinished, InFlight, Answered, serverVars, storeVars
<1>3. Becomes(n, "over") /\ ~posts'[n].here
  BY <1>1, AnswerBecomes DEF PostInv
<1>4. submitting' \in BOOLEAN
  BY <1>1 DEF Answered
<1>5. Shape'
  BY <1>1, <1>2, <1>3, <1>4, BecomesShape DEF PostInv, Shape
<1>6. SubmitInv'
  BY <1>1, <1>2, AnsweredSubmit DEF PostInv
<1>7. SaleOfPost'
  BY <1>2, <1>3 DEF PostInv, SaleOfPost, Becomes
<1>8. CreditInv'
  <2> SUFFICES ASSUME ~orphaned'
               PROVE  CreditInv'
    BY DEF CreditInv
  <2>1. ~orphaned
    BY <1>1
  <2>2. \A m \in InFlight' : posts'[m].here
    <3>1. InFlight' = InFlight \ {n}
      BY <1>3 DEF InFlight, Becomes
    <3> QED
      BY <2>1, <3>1, <1>3 DEF PostInv, CreditInv, Becomes, InFlight
  <2>3. \A m \in Charge : posts'[m].ticket = posts[m].ticket
    BY <1>3 DEF Becomes
  <2>4. \A m \in Charge : Spends(m)' => Spends(m)
    BY <1>2, <1>3 DEF Spends, Becomes
  <2>5. ASSUME NEW m \in Charge, sales'[m] # NoSale,
               posts'[m].stage \in {"cleared", "over"},
               posts'[m].ticket.credit # None
        PROVE  credit' # posts'[m].ticket.credit
    <3>1. CASE m = n
      <4>1. posts[n].stage = "cleared"
        BY <1>1, <1>2, <2>5, <3>1 DEF PostInv, SaleOfPost
      <4> QED
        BY <1>2, <2>1, <2>3, <2>5, <3>1, <4>1 DEF PostInv, CreditInv
    <3>2. CASE m # n
      BY <1>1, <1>2, <1>3, <2>1, <2>3, <2>5, <3>2 DEF PostInv, CreditInv,
         Becomes
    <3> QED
      BY <3>1, <3>2
  <2> QED
    BY <2>1, <2>2, <2>3, <2>4, <2>5 DEF PostInv, CreditInv
<1> QED
  BY <1>5, <1>6, <1>7, <1>8 DEF PostInv

LEMMA GoneKeepsPosts ==
    ASSUME PostInv, Leave \/ Reload
    PROVE  PostInv'
<1>1. \A m \in Charge :
        /\ posts[m] \in Post(posts[m].ticket, posts[m].asked)
        /\ posts[m].stage \in Stages
  BY DEF PostInv, Shape, Post, Stages
<1>2. /\ sales' = sales /\ submitting' = FALSE /\ visits' = visits + 1
      /\ orphaned' = (orphaned \/ InFlight # {})
      /\ credit' \in {credit, None}
  BY DEF Leave, Reload, storeVars, serverVars
<1>3. ASSUME NEW m \in Charge
      PROVE  /\ posts'[m].ticket = posts[m].ticket
             /\ posts'[m] \in Post(posts[m].ticket, posts[m].asked)
             /\ posts'[m].stage \in {posts[m].stage, "over"}
             /\ m \notin Unfinished => posts'[m].stage = posts[m].stage
             /\ m \in Unfinished' => ~posts'[m].here
  <2>1. CASE Leave
    <3>1. posts'[m] = [posts[m] EXCEPT !.here = FALSE]
      BY <2>1 DEF Leave
    <3> QED
      BY <1>1, <3>1 DEF Post
  <2>2. CASE Reload
    <3>1. posts'[m] = IF m \in Unfinished
                      THEN [posts[m] EXCEPT !.stage = "over", !.here = FALSE]
                      ELSE posts[m]
      BY <2>2 DEF Reload
    <3>2. CASE m \in Unfinished
      BY <1>1, <3>1, <3>2 DEF Post, Unfinished, InFlight
    <3>3. CASE m \notin Unfinished
      BY <1>1, <3>1, <3>3 DEF Unfinished, InFlight
    <3> QED
      BY <3>2, <3>3
  <2> QED
    BY <2>1, <2>2
<1>4. posts' = [m \in Charge |-> posts'[m]]
  BY DEF Leave, Reload
<1>5. \A m \in Charge : posts'[m] \in Post(posts'[m].ticket, posts'[m].asked)
  BY <1>3 DEF Post
<1>6. visits' \in Int
  BY <1>2 DEF PostInv, Shape
<1>7. submitting' \in BOOLEAN /\ orphaned' \in BOOLEAN
  BY <1>2
<1>8. Shape'
  BY <1>2, <1>4, <1>5, <1>6, <1>7 DEF PostInv, Shape
<1>9. Mine' = {}
  BY <1>3 DEF Mine, Unfinished, InFlight
<1>10. SubmitInv'
  BY <1>2, <1>9 DEF SubmitInv
<1>11. SaleOfPost'
  BY <1>2, <1>3 DEF PostInv, SaleOfPost
<1>12. CreditInv'
  <2> SUFFICES ASSUME ~orphaned'
               PROVE  CreditInv'
    BY DEF CreditInv
  <2>1. ~orphaned /\ InFlight = {}
    BY <1>2
  <2>2. \A m \in Charge :
          \/ posts'[m].stage = posts[m].stage
          \/ posts[m].stage = "cleared" /\ posts'[m].stage = "over"
    <3>1. \A m \in Charge : m \in Unfinished => posts[m].stage = "cleared"
      BY <2>1 DEF Unfinished
    <3> QED
      BY <1>3, <3>1
  <2>3. InFlight' = {}
    BY <2>1, <2>2 DEF InFlight
  <2>4. \A m \in Charge : Spends(m)' <=> Spends(m)
    BY <1>2, <2>2 DEF Spends
  <2> QED
    BY <1>2, <1>3, <2>1, <2>2, <2>3, <2>4 DEF PostInv, CreditInv
<1> QED
  BY <1>8, <1>10, <1>11, <1>12 DEF PostInv

LEMMA ExchangeKeepsPosts ==
    ASSUME PostInv, NEW r \in Return, SetExchangeCredit(r)
    PROVE  PostInv'
<1>1. /\ PostsStay /\ credit' = r
      /\ \A n \in Charge : posts[n] # NoPost => posts[n].ticket.credit # r
  BY DEF SetExchangeCredit, PostsStay, postVars, serverVars, pastVars
<1>2. InFlight' = InFlight /\ Mine' = Mine
  BY <1>1 DEF InFlight, Unfinished, Mine, PostsStay
<1>3. Shape' /\ SubmitInv' /\ SaleOfPost'
  BY <1>1, <1>2 DEF PostInv, PostsStay, Shape, SubmitInv, SaleOfPost
<1>4. \A n \in Charge : posts[n].stage \in {"cleared", "over"} => posts[n] # NoPost
  BY DEF NoPost
<1>5. CreditInv'
  BY <1>1, <1>2, <1>4 DEF PostInv, PostsStay, CreditInv, Spends
<1> QED
  BY <1>3, <1>5 DEF PostInv

LEMMA NextKeepsPosts ==
    ASSUME PostInv, [Next]_vars
    PROVE  PostInv'
<1>1. CASE Quiet
  BY <1>1, StayKeepsPosts DEF Quiet
<1>2. CASE SubmitSale
  BY <1>2, SubmitKeepsPosts
<1>3. ASSUME NEW n \in Charge, Server(n) \/ Answer(n)
      PROVE  PostInv'
  BY <1>3, SavesKeepsPosts, RefusesKeepsPosts, SuccessKeepsPosts, EndKeepsPosts
     DEF Server, Answer
<1>4. CASE \/ ServerHolds \/ HoldFails
           \/ \E k \in DOMAIN held : HoldAndRetrieve(k)
  BY <1>4, StayKeepsPosts DEF ServerHolds, HoldFails, HoldAndRetrieve,
     HoldOnly, PostsStay, CreditStays, storeVars, postVars, pastVars
<1>5. CASE SwapAnswered \/ RestoreSaleToCart
  BY <1>5, StayKeepsPosts DEF SwapAnswered, RestoreSaleToCart, ClearCart,
     ReplaceCart, PostsStay, CreditStays, postVars, serverVars, pastVars
<1>6. CASE Leave \/ Reload
  BY <1>6, GoneKeepsPosts
<1>7. ASSUME NEW r \in Return, SetExchangeCredit(r)
      PROVE  PostInv'
  BY <1>7, ExchangeKeepsPosts
<1>8. CASE UNCHANGED vars
  BY <1>8, StayKeepsPosts DEF vars, PostsStay, CreditStays, storeVars,
     postVars, serverVars, pastVars
<1> QED
  BY <1>1, <1>2, <1>3, <1>4, <1>5, <1>6, <1>7, <1>8, NextIsQuietOrLoud
     DEF Loud

----------------------------------------------------------------------------
(* The cart that is swapped, and the snapshot. *)

LEMMA InitSwapDisk ==
    ASSUME Init
    PROVE  SwapInv /\ DiskInv
<1>1. held \in Seq(Range(held))
  BY EmptySeq DEF Init
<1>2. stored = Snapshot(cart) /\ saving = None
  BY EmptyDisk DEF Init
<1> QED
  BY <1>1, <1>2 DEF SwapInv, DiskInv, SnapshotIsCart, Init, NoHold

LEMMA StayKeepsSwap ==
    ASSUME SwapInv, SwapsStay
    PROVE  SwapInv'
BY DEF SwapInv, SwapsStay

LEMMA HeldGrows ==
    ASSUME held \in Seq(Range(held)), NEW c, held' = Append(held, c)
    PROVE  /\ held' \in Seq(Range(held'))
           /\ Range(held) \subseteq Range(held') /\ c \in Range(held')
<1> DEFINE T == Range(held) \cup {c}
<1>1. held \in Seq(T) /\ c \in T
  BY SeqMonotonic
<1>2. /\ held' \in Seq(T) /\ Len(held') = Len(held) + 1
      /\ \A k \in 1..Len(held) : held'[k] = held[k]
      /\ held'[Len(held) + 1] = c
  BY <1>1, AppendProperties
<1>3. /\ DOMAIN held = 1..Len(held) /\ Len(held) \in Nat
      /\ DOMAIN held' = 1..Len(held')
  BY <1>1, <1>2, LenProperties
<1>4. Range(held) \subseteq Range(held')
  BY <1>2, <1>3 DEF Range
<1>5. c \in Range(held')
  BY <1>2, <1>3 DEF Range
<1>6. T \subseteq Range(held')
  BY <1>4, <1>5
<1> QED
  BY <1>2, <1>4, <1>5, <1>6, SeqMonotonic

LEMMA NextKeepsSwap ==
    ASSUME SwapInv, [Next]_vars
    PROVE  SwapInv'
<1>1. CASE Quiet
  BY <1>1, StayKeepsSwap DEF Quiet
<1>2. CASE \/ SubmitSale \/ Leave \/ \E r \in Return : SetExchangeCredit(r)
           \/ \E n \in Charge : Server(n) \/ Answer(n)
  BY <1>2, StayKeepsSwap DEF SubmitSale, Leave, SetExchangeCredit, Server,
     Answer, ServerSaves, ServerRefuses, HandleSaleSuccess, SaleEnds, SaleFails,
     AnswerLost, Answered, SwapsStay, holdVars, serverVars
<1>3. CASE ServerHolds
  <2>1. CASE swap' = swap /\ held' = Append(held, AsHeld(hold.cart))
    BY <2>1, HeldGrows DEF SwapInv
  <2>2. CASE /\ swap.stage = "sent" /\ swap' = [swap EXCEPT !.stage = "saved"]
             /\ held' = Append(held, AsHeld(swap.cart))
    <3>1. swap'.cart = swap.cart /\ swap'.stage = "saved" /\ swap.stage # "none"
          /\ swap'.back = swap.back
          /\ swap' = [stage |-> swap'.stage, cart |-> swap'.cart,
                      back |-> swap'.back]
      BY <2>2 DEF SwapInv
    <3> QED
      BY <2>2, <3>1, HeldGrows DEF SwapInv
  <2> QED
    BY <1>3, <2>1, <2>2 DEF ServerHolds
<1>4. CASE HoldFails
  BY <1>4 DEF HoldFails, SwapInv, NoHold
<1>5. CASE RestoreSaleToCart \/ Reload
  <2>1. swap' = NoHold /\ held' = held
    BY <1>5 DEF RestoreSaleToCart, Reload, serverVars
  <2> QED
    BY <2>1 DEF SwapInv, NoHold
<1>8. CASE SwapAnswered
  <2>1. /\ swap.stage = "saved" /\ held' = held
        /\ swap'.stage = "cleared" /\ swap'.cart = swap.cart /\ swap'.back = swap.back
        /\ swap' = [stage |-> swap'.stage, cart |-> swap'.cart, back |-> swap'.back]
    BY <1>8 DEF SwapAnswered, SwapInv, serverVars
  <2> QED
    BY <2>1 DEF SwapInv
<1>6. ASSUME NEW k \in DOMAIN held, HoldAndRetrieve(k)
      PROVE  SwapInv'
  BY <1>6 DEF HoldAndRetrieve, SwapInv, Range
<1>7. CASE UNCHANGED vars
  BY <1>7, StayKeepsSwap DEF vars, SwapsStay, holdVars, serverVars
<1> QED
  BY <1>1, <1>2, <1>3, <1>4, <1>5, <1>6, <1>7, <1>8, NextIsQuietOrLoud DEF Loud

LEMMA NextKeepsDisk ==
    ASSUME DiskInv, [Next]_vars
    PROVE  DiskInv'
<1> SUFFICES DiskStep
  BY DEF DiskStep
<1>1. CASE Quiet
  BY <1>1 DEF Quiet
<1>2. CASE \/ SubmitSale \/ \E r \in Return : SetExchangeCredit(r)
           \/ ServerHolds \/ HoldFails
           \/ \E k \in DOMAIN held : HoldAndRetrieve(k)
           \/ \E n \in Charge : Server(n)
  BY <1>2, SameDisk DEF SubmitSale, SetExchangeCredit, Server, ServerSaves,
     ServerRefuses, ServerHolds, HoldFails, HoldAndRetrieve, HoldOnly,
     storeVars, pageVars, diskVars, Mounted
<1>3. ASSUME NEW n \in Charge, SaleEnds(n) \/ SaleFails(n) \/ AnswerLost(n)
      PROVE  DiskStep
  BY <1>3, SameDisk DEF SaleEnds, SaleFails, AnswerLost, Answered, storeVars,
     diskVars, Mounted
<1>4. ASSUME NEW n \in Charge, HandleSaleSuccess(n)
      PROVE  DiskStep
  BY <1>4, SetCartDisk DEF HandleSaleSuccess, ClearCart, pageVars
<1>5. CASE SwapAnswered
  BY <1>5, SetCartDisk DEF SwapAnswered, ClearCart, pageVars
<1>9. CASE RestoreSaleToCart
  <2>1. SetCart(swap.back) /\ (Mounted' => Mounted)
    BY <1>9 DEF RestoreSaleToCart, ReplaceCart, Mounted
  <2> QED
    BY <2>1, CartDisk
<1>6. CASE Leave
  BY <1>6 DEF Leave, DiskStep, DiskInv, SnapshotIsCart, Mounted
<1>7. CASE Reload
  BY <1>7, EmptyDisk DEF Reload, DiskStep, DiskInv, SnapshotIsCart
<1>8. CASE UNCHANGED vars
  BY <1>8, SameDisk DEF vars, storeVars, diskVars, pageVars, Mounted
<1> QED
  BY <1>1, <1>2, <1>3, <1>4, <1>5, <1>6, <1>7, <1>8, <1>9, NextIsQuietOrLoud
     DEF Loud, Answer

----------------------------------------------------------------------------
THEOREM SpecInv == Spec => []Inv
<1>1. Init => Inv
  BY InitPosts, InitSwapDisk DEF Inv
<1>2. Inv /\ [Next]_vars => Inv'
  BY NextKeepsPosts, NextKeepsSwap, NextKeepsDisk DEF Inv
<1> QED
  BY <1>1, <1>2, PTL DEF Spec

(* One press of a payment button is one request: the page never runs two   *)
(* handlers of a submission, and isSubmitting stays set until the handler  *)
(* has ended, whatever answers late, whenever the page is left, and while  *)
(* the handler waits after it cleared the cart.                            *)
THEOREM OneAtATime == Spec => []OneSaleInFlight
<1>1. Inv => OneSaleInFlight
  <2> SUFFICES ASSUME Inv
               PROVE  Cardinality(Mine) <= 1 /\ (submitting <=> Mine # {})
    BY DEF OneSaleInFlight, Mine
  <2>1. CASE Mine = {}
    BY <2>1, FS_EmptySet DEF Inv, PostInv, SubmitInv
  <2>2. CASE Mine # {}
    <3>1. PICK n \in Mine : Mine = {n}
      BY <2>2 DEF Inv, PostInv, SubmitInv
    <3>2. Cardinality(Mine) = 1
      BY <3>1, FS_Singleton
    <3> QED
      BY <2>2, <3>2 DEF Inv, PostInv, SubmitInv
  <2> QED
    BY <2>1, <2>2
<1> QED
  BY <1>1, SpecInv, PTL

(* While every answer reaches its page, no exchange credit pays for two    *)
(* sales: the page drops it with the cart, and the history page never      *)
(* hands out a credit a submission already carries.                        *)
THEOREM NoCreditTwice == Spec => []CreditSpentOnce
<1>1. Inv => CreditSpentOnce
  BY DEF Inv, PostInv, CreditInv, SaleOfPost, CreditSpentOnce, Spends
<1> QED
  BY <1>1, SpecInv, PTL

(* Whatever order the writes of IndexedDB land or fail in, between leaving *)
(* and coming back and across reloads: what is stored is the cart on the   *)
(* page, or the write of just that cart is outstanding.                    *)
THEOREM SnapshotIsTheCart == Spec => []SnapshotIsCart
<1>1. Inv => SnapshotIsCart
  BY DEF Inv, DiskInv
<1> QED
  BY <1>1, SpecInv, PTL

(* "Hold & Retrieve" gives up a cart only for one the server holds, and    *)
(* between the two changes of the store the server holds both carts.       *)
THEOREM SwapIsSafe == Spec => SwapKeepsTheCart
<1> DEFINE Swaps ==
      \/ swap.stage = "cleared"
      \/ swap.stage # "none" /\ swap' # swap /\ cart' # cart /\ visits' = visits
      => {AsHeld(swap.cart), swap.back} \subseteq Range(held)
<1>1. Inv /\ [Next]_vars => [Swaps]_vars
  <2> SUFFICES ASSUME Inv, Next, swap.stage # "none", swap' # swap,
                      cart' # cart, visits' = visits, swap.stage # "cleared"
               PROVE  {AsHeld(swap.cart), swap.back} \subseteq Range(held)
    BY DEF Inv, SwapInv
  <2>1. ~Quiet
    BY DEF Quiet, SwapsStay
  <2>2. ~SubmitSale /\ ~Leave /\ \A r \in Return : ~SetExchangeCredit(r)
    BY DEF SubmitSale, Leave, SetExchangeCredit, holdVars
  <2>3. \A n \in Charge : ~Server(n) /\ ~Answer(n)
    BY DEF Server, Answer, ServerSaves, ServerRefuses, SaleEnds,
       HandleSaleSuccess, SaleFails, AnswerLost, Answered, holdVars
  <2>4. ~ServerHolds /\ ~HoldFails /\ \A k \in DOMAIN held : ~HoldAndRetrieve(k)
    <3>1. ~HoldOnly
      BY DEF HoldOnly, storeVars
    <3> QED
      BY <3>1 DEF ServerHolds, HoldFails, HoldAndRetrieve
  <2>5. ~Reload
    <3>1. visits # visits + 1
      BY DEF Inv, PostInv, Shape
    <3> QED
      BY <3>1 DEF Reload
  <2>6. SwapAnswered \/ RestoreSaleToCart
    BY <2>1, <2>2, <2>3, <2>4, <2>5, NextIsQuietOrLoud DEF Loud
  <2>7. swap.stage = "saved"
    BY <2>6 DEF SwapAnswered, RestoreSaleToCart
  <2> QED
    BY <2>7 DEF Inv, SwapInv
<1> QED
  BY <1>1, SpecInv, PTL DEF Spec, SwapKeepsTheCart

----------------------------------------------------------------------------
(* Types.  What a cart costs is a sum over its items: a natural number, by *)
(* the facts of SumProofs.                                                 *)

LEMMA SumOverIs ==
    ASSUME NEW f
    PROVE  SumOver(f) = SumFunctionOnSet(f, DOMAIN f)
BY DEF SumOver, FoldFunction, SumFunctionOnSet

LEMMA ProductIsNat ==
    ASSUME NEW a \in Nat, NEW b \in Nat
    PROVE  a * b \in Nat
OBVIOUS

LEMMA QuotientIsNat ==
    ASSUME NEW a \in Nat
    PROVE  a \div 100 \in Nat
OBVIOUS

LEMMA PercentIs == Percent \subseteq 0..100
BY RegisterAssumption DEF Percent

(* No item has more units than the cart. *)
LEMMA UnitsBound ==
    ASSUME NEW c \in Cart, NEW i \in Items
    PROVE  Units(c) \in Nat /\ c.qty[i] \in Nat /\ c.qty[i] <= Units(c)
<1>1. /\ DOMAIN c.qty = Items /\ \A j \in Items : c.qty[j] \in Nat
      /\ IsFiniteSet(Items) /\ IsFiniteSet(Items \ {i})
  BY RegisterAssumption, FS_Subset DEF Cart, Basket
<1>2. Units(c) = SumFunctionOnSet(c.qty, Items)
  BY <1>1, SumOverIs DEF Units
<1>3. \A j \in Items : c.qty[j] \in Int
  BY <1>1
<1>4. Units(c) = c.qty[i] + SumFunctionOnSet(c.qty, Items \ {i})
  BY <1>1, <1>2, <1>3, SumOneOut
<1>5. SumFunctionOnSet(c.qty, Items \ {i}) \in Nat
  <2>1. \A j \in Items \ {i} : c.qty[j] \in Nat
    BY <1>1
  <2> QED BY <1>1, <2>1, SumNat
<1> QED BY <1>1, <1>4, <1>5

LEMMA SubtotalIsNat ==
    ASSUME NEW c \in Cart
    PROVE  Subtotal(c) \in Nat
<1> DEFINE f == [i \in Items |-> (Price * c.qty[i] * (100 - c.line[i])) \div 100]
<1>1. ASSUME NEW i \in Items
      PROVE  f[i] \in Nat
  <2>1. Price \in Nat /\ c.qty[i] \in Nat
    BY RegisterAssumption DEF Cart, Basket
  <2>2. 100 - c.line[i] \in Nat
    <3>1. c.line[i] \in Percent
      BY DEF Cart
    <3>2. c.line[i] \in 0..100
      BY <3>1, PercentIs
    <3> QED BY <3>2
  <2>3. Price * c.qty[i] \in Nat
    BY <2>1, ProductIsNat
  <2>4. (Price * c.qty[i]) * (100 - c.line[i]) \in Nat
    BY <2>2, <2>3, ProductIsNat
  <2> QED BY <2>4, QuotientIsNat
<1>2. DOMAIN f = Items
  OBVIOUS
<1>3. Subtotal(c) = SumFunctionOnSet(f, Items)
  BY <1>2, SumOverIs DEF Subtotal
<1> HIDE DEF f
<1> QED BY <1>1, <1>3, SumNat, RegisterAssumption

LEMMA AmountsAreNat ==
    ASSUME NEW c \in Cart
    PROVE  /\ CartDiscountEffective(c) \in Nat /\ Total(c) \in Int
           /\ \A p \in Percent : AmountFor(c, p) \in Nat
<1>1. Subtotal(c) \in Nat
  BY SubtotalIsNat
<1>2. ASSUME NEW p \in Percent
      PROVE  (Subtotal(c) * p) \div 100 \in Nat
  <2>1. p \in Nat
    BY PercentIs
  <2>2. Subtotal(c) * p \in Nat
    BY <1>1, <2>1, ProductIsNat
  <2> QED BY <2>2, QuotientIsNat
<1>3. c.percent \in Percent /\ c.amount \in Nat
  BY DEF Cart
<1>4. CartDiscountEffective(c) \in Nat
  BY <1>2, <1>3 DEF CartDiscountEffective
<1> QED BY <1>1, <1>2, <1>4 DEF Total, AmountFor

----------------------------------------------------------------------------
(* Carts.                                                                  *)

LEMMA CartIs ==
    ASSUME NEW c \in Cart, NEW i \in Items
    PROVE  /\ \A n \in 0..MaxUnits : Put(c, i, n) \in Cart
           /\ \A p \in Percent : LineDiscount(c, i, p) \in Cart
<1>1. 0 \in Percent
  BY DEF Percent
<1> QED BY <1>1 DEF Put, LineDiscount, Cart, Basket

LEMMA DiscountIs ==
    ASSUME NEW c \in Cart
    PROVE  /\ \A p \in Percent : PercentDiscount(c, p) \in Cart
           /\ \A a \in Nat : AmountDiscount(c, a) \in Cart
           /\ WithManager(c) \in Cart
           /\ [c EXCEPT !.mgr = FALSE] \in Cart
           /\ [c EXCEPT !.percent = 0] \in Cart
           /\ AsHeld(c) \in Cart
<1>1. 0 \in Percent
  BY DEF Percent
<1>2. CartDiscountEffective(c) \in Nat
  BY AmountsAreNat
<1> QED BY <1>1, <1>2 DEF PercentDiscount, AmountDiscount, WithManager, AsHeld, Cart

LEMMA NoCartIs == NoCart \in Cart /\ 0 \in Percent /\ Empty \in Basket
BY RegisterAssumption DEF NoCart, Empty, Cart, Basket, Percent

LEMMA SnapshotIs ==
    ASSUME NEW c \in Cart
    PROVE  Snapshot(c) \in Cart
BY NoCartIs DEF Snapshot

----------------------------------------------------------------------------
(* Types.  Three wrong PINs close the dialog, so fewer are remembered.     *)

TypeInv == TypeOK /\ pin.fails # MaxFailures

StoreT == /\ cart \in Cart /\ credit \in Return \cup {None}
          /\ promos \in Basket \cup {None}
EvalT == evals \subseteq Basket /\ due \in BOOLEAN
PostRow == [stage : {"none", "sent", "saved", "refused", "cleared", "over"},
            ticket : Ticket \cup {None}, asked : Int, here : BOOLEAN]
PostT == submitting \in BOOLEAN /\ posts \in [Charge -> PostRow]
HoldT == hold \in Hold /\ swap \in Hold
PinRow == [stage : {"none", "typing", "sent"}, shown : BOOLEAN,
           item : Items \cup {None}, rate : Percent, amount : Nat,
           fails : 0..(MaxFailures - 1)]
ScreenT == screen \in {"terminal", "charge", "pay", "retrieve", "away"}
DiskT == stored \in Cart /\ {saving, restoring} \subseteq Cart \cup {None}
ServerT == /\ sales \in [Charge -> Ticket \cup {None}]
           /\ held \in Seq(Cart) /\ Len(held) <= MaxHolds
PastT == /\ visits \in 0..MaxVisits /\ orphaned \in BOOLEAN
         /\ uses \in Habits
UndoT == undo \in Cart \cup {None}

LEMMA TypeInvIs ==
    TypeInv <=>
        /\ StoreT /\ EvalT /\ PostT /\ HoldT /\ DiskT /\ ServerT /\ PastT
        /\ pin \in PinRow /\ ScreenT /\ UndoT
<1> DEFINE Pins == [stage : {"none", "typing", "sent"}, shown : BOOLEAN,
                    item : Items \cup {None}, rate : Percent, amount : Nat,
                    fails : 0..MaxFailures]
<1>1. pin \in Pins /\ pin.fails # MaxFailures <=> pin \in PinRow
  <2>1. \A n : n \in 0..MaxFailures /\ n # MaxFailures
               <=> n \in 0..(MaxFailures - 1)
    BY DEF MaxFailures
  <2> QED BY <2>1 DEF PinRow
<1>2. TypeOK <=>
        /\ StoreT /\ EvalT /\ PostT /\ HoldT /\ DiskT /\ ServerT /\ PastT
        /\ pin \in Pins /\ ScreenT /\ UndoT
  BY DEF TypeOK, StoreT, EvalT, PostT, HoldT, DiskT, ServerT, PastT,
         PostRow, ScreenT, UndoT, NoSale
<1> QED BY <1>1, <1>2 DEF TypeInv

(* What a step leaves alone keeps its type. *)
LEMMA SameTypes ==
    ASSUME TypeInv
    PROVE  /\ UNCHANGED storeVars => StoreT'
           /\ UNCHANGED evalVars => EvalT'
           /\ UNCHANGED postVars => PostT'
           /\ UNCHANGED holdVars => HoldT'
           /\ UNCHANGED diskVars => DiskT'
           /\ UNCHANGED serverVars => ServerT'
           /\ UNCHANGED pastVars => PastT'
           /\ UNCHANGED pin => (pin \in PinRow)'
           /\ UNCHANGED screen => ScreenT'
           /\ UNCHANGED undo => UndoT'
<1>1. /\ StoreT /\ EvalT /\ PostT /\ HoldT /\ DiskT /\ ServerT /\ PastT
      /\ pin \in PinRow /\ ScreenT /\ UndoT
  BY TypeInvIs
<1>2. UNCHANGED storeVars => StoreT'
  BY <1>1 DEF StoreT, storeVars
<1>3. UNCHANGED evalVars => EvalT'
  BY <1>1 DEF EvalT, evalVars
<1>4. UNCHANGED postVars => PostT'
  BY <1>1 DEF PostT, postVars
<1>5. UNCHANGED holdVars => HoldT'
  BY <1>1 DEF HoldT, holdVars
<1>6. UNCHANGED diskVars => DiskT'
  BY <1>1 DEF DiskT, diskVars
<1>7. UNCHANGED serverVars => ServerT'
  BY <1>1 DEF ServerT, serverVars
<1>8. UNCHANGED pastVars => PastT'
  BY <1>1 DEF PastT, pastVars
<1>9. /\ UNCHANGED pin => (pin \in PinRow)'
      /\ UNCHANGED screen => ScreenT'
      /\ UNCHANGED undo => UndoT'
  BY <1>1 DEF ScreenT, UndoT, PinRow
<1> QED BY <1>2, <1>3, <1>4, <1>5, <1>6, <1>7, <1>8, <1>9

LEMMA TypeInvNext ==
    TypeInv' <=>
        /\ StoreT' /\ EvalT' /\ PostT' /\ HoldT' /\ DiskT' /\ ServerT' /\ PastT'
        /\ (pin \in PinRow)' /\ ScreenT' /\ UndoT'
BY TypeInvIs, PTL

(* The cart changes to another one, and with it at most the evaluation     *)
(* timer, the credit, the promotions or what the toast would bring back.   *)
LEMMA NewCart ==
    ASSUME TypeInv, NEW c \in Cart, SetCart(c),
           credit' \in {credit, None}, promos' \in {promos, None},
           undo' \in {undo, None, cart}, evals' = evals, due' \in BOOLEAN,
           restoring' \in {restoring, None}, UNCHANGED <<serverVars, pastVars>>,
           PostT', HoldT', (pin \in PinRow)', ScreenT'
    PROVE  TypeInv'
<1>1. StoreT /\ EvalT /\ DiskT /\ UndoT
  BY TypeInvIs
<1>2. cart' \in Cart /\ stored' \in Cart /\ saving' \in Cart \cup {None}
  BY <1>1, SnapshotIs DEF SetCart, DiskT
<1>3. ServerT' /\ PastT'
  BY SameTypes
<1>4. StoreT' /\ DiskT'
  BY <1>1, <1>2 DEF StoreT, DiskT
<1>5. EvalT' /\ UndoT'
  BY <1>1 DEF EvalT, UndoT, StoreT
<1> QED BY <1>3, <1>4, <1>5, TypeInvNext

LEMMA ScanTypes ==
    ASSUME TypeInv, NEW i \in Items, Scan(i)
    PROVE  TypeInv'
<1>1. cart \in Cart /\ MaxUnits \in Nat
  BY TypeInvIs, RegisterAssumption DEF StoreT
<1>2. cart.qty[i] + 1 \in 0..MaxUnits
  BY <1>1, UnitsBound DEF Scan
<1>3. Put(cart, i, cart.qty[i] + 1) \in Cart
  BY <1>1, <1>2, CartIs
<1>4. /\ SetCart(Put(cart, i, cart.qty[i] + 1)) /\ due' = TRUE
      /\ credit' = credit /\ promos' = promos /\ evals' = evals
      /\ undo' = undo /\ restoring' = restoring
      /\ UNCHANGED <<postVars, holdVars, pin, screen, serverVars, pastVars>>
  BY DEF Scan, pageVars
<1>5. PostT' /\ HoldT' /\ (pin \in PinRow)' /\ ScreenT'
  BY <1>4, SameTypes
<1> QED BY <1>3, <1>4, <1>5, NewCart

LEMMA EditTypes ==
    ASSUME TypeInv, NEW c \in Cart, Edit(c) \/ SetDiscount(c)
    PROVE  TypeInv'
<1>1. /\ SetCart(c) /\ due' \in {due, TRUE}
      /\ credit' = credit /\ promos' = promos /\ evals' = evals
      /\ undo' = undo /\ restoring' = restoring
      /\ UNCHANGED <<postVars, holdVars, pin, screen, serverVars, pastVars>>
  BY DEF Edit, SetDiscount, pageVars, evalVars
<1>2. PostT' /\ HoldT' /\ (pin \in PinRow)' /\ ScreenT'
  BY <1>1, SameTypes
<1>3. due' \in BOOLEAN
  BY <1>1, TypeInvIs DEF EvalT
<1> QED BY <1>1, <1>2, <1>3, NewCart

LEMMA FillingTypes ==
    ASSUME TypeInv, NEW i \in Items,
           \/ RemoveItem(i) \/ UpdateQuantity(i)
           \/ \E p \in Rates : ApplyLineDiscount(i, p)
    PROVE  TypeInv'
<1>1. cart \in Cart /\ MaxUnits \in Nat
  BY TypeInvIs, RegisterAssumption DEF StoreT
<1>2. CASE RemoveItem(i)
  <2>1. Put(cart, i, 0) \in Cart
    BY <1>1, CartIs
  <2> QED BY <1>2, <2>1, EditTypes DEF RemoveItem
<1>3. CASE UpdateQuantity(i)
  <2>1. cart.qty[i] - 1 \in 0..MaxUnits
    BY <1>1, <1>3 DEF UpdateQuantity, Cart, Basket
  <2>2. Put(cart, i, cart.qty[i] - 1) \in Cart
    BY <1>1, <2>1, CartIs
  <2> QED BY <1>3, <2>2, EditTypes DEF UpdateQuantity
<1>4. ASSUME NEW p \in Rates, ApplyLineDiscount(i, p)
      PROVE  TypeInv'
  <2>1. p \in Percent
    BY DEF Percent
  <2>2. LineDiscount(cart, i, p) \in Cart
    BY <1>1, <2>1, CartIs
  <2> QED BY <1>4, <2>2, EditTypes DEF ApplyLineDiscount
<1> QED BY <1>2, <1>3, <1>4

LEMMA DiscountingTypes ==
    ASSUME TypeInv,
           \/ \E p \in Rates : ApplyCartDiscount(p)
           \/ SwitchDiscountMode \/ ClearCartDiscount
    PROVE  TypeInv'
<1>1. cart \in Cart /\ Percent = Rates \cup {0}
  BY TypeInvIs DEF StoreT, Percent
<1>2. ASSUME NEW p \in Rates, ApplyCartDiscount(p)
      PROVE  TypeInv'
  <2>1. PercentDiscount(cart, p) \in Cart
    BY <1>1, DiscountIs
  <2>2. AmountDiscount(cart, AmountFor(cart, p)) \in Cart
    BY <1>1, DiscountIs, AmountsAreNat
  <2> QED BY <1>2, <2>1, <2>2, EditTypes DEF ApplyCartDiscount
<1>3. PercentDiscount(cart, 0) \in Cart
  BY <1>1, DiscountIs
<1>4. [PercentDiscount(cart, 0) EXCEPT !.mgr = FALSE] \in Cart
  BY <1>3, DiscountIs
<1>5. CASE SwitchDiscountMode
  BY <1>3, <1>5, EditTypes DEF SwitchDiscountMode
<1>6. CASE ClearCartDiscount
  BY <1>4, <1>6, EditTypes DEF ClearCartDiscount
<1> QED BY <1>2, <1>5, <1>6

----------------------------------------------------------------------------
(* The manager's PIN.                                                      *)

LEMMA PinOnlyTypes ==
    ASSUME TypeInv, PinOnly, pin' \in PinRow
    PROVE  TypeInv'
<1>1. UNCHANGED <<storeVars, evalVars, postVars, holdVars, screen, undo,
                  diskVars, serverVars, pastVars>>
  BY DEF PinOnly
<1> QED BY <1>1, SameTypes, TypeInvNext DEF PinRow

LEMMA AskTypes ==
    ASSUME TypeInv, NEW i \in Items \cup {None}, NEW p \in Rates,
           AskManager(i, p)
    PROVE  TypeInv'
<1>1. cart \in Cart /\ pin \in PinRow /\ p \in Percent
  BY TypeInvIs DEF StoreT, Percent
<1>2. PICK a \in {0} \cup (IF i = None THEN {AmountFor(cart, p)} ELSE {}),
           n \in {0, pin.fails} :
         pin' = [NoPin EXCEPT !.stage = "typing", !.shown = TRUE, !.item = i,
                              !.rate = p, !.amount = a, !.fails = n]
  BY DEF AskManager
<1>3. a \in Nat
  BY <1>1, <1>2, AmountsAreNat
<1>4. n \in 0..(MaxFailures - 1)
  BY <1>1, <1>2 DEF PinRow, MaxFailures
<1>5. pin' \in PinRow
  BY <1>1, <1>2, <1>3, <1>4 DEF PinRow, NoPin
<1> QED BY <1>5, PinOnlyTypes DEF AskManager

LEMMA NoPinIs == NoPin \in PinRow
BY NoCartIs DEF NoPin, PinRow, MaxFailures

LEMMA PinTypes ==
    ASSUME TypeInv, SubmitPin \/ ClosePin \/ PinRefused \/ PinUnanswered
    PROVE  TypeInv'
<1>1. pin \in PinRow
  BY TypeInvIs
<1>2. pin.fails + 1 # MaxFailures => pin.fails + 1 \in 0..(MaxFailures - 1)
  BY <1>1 DEF PinRow, MaxFailures
<1>3. pin' \in PinRow
  <2>1. CASE SubmitPin
    BY <1>1, <2>1 DEF SubmitPin, PinRow
  <2>2. CASE ClosePin
    BY <1>1, <2>2, NoPinIs DEF ClosePin, PinRow
  <2>3. CASE PinUnanswered
    BY <1>1, <2>3, NoPinIs DEF PinUnanswered, PinRow
  <2>4. CASE PinRefused /\ pin.fails + 1 = MaxFailures
    BY <2>4, NoPinIs DEF PinRefused
  <2>5. CASE PinRefused /\ pin.fails + 1 # MaxFailures
    <3>1. /\ [pin EXCEPT !.stage = "typing", !.fails = pin.fails + 1] \in PinRow
          /\ [NoPin EXCEPT !.fails = pin.fails + 1] \in PinRow
      BY <1>1, <1>2, <2>5, NoPinIs DEF PinRow
    <3> QED BY <2>5, <3>1 DEF PinRefused
  <2> QED BY <2>1, <2>2, <2>3, <2>4, <2>5
<1> QED BY <1>3, PinOnlyTypes DEF SubmitPin, ClosePin, PinRefused, PinUnanswered

LEMMA AcceptedTypes ==
    ASSUME TypeInv, PinAccepted
    PROVE  TypeInv'
<1>1. cart \in Cart /\ pin \in PinRow
  BY TypeInvIs DEF StoreT
<1>2. pin.rate \in Percent /\ pin.amount \in Nat /\ pin.item \in Items \cup {None}
  BY <1>1 DEF PinRow
<1>3. PICK c \in Cart : SetCart(c) /\ due' \in {due, TRUE}
  <2>1. CASE pin.item = None
    <3>1. /\ WithManager(AmountDiscount(cart, pin.amount)) \in Cart
          /\ WithManager(PercentDiscount(cart, pin.rate)) \in Cart
      BY <1>1, <1>2, DiscountIs
    <3> QED BY <2>1, <3>1 DEF PinAccepted
  <2>2. CASE pin.item # None
    <3>1. LineDiscount(cart, pin.item, pin.rate) \in Cart
      BY <1>1, <1>2, <2>2, CartIs
    <3>2. WithManager(LineDiscount(cart, pin.item, pin.rate)) \in Cart
      BY <3>1, DiscountIs
    <3> QED BY <2>2, <3>2 DEF PinAccepted
  <2> QED BY <2>1, <2>2
<1>4. /\ credit' = credit /\ promos' = promos /\ evals' = evals
      /\ undo' = undo /\ restoring' = restoring /\ pin' = NoPin
      /\ UNCHANGED <<postVars, holdVars, screen, serverVars, pastVars>>
  BY DEF PinAccepted
<1>5. PostT' /\ HoldT' /\ (pin \in PinRow)' /\ ScreenT'
  BY <1>4, SameTypes, NoPinIs DEF PinRow
<1>6. due' \in BOOLEAN
  BY <1>3, TypeInvIs DEF EvalT
<1> QED BY <1>3, <1>4, <1>5, <1>6, NewCart

----------------------------------------------------------------------------
(* Clearing, promotions, payment.                                          *)

LEMMA ClearTypes ==
    ASSUME TypeInv, HandleClearCart \/ Undo
    PROVE  TypeInv'
<1>1. PICK c \in Cart : SetCart(c)
  <2>1. CASE Undo
    <3>1. undo \in Cart
      BY <2>1, TypeInvIs DEF Undo, UndoT
    <3> QED BY <2>1, <3>1 DEF Undo
  <2> QED BY <2>1, NoCartIs DEF HandleClearCart, ClearCart
<1>2. /\ credit' \in {credit, None} /\ promos' \in {promos, None}
      /\ evals' = evals /\ due' = due
      /\ undo' \in {undo, None, cart} /\ restoring' = restoring
      /\ UNCHANGED <<postVars, holdVars, pin, screen, serverVars, pastVars>>
  BY DEF HandleClearCart, Undo, ClearCart, evalVars
<1>3. PostT' /\ HoldT' /\ (pin \in PinRow)' /\ ScreenT'
  BY <1>2, SameTypes
<1>4. due' \in BOOLEAN
  BY <1>2, TypeInvIs DEF EvalT
<1> QED BY <1>1, <1>2, <1>3, <1>4, NewCart

LEMMA ToastTypes ==
    ASSUME TypeInv, UndoExpires
    PROVE  TypeInv'
<1>1. UNCHANGED <<storeVars, evalVars, postVars, holdVars, screen, pin,
                  diskVars, serverVars, pastVars>> /\ undo' = None
  BY DEF UndoExpires
<1>2. UndoT'
  BY <1>1 DEF UndoT
<1> QED BY <1>1, <1>2, SameTypes, TypeInvNext

LEMMA PromotionTypes ==
    ASSUME TypeInv,
           EvaluatePromotions \/ \E b \in evals : PromotionsAnswered(b)
    PROVE  TypeInv'
<1>1. StoreT /\ EvalT /\ cart.qty \in Basket
  BY TypeInvIs DEF StoreT, Cart
<1>2. /\ cart' = cart /\ credit' = credit
      /\ UNCHANGED <<postVars, holdVars, pageVars, diskVars, serverVars,
                     pastVars>>
      /\ due' \in {FALSE, due}
      /\ evals' \subseteq evals \cup {cart.qty}
      /\ promos' \in evals \cup {promos, None}
  BY DEF EvaluatePromotions, PromotionsAnswered
<1>3. StoreT'
  BY <1>1, <1>2 DEF StoreT, EvalT
<1>4. EvalT'
  BY <1>1, <1>2 DEF EvalT
<1> QED BY <1>2, <1>3, <1>4, SameTypes, TypeInvNext DEF pageVars

LEMMA GotoTypes ==
    ASSUME TypeInv, NEW s \in {"terminal", "charge", "pay", "retrieve"},
           Goto(s)
    PROVE  TypeInv'
<1>1. /\ screen' = s
      /\ UNCHANGED <<storeVars, evalVars, postVars, holdVars, pin, undo,
                     diskVars, serverVars, pastVars>>
  BY DEF Goto
<1>2. ScreenT'
  BY <1>1 DEF ScreenT
<1> QED BY <1>1, <1>2, SameTypes, TypeInvNext

LEMMA SubmitTypes ==
    ASSUME TypeInv, SubmitSale
    PROVE  TypeInv'
<1>1. cart \in Cart /\ StoreT /\ PostT
  BY TypeInvIs DEF StoreT
<1>2. PICK n \in Charge : posts' = [posts EXCEPT ![n] =
                            [stage |-> "sent", ticket |-> BasePayload,
                             asked |-> Total(cart), here |-> TRUE]]
  BY DEF SubmitSale
<1>3. BasePayload \in Ticket
  <2>1. [cart EXCEPT !.percent = 0] \in Cart
    BY <1>1, DiscountIs
  <2> QED BY <1>1, <2>1 DEF StoreT, BasePayload, Ticket
<1>4. [stage |-> "sent", ticket |-> BasePayload, asked |-> Total(cart),
       here |-> TRUE] \in PostRow
  BY <1>1, <1>3, AmountsAreNat DEF PostRow
<1>5. PostT'
  BY <1>1, <1>2, <1>4 DEF PostT, SubmitSale
<1>6. UNCHANGED <<storeVars, evalVars, holdVars, pageVars, diskVars,
                  serverVars, pastVars>>
  BY DEF SubmitSale
<1> QED BY <1>5, <1>6, SameTypes, TypeInvNext DEF pageVars

----------------------------------------------------------------------------
(* The server and its answers.                                             *)

LEMMA ServerTypes ==
    ASSUME TypeInv, NEW n \in Charge, Server(n)
    PROVE  TypeInv'
<1>1. PostT /\ ServerT /\ posts[n] \in PostRow
  BY TypeInvIs DEF PostT
<1>2. /\ UNCHANGED <<storeVars, evalVars, submitting, holdVars, pageVars,
                     diskVars, held, pastVars>>
      /\ \E t \in {"saved", "refused"} : posts' = [posts EXCEPT ![n].stage = t]
      /\ \/ sales' = sales
         \/ sales' = [sales EXCEPT ![n] = posts[n].ticket]
  BY DEF Server, ServerSaves, ServerRefuses, serverVars
<1>3. PostT'
  BY <1>1, <1>2 DEF PostT, PostRow
<1>4. ServerT'
  BY <1>1, <1>2 DEF ServerT, PostRow
<1> QED BY <1>2, <1>3, <1>4, SameTypes, TypeInvNext DEF pageVars

LEMMA SuccessTypes ==
    ASSUME TypeInv, NEW n \in Charge, HandleSaleSuccess(n)
    PROVE  TypeInv'
<1>1. PostT /\ EvalT
  BY TypeInvIs
<1>2. /\ SetCart(NoCart) /\ credit' = None /\ promos' = None
      /\ posts' = [posts EXCEPT ![n].stage = "cleared"] /\ submitting' = submitting
      /\ undo' = undo /\ evals' = evals /\ due' = due /\ restoring' = restoring
      /\ UNCHANGED <<holdVars, pin, screen, serverVars, pastVars>>
  BY DEF HandleSaleSuccess, ClearCart, evalVars, pageVars
<1>3. PostT'
  BY <1>1, <1>2 DEF PostT, PostRow
<1>4. HoldT' /\ (pin \in PinRow)' /\ ScreenT' /\ due' \in BOOLEAN
  BY <1>1, <1>2, SameTypes DEF EvalT
<1> QED BY <1>2, <1>3, <1>4, NoCartIs, NewCart

LEMMA AnswerTypes ==
    ASSUME TypeInv, NEW n \in Charge, Answer(n)
    PROVE  TypeInv'
<1>1. PostT /\ posts[n] \in PostRow /\ PastT /\ ScreenT
  BY TypeInvIs DEF PostT
<1>2. CASE HandleSaleSuccess(n)
  BY <1>2, SuccessTypes
<1>3. CASE SaleEnds(n) \/ SaleFails(n) \/ AnswerLost(n)
  <2>1. /\ Answered(n) /\ orphaned' \in {orphaned, TRUE}
        /\ screen' \in {screen, "terminal"}
    BY <1>3 DEF SaleEnds, SaleFails, AnswerLost
  <2>2. /\ posts' = [posts EXCEPT ![n].stage = "over", ![n].here = FALSE]
        /\ submitting' \in BOOLEAN
        /\ UNCHANGED <<storeVars, evalVars, holdVars, pin, undo, diskVars,
                       serverVars, visits, uses>>
    BY <1>1, <2>1 DEF Answered, PostT, PostRow
  <2>3. PostT'
    BY <1>1, <2>2 DEF PostT, PostRow
  <2>4. PastT' /\ ScreenT'
    BY <1>1, <2>1, <2>2 DEF PastT, ScreenT
  <2> QED BY <2>2, <2>3, <2>4, SameTypes, TypeInvNext
<1> QED BY <1>2, <1>3 DEF Answer

----------------------------------------------------------------------------
(* Hold and retrieve.                                                      *)

LEMMA NoHoldIs == NoHold \in Hold
BY NoCartIs DEF NoHold, Hold

LEMMA HoldOnlyTypes ==
    ASSUME TypeInv, HoldOnly, HoldT', ServerT'
    PROVE  TypeInv'
<1>1. UNCHANGED <<storeVars, evalVars, postVars, pageVars, diskVars, pastVars>>
  BY DEF HoldOnly
<1> QED BY <1>1, SameTypes, TypeInvNext DEF pageVars

LEMMA ServerHoldsTypes ==
    ASSUME TypeInv, ServerHolds
    PROVE  TypeInv'
<1>1. hold \in Hold /\ swap \in Hold /\ ServerT /\ MaxHolds \in Nat
  BY TypeInvIs, RegisterAssumption DEF HoldT
<1>2. PICK c \in Cart : held' = Append(held, AsHeld(c))
  BY <1>1 DEF ServerHolds, Hold
<1>3. HoldT'
  BY <1>1 DEF ServerHolds, HoldT, Hold
<1>4. AsHeld(c) \in Cart
  BY DiscountIs
<1>5. ServerT'
  <2>1. held \in Seq(Cart) /\ Len(held) <= MaxHolds /\ Len(held) < MaxHolds
    BY <1>1 DEF ServerT, ServerHolds
  <2>2. held' \in Seq(Cart) /\ Len(held') = Len(held) + 1
    BY <1>2, <1>4, <2>1, AppendProperties
  <2>3. Len(held) \in Nat
    BY <2>1, LenProperties
  <2>4. sales' = sales
    BY DEF ServerHolds, HoldOnly
  <2> QED BY <1>1, <2>1, <2>2, <2>3, <2>4 DEF ServerT
<1> QED BY <1>3, <1>5, HoldOnlyTypes DEF ServerHolds

LEMMA HoldTypes ==
    ASSUME TypeInv,
           \/ HoldSale \/ HoldFails \/ HoldEnds
           \/ \E k \in DOMAIN held : HoldAndRetrieve(k)
    PROVE  TypeInv'
<1>1. /\ hold \in Hold /\ swap \in Hold /\ cart \in Cart
      /\ held \in Seq(Cart)
  BY TypeInvIs DEF HoldT, StoreT, ServerT
<1>2. HoldOnly /\ held' = held
  BY DEF HoldSale, HoldFails, HoldEnds, HoldAndRetrieve
<1>3. ServerT'
  BY <1>2, SameTypes DEF HoldOnly, serverVars
<1>4. HoldT'
  <2>1. CASE HoldSale
    BY <1>1, <2>1, NoHoldIs DEF HoldSale, HoldT, Hold
  <2>2. CASE HoldFails \/ HoldEnds
    BY <1>1, <2>2, NoHoldIs DEF HoldFails, HoldEnds, HoldT
  <2>3. ASSUME NEW k \in DOMAIN held, HoldAndRetrieve(k)
        PROVE  HoldT'
    <3>1. held[k] \in Cart
      BY <1>1, <2>3, ElementOfSeq
    <3> QED BY <1>1, <2>3, <3>1 DEF HoldAndRetrieve, HoldT, Hold
  <2> QED BY <2>1, <2>2, <2>3
<1> QED BY <1>2, <1>3, <1>4, HoldOnlyTypes

LEMMA BackTypes ==
    ASSUME TypeInv,
           \/ HoldAnswered \/ SwapAnswered \/ RestoreSaleToCart \/ Restore
           \/ \E k \in DOMAIN held : RetrieveIntoEmpty(k)
    PROVE  TypeInv'
<1>1. /\ hold \in Hold /\ swap \in Hold /\ held \in Seq(Cart)
      /\ restoring \in Cart \cup {None} /\ EvalT
  BY TypeInvIs DEF HoldT, ServerT, DiskT
<1>2. PICK c \in Cart : SetCart(c)
  <2>1. CASE HoldAnswered \/ SwapAnswered
    BY <2>1, NoCartIs DEF HoldAnswered, SwapAnswered, ClearCart
  <2>2. CASE RestoreSaleToCart
    BY <1>1, <2>2 DEF RestoreSaleToCart, ReplaceCart, Hold
  <2>3. CASE Restore
    BY <1>1, <2>3 DEF Restore, ReplaceCart
  <2>4. ASSUME NEW k \in DOMAIN held, RetrieveIntoEmpty(k)
        PROVE  \E c \in Cart : SetCart(c)
    <3>1. held[k] \in Cart
      BY <1>1, <2>4, ElementOfSeq
    <3> QED BY <2>4, <3>1 DEF RetrieveIntoEmpty, ReplaceCart
  <2> QED BY <2>1, <2>2, <2>3, <2>4
<1>3. /\ credit' = None /\ promos' \in {promos, None}
      /\ evals' = evals /\ due' = due /\ undo' = undo
      /\ restoring' \in {restoring, None}
      /\ hold' \in {hold, NoHold, [hold EXCEPT !.stage = "cleared"]}
      /\ swap' \in {swap, NoHold, [swap EXCEPT !.stage = "cleared"]}
      /\ screen' \in {screen, "terminal"}
      /\ UNCHANGED <<postVars, pin, serverVars, pastVars>>
  BY DEF HoldAnswered, SwapAnswered, RestoreSaleToCart, Restore, RetrieveIntoEmpty,
         ClearCart, ReplaceCart, evalVars, holdVars, pageVars
<1>4. HoldT' /\ ScreenT'
  BY <1>1, <1>3, NoHoldIs, TypeInvIs DEF HoldT, ScreenT, Hold
<1>5. PostT' /\ (pin \in PinRow)' /\ due' \in BOOLEAN
  BY <1>1, <1>3, SameTypes DEF EvalT
<1> QED BY <1>2, <1>3, <1>4, <1>5, NewCart

----------------------------------------------------------------------------
(* Leaving the page and coming back.                                       *)

LEMMA CreditTypes ==
    ASSUME TypeInv,
           ClearExchangeCredit \/ \E r \in Return : SetExchangeCredit(r)
    PROVE  TypeInv'
<1>1. /\ cart' = cart /\ promos' = promos /\ credit' \in Return \cup {None}
      /\ UNCHANGED <<evalVars, postVars, holdVars, pageVars, diskVars,
                     serverVars, pastVars>>
  BY DEF ClearExchangeCredit, SetExchangeCredit
<1>2. StoreT'
  BY <1>1, TypeInvIs DEF StoreT
<1> QED BY <1>1, <1>2, SameTypes, TypeInvNext DEF pageVars

LEMMA LeaveTypes ==
    ASSUME TypeInv, Leave
    PROVE  TypeInv'
<1>1. PostT /\ PastT /\ MaxVisits \in Nat
  BY TypeInvIs, RegisterAssumption
<1>2. UNCHANGED <<storeVars, evalVars, holdVars, pin, undo, diskVars,
                  serverVars, uses>>
  BY DEF Leave
<1>3. PostT'
  BY <1>1 DEF Leave, PostT, PostRow
<1>4. PastT' /\ ScreenT'
  BY <1>1 DEF Leave, PastT, ScreenT
<1> QED BY <1>2, <1>3, <1>4, SameTypes, TypeInvNext

LEMMA MountTypes ==
    ASSUME TypeInv, Mount
    PROVE  TypeInv'
<1>1. cart \in Cart /\ stored \in Cart
  BY TypeInvIs DEF StoreT, DiskT
<1>2. DiskT' /\ ScreenT'
  BY <1>1, SnapshotIs DEF Mount, ReadSnapshot, DiskT, ScreenT
<1>3. UNCHANGED <<storeVars, evalVars, postVars, holdVars, pin, undo,
                  serverVars, pastVars>>
  BY DEF Mount
<1> QED BY <1>2, <1>3, SameTypes, TypeInvNext

LEMMA LandsTypes ==
    ASSUME TypeInv, SaveLands
    PROVE  TypeInv'
<1>1. DiskT'
  BY TypeInvIs DEF SaveLands, DiskT
<1>2. UNCHANGED <<storeVars, evalVars, postVars, holdVars, pageVars, serverVars,
                  pastVars>>
  BY DEF SaveLands
<1> QED BY <1>1, <1>2, SameTypes, TypeInvNext DEF pageVars

LEMMA ReloadTypes ==
    ASSUME TypeInv, Reload
    PROVE  TypeInv'
<1>1. PostT /\ PastT /\ DiskT /\ MaxVisits \in Nat
  BY TypeInvIs, RegisterAssumption
<1>2. StoreT' /\ EvalT' /\ ScreenT' /\ UndoT'
  BY NoCartIs DEF Reload, StoreT, EvalT, ScreenT, UndoT
<1>3. PostT'
  BY <1>1 DEF Reload, PostT, PostRow
<1>4. PastT'
  <2>1. visits' \in 0..MaxVisits
    <3>1. visits < MaxVisits /\ visits' = visits + 1
      BY Zenon DEF Reload
    <3>2. visits \in 0..MaxVisits
      BY <1>1 DEF PastT
    <3> QED BY <1>1, <3>1, <3>2
  <2>2. orphaned' \in BOOLEAN /\ uses' \in Habits
    BY <1>1, Zenon DEF Reload, PastT
  <2> QED BY <2>1, <2>2 DEF PastT
<1>5. DiskT' /\ HoldT' /\ (pin \in PinRow)'
  <2>1. (pin \in PinRow)'
    BY NoPinIs DEF Reload, PinRow
  <2> QED BY <1>1, <2>1, NoCartIs, NoHoldIs DEF Reload, ReadSnapshot, DiskT, HoldT
<1>6. ServerT'
  BY SameTypes DEF Reload
<1> QED BY <1>2, <1>3, <1>4, <1>5, <1>6, TypeInvNext

----------------------------------------------------------------------------
(* All together.                                                           *)

LEMMA NextTypes ==
    ASSUME TypeInv, [Next]_vars
    PROVE  TypeInv'
<1>1. ASSUME UNCHANGED vars
      PROVE  TypeInv'
  BY <1>1, SameTypes, TypeInvNext DEF vars, pageVars
<1>2. ASSUME Holding
      PROVE  TypeInv'
  BY <1>2, HoldTypes, BackTypes, GotoTypes
     DEF Holding, OpenRetrieve, CloseRetrieve
<1>3. ASSUME Visiting
      PROVE  TypeInv'
  BY <1>3, LeaveTypes, MountTypes, ReloadTypes, CreditTypes DEF Visiting
<1>4. ASSUME Discounting \/ LineDiscounting
      PROVE  TypeInv'
  BY <1>4, DiscountingTypes, FillingTypes, AskTypes
     DEF Discounting, LineDiscounting
<1>5. ASSUME \/ Charge_ \/ SelectMethod \/ ClosePayment
             \/ ConfirmPayment \/ ConfirmExchange
      PROVE  TypeInv'
  BY <1>5, GotoTypes, SubmitTypes
     DEF Charge_, SelectMethod, ClosePayment, ConfirmPayment, ConfirmExchange
<1>6. ASSUME Cashier
      PROVE  TypeInv'
  BY <1>2, <1>3, <1>4, <1>5, <1>6, ScanTypes, FillingTypes, PinTypes,
     ClearTypes, PromotionTypes DEF Cashier, SetPromoCode
<1>7. ASSUME Browser
      PROVE  TypeInv'
  BY <1>7, PromotionTypes, ToastTypes, BackTypes, PinTypes, AcceptedTypes,
     ServerHoldsTypes, HoldTypes, LandsTypes DEF Browser, TimerFires
<1>8. ASSUME NEW n \in Charge, Server(n) \/ Answer(n)
      PROVE  TypeInv'
  BY <1>8, ServerTypes, AnswerTypes
<1> QED BY <1>1, <1>6, <1>7, <1>8 DEF Next

LEMMA InitTypes ==
    ASSUME Init
    PROVE  TypeInv
<1>1. MaxVisits \in Nat /\ MaxHolds \in Nat
  BY RegisterAssumption
<1>2. NoPost \in PostRow
  BY DEF NoPost, PostRow
<1>3. StoreT /\ EvalT /\ ScreenT /\ UndoT
  BY NoCartIs DEF Init, StoreT, EvalT, ScreenT, UndoT
<1>4. PostT /\ HoldT /\ DiskT /\ pin \in PinRow
  BY <1>2, NoCartIs, NoHoldIs, NoPinIs DEF Init, PostT, HoldT, DiskT
<1>5. ServerT
  <2>1. held = <<>> /\ <<>> \in Seq(Cart) /\ Len(<<>>) = 0
    BY EmptySeq DEF Init
  <2> QED BY <1>1, <2>1 DEF Init, ServerT, NoSale
<1>6. PastT
  <2>1. visits \in 0..MaxVisits
    BY <1>1 DEF Init
  <2>2. orphaned \in BOOLEAN /\ uses \in Habits
    BY Zenon DEF Init
  <2> QED BY <2>1, <2>2 DEF PastT
<1> QED BY <1>3, <1>4, <1>5, <1>6, TypeInvIs

(* Every amount of a cart is a natural number and no cart grows beyond its *)
(* bound, whatever discounts, holds, restored snapshots and undone clears  *)
(* went into it.                                                           *)
THEOREM RegisterType == Spec => []TypeOK
<1>1. Init => TypeInv
  BY InitTypes
<1>2. TypeInv /\ [Next]_vars => TypeInv'
  BY NextTypes
<1>3. TypeInv => TypeOK
  BY DEF TypeInv
<1> QED BY <1>1, <1>2, <1>3, PTL DEF Spec

----------------------------------------------------------------------------
(* The terminal is a Counter.                                              *)

(* A submission carries a ticket. *)
Carries == \A n \in Charge : posts[n].stage = "none" \/ posts[n].ticket # None

LEMMA FrontIsTicket ==
    ASSUME TypeOK
    PROVE  BasePayload \in Ticket /\ BasePayload # None
<1>1. [cart EXCEPT !.percent = 0] \in Cart
  BY DEF TypeOK, Cart, Percent
<1>2. BasePayload \in Ticket
  BY <1>1 DEF TypeOK, BasePayload, Ticket
<1> QED
  BY <1>2, NoneAssumption

LEMMA OthersKeepTickets ==
    ASSUME Shape, [Next]_vars, ~SubmitSale, \A n \in Charge : ~ServerSaves(n)
    PROVE  /\ sales' = sales
           /\ \A n \in Charge :
                /\ posts'[n].ticket = posts[n].ticket
                /\ posts[n].stage # "none" \/ posts'[n].stage = "none"
<1>1. CASE /\ posts' = posts /\ sales' = sales
  BY <1>1
<1>2. CASE \/ Quiet \/ UNCHANGED vars \/ ServerHolds \/ HoldFails
           \/ SwapAnswered \/ RestoreSaleToCart
           \/ \E k \in DOMAIN held : HoldAndRetrieve(k)
           \/ \E r \in Return : SetExchangeCredit(r)
  BY <1>1, <1>2 DEF Quiet, PostsStay, vars, ServerHolds, HoldFails,
     HoldAndRetrieve, HoldOnly, SwapAnswered, RestoreSaleToCart,
     SetExchangeCredit, postVars, serverVars
<1>3. ASSUME NEW n \in Charge, ServerRefuses(n)
      PROVE  /\ sales' = sales /\ posts[n].stage # "none"
             /\ Becomes(n, "refused")
  BY <1>3, StageBecomes DEF ServerRefuses, serverVars, Stages
<1>4. ASSUME NEW n \in Charge, SaleEnds(n) \/ SaleFails(n) \/ AnswerLost(n)
      PROVE  sales' = sales /\ posts[n].stage # "none" /\ Becomes(n, "over")
  BY <1>4, AnswerBecomes DEF SaleEnds, SaleFails, AnswerLost, Answered, serverVars
<1>6. ASSUME NEW n \in Charge, HandleSaleSuccess(n)
      PROVE  sales' = sales /\ posts[n].stage # "none" /\ Becomes(n, "cleared")
  BY <1>6, StageBecomes DEF HandleSaleSuccess, serverVars, Stages
<1>5. CASE Leave \/ Reload
  <2>1. sales' = sales
    BY <1>5 DEF Leave, Reload, serverVars
  <2>2. ASSUME NEW n \in Charge
        PROVE  /\ posts'[n].ticket = posts[n].ticket
               /\ posts[n].stage # "none" \/ posts'[n].stage = "none"
    <3>1. posts[n] \in Post(posts[n].ticket, posts[n].asked)
      BY DEF Shape
    <3>2. \/ posts'[n] = [posts[n] EXCEPT !.here = FALSE]
          \/ /\ n \in Unfinished
             /\ posts'[n] = [posts[n] EXCEPT !.stage = "over", !.here = FALSE]
          \/ posts'[n] = posts[n]
      BY <1>5 DEF Leave, Reload
    <3> QED
      BY <3>1, <3>2 DEF Post, Unfinished, InFlight
  <2> QED
    BY <2>1, <2>2
<1> QED
  BY <1>2, <1>3, <1>4, <1>5, <1>6, NextIsQuietOrLoud
     DEF Loud, Server, Answer, Becomes

(* From outside the terminal only ever charges the cart in front of the    *)
(* cashier, and the server records each charge at most once and as it was  *)
(* made: every step of the page, its dialogs and its late answers is a     *)
(* step of Counter or none.                                                *)
THEOREM RegisterIsCounter == Spec => CounterSpec
<1>1. Init /\ TypeOK => Till!Init /\ Carries
  <2> SUFFICES ASSUME Init, TypeOK
               PROVE  Till!Init /\ Carries
    OBVIOUS
  <2>1. \A n \in Charge : posts[n].ticket = None /\ posts[n].stage = "none"
    BY DEF Init, NoPost
  <2> QED
    BY <2>1, FrontIsTicket DEF Init, Carries, Till!Init, NoSale
<1>2. /\ Inv /\ TypeOK /\ TypeOK' /\ Carries /\ [Next]_vars
      => Carries' /\ [Till!Next]_Till!vars
  <2> SUFFICES ASSUME Inv, TypeOK, TypeOK', Carries, [Next]_vars
               PROVE  Carries' /\ [Till!Next]_Till!vars
    OBVIOUS
  <2> USE DEF Till!Next, Till!vars
  <2>1. BasePayload' \in Ticket
    <3>1. [cart' EXCEPT !.percent = 0] \in Cart
      BY DEF TypeOK, Cart, Percent
    <3> QED
      BY <3>1 DEF TypeOK, BasePayload, Ticket
  <2>2. CASE SubmitSale
    <3>1. PICK n \in Charge :
            /\ posts[n] = NoPost
            /\ posts' = [posts EXCEPT ![n] =
                           [stage |-> "sent", ticket |-> BasePayload,
                            asked |-> Total(cart), here |-> TRUE]]
      BY <2>2 DEF SubmitSale
    <3>2. /\ posts'[n].ticket = BasePayload
          /\ \A m \in Charge \ {n} : posts'[m] = posts[m]
      BY <3>1 DEF Inv, PostInv, Shape
    <3>3. UNCHANGED <<cart, credit, promos, sales>>
      BY <2>2 DEF SubmitSale, storeVars, serverVars
    <3>4. Carries'
      BY <3>2, FrontIsTicket DEF Carries
    <3>5. UNCHANGED <<BasePayload, sales>>
      BY <3>3 DEF BasePayload
    <3>6. posts[n].ticket = None
      BY <3>1 DEF NoPost
    <3>7. [m \in Charge |-> posts[m].ticket]'
          = [[m \in Charge |-> posts[m].ticket] EXCEPT ![n] = BasePayload]
      BY <3>2
    <3>8. Till!Take(n)
      BY <3>5, <3>6, <3>7 DEF Till!Take
    <3> QED
      BY <3>4, <3>8
  <2>3. ASSUME NEW n \in Charge, ServerSaves(n)
        PROVE  Carries' /\ [Till!Next]_Till!vars
    <3>1. Becomes(n, "saved")
      BY <2>3, StageBecomes DEF ServerSaves, Stages, Inv, PostInv
    <3>2. /\ posts[n].stage = "sent" /\ sales[n] = NoSale
          /\ sales' = [sales EXCEPT ![n] = posts[n].ticket]
      BY <2>3 DEF ServerSaves, Inv, PostInv, SaleOfPost
    <3>3. UNCHANGED <<cart, credit, promos>>
      BY <2>3 DEF ServerSaves, storeVars
    <3>4. \A m \in Charge : posts'[m].ticket = posts[m].ticket
      BY <3>1 DEF Becomes
    <3>5. Carries'
      BY <3>1, <3>2, <3>4 DEF Carries, Becomes
    <3>6. Till!Record(n)
      BY <3>2, <3>3, <3>4 DEF Till!Record, Carries, NoSale, BasePayload
    <3> QED
      BY <3>5, <3>6
  <2>4. CASE ~SubmitSale /\ \A n \in Charge : ~ServerSaves(n)
    <3>1. /\ sales' = sales
          /\ \A n \in Charge :
               /\ posts'[n].ticket = posts[n].ticket
               /\ posts[n].stage # "none" \/ posts'[n].stage = "none"
      BY <2>4, OthersKeepTickets DEF Inv, PostInv
    <3>2. Carries'
      BY <3>1 DEF Carries
    <3>3. Till!Change
      BY <2>1, <3>1 DEF Till!Change
    <3> QED
      BY <3>2, <3>3
  <2> QED
    BY <2>2, <2>3, <2>4
<1> QED
  BY <1>1, <1>2, SpecInv, RegisterType, PTL DEF Spec, CounterSpec, Till!Spec
=============================================================================
