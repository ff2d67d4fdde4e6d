------------------------------- MODULE Client -------------------------------
(***************************************************************************)
(* The web client: the pages of Pages under the session of Session.  They  *)
(* meet where a request takes its token from the auth store, where a       *)
(* navigation passes the middleware, and where the cache outlives, or does *)
(* not outlive, a change of the signed-in person.                          *)
(*                                                                         *)
(* A view with "session" starts signed out and has every step of Session;  *)
(* the others start signed in and stay so.                                 *)
(***************************************************************************)
EXTENDS Pages

clientVars == <<sessionVars, pageVars>>

AreaOf(s) ==
    CASE s = "pos" -> "pos"
      [] s \in {"stock", "movements", "adjust", "lowStock", "valuation",
                "takes", "take", "review"} -> "stock"
      [] s = "billing" -> "billing"
      [] s \in {"staff", "member", "commissions", "audit", "hardware",
                "webhooks", "salesByProduct", "revenueTrend",
                "customerAnalytics", "salesByStaff", "returnRate",
                "movementReport", "inventoryValuation", "staffPerformance",
                "profitLoss"} -> "management"
      [] s \in {"plans", "revenue", "tenants", "tenant", "console", "health",
                "newTenant"} -> "admin"
      [] OTHER -> "store"

(* The page of an area the middleware chose: the one that was asked for,   *)
(* or the page of the area it redirects to.                                *)
Redirected(area) ==
    CASE area \in {"pos", "stock"} -> area
      [] area = "admin" -> "console"
      [] OTHER -> "dashboard"
PageAt(area, s) ==
    IF area \notin Areas THEN "none"
    ELSE IF area = AreaOf(s) THEN s ELSE Redirected(area)

SignedIn ==
    /\ at = Home(view.person)
    /\ user = IF at \in StoreAreas THEN view.person ELSE Nobody
    /\ memory = IF at \in StoreAreas THEN 1 ELSE 0
    /\ refresh = view.person /\ owner = <<view.person>>
    /\ prop = 1 /\ cookie = 1 /\ dead = 0
    /\ locked = FALSE
    /\ pinned = {}

Init ==
    /\ view \in Views
    /\ IF view.session THEN SessionInit ELSE SignedIn
    /\ page = IF view.session THEN "none" ELSE "dashboard"
    /\ filter = 0 /\ typed = {} /\ clock = 0
    /\ cache = [s \in Slots |-> NoEntry]
    /\ asks = {}
    /\ forms = [i \in Ids |-> NoForm]
    /\ mine = [i \in Ids |-> 0]
    /\ moves = 0

(***************************************************************************)
(* Navigation.                                                             *)
(***************************************************************************)
Clicks(s) ==
    /\ Present /\ s # page /\ Moves
    /\ Navigate(AreaOf(s))
    /\ GoTo(PageAt(at', s))

Loading(s) ==
    /\ view.session /\ Moves
    /\ Visit(AreaOf(s))
    /\ LoadAnew(PageAt(at', s))

VisitsSignIn(area) ==
    /\ view.session /\ Moves
    /\ area \in {"login", "pin-login"}
    /\ Visit(area)
    /\ LoadAnew("none")

(* A form that leaves pushes its next page, wherever the user is by now.   *)
FormLeaves(f) ==
    /\ f.leaves # "" /\ page # "none"
    /\ Navigate(AreaOf(f.leaves))
    /\ AnsweredAndLeaves(f, PageAt(at', f.leaves))

PushedSearch(s) ==
    /\ typed # {} /\ PushesTo(s) /\ page # "none"
    /\ Navigate(AreaOf(s))
    /\ PushEnds(PageAt(at', s))

(***************************************************************************)
(* The session.                                                            *)
(***************************************************************************)
SignsIn_Push(p, set) ==  \* mutant: the password page pushes the home page
    /\ view.session
    /\ at = "login"
    /\ set /\ Issue(p)
    /\ Reaches(Route(p, Home(p)), cookie', p, 0)
    /\ GoTo(PageAt(at', "dashboard"))
    /\ UNCHANGED <<locked, pinned, moves>>
SignsIn(p, set) ==
    /\ view.session
    /\ SignIn(p, set)
    /\ LoadAnew(PageAt(at', "dashboard"))
    /\ UNCHANGED moves

SignsInByPin(p, set) ==
    /\ view.session
    /\ PinSignIn(p, set)
    /\ GoTo(PageAt(at', "dashboard"))
    /\ UNCHANGED moves

GoesBack ==
    /\ view.session /\ Moves
    /\ Back
    /\ GoTo("none")

SignsOut(reached) ==
    /\ view.session
    /\ SignOut(reached) \/ AdminSignOut(reached)
    /\ GoTo("none")
    /\ UNCHANGED moves

Locks == view.session /\ Lock /\ UNCHANGED pageVars
Unlocks(set) == view.session /\ PinUnlock(set) /\ UNCHANGED pageVars
TimePasses ==
    /\ view.session
    /\ TokenExpires \/ CookieDropped \/ RefreshDropped
    /\ UNCHANGED pageVars

(***************************************************************************)
(* The pages.                                                              *)
(***************************************************************************)
FormStep(f) ==
    \/ Open(f) \/ Close(f) \/ Submit(f)
    \/ ServerWrites(f) \/ ServerRefuses(f) \/ Refused(f)
    \/ (f.leaves = "" \/ page = "none") /\ Answered(f)

Stay ==
    /\ UNCHANGED sessionVars
    /\ \/ \E f \in Filters : Choose(f) \/ Type(f)
       \/ PauseEnds
       \/ \E a \in asks : ServerReads(a) \/ Land(a) \/ Fail(a)
       \/ \E s \in Slots : Expire(s)
       \/ \E r \in Mounted : Refetch(r)
       \/ \E f \in view.forms : FormStep(f)

Next ==
    \/ \E s \in Tour : Clicks(s) \/ PushedSearch(s) \/ Loading(s)
    \/ \E area \in PublicAreas : VisitsSignIn(area)
    \/ \E f \in view.forms : FormLeaves(f)
    \/ \E set \in BOOLEAN :
          \/ \E p \in People : SignsIn(p, set) \/ SignsInByPin(p, set)
          \/ Unlocks(set)
    \/ \E reached \in BOOLEAN : SignsOut(reached)
    \/ GoesBack
    \/ Locks
    \/ TimePasses
    \/ Stay

Spec == Init /\ [][Next]_clientVars

(***************************************************************************)
(* Properties.                                                             *)
(***************************************************************************)
TypeOK == SessionTypeOK /\ PagesTypeOK

(* What a page shows was answered to the person who is signed in.  The     *)
(* cache is never cleared: that another person's sign-in does not show it  *)
(* rests on the password page loading in full; the PIN page does not.      *)
DataOfItsUser ==
    \A r \in Mounted :
        InStore /\ r.how = "query" /\ Entry(r).has /\ "page" \notin pinned
            => Entry(r).who = user
=============================================================================
