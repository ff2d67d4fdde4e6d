------------------------------ MODULE Session ------------------------------
(***************************************************************************)
(* Who is signed in, in one browser tab: the auth store in memory, the two *)
(* cookies, the token the server layout hands to the store layout, the     *)
(* inactivity lock, and the middleware every navigation passes.            *)
(*                                                                         *)
(* A full page load drops everything in memory; a client-side navigation   *)
(* keeps it.  Tokens are numbered in the order they are issued, and expire *)
(* in that order 15 minutes later.                                         *)
(***************************************************************************)
EXTENDS Naturals, Sequences

CONSTANTS
    People,
    Role,           \* the role of each of them
    Suspended,      \* those whose tenant's subscription has ended
    MaxTokens,      \* bound: access tokens issued
    Nobody

StoreAreas == {"store", "pos", "stock", "management", "billing"}
Areas == StoreAreas \cup {"admin"}
PublicAreas == {"login", "pin-login", "suspended", "not-found"}
Roles == {"SUPER_ADMIN", "OWNER", "MANAGER", "CASHIER", "STOCK_CLERK"}

ASSUME SessionAssumption ==
    /\ Role \in [People -> Roles]
    /\ Suspended \subseteq People
    /\ MaxTokens \in Nat
    /\ Nobody \notin People

VARIABLES
    user,       \* authStore.user
    memory,     \* authStore.accessToken: its number, 0 is null
    prop,       \* the token the server gave the mounted layout or page
    cookie,     \* the access_token cookie
    refresh,    \* whose refresh_token cookie there is
    owner,      \* the person each token was issued to
    dead,       \* how many tokens have expired
    at,         \* the area of the page that is shown
    locked,     \* isScreenLocked
    pinned      \* a PIN was entered since the last full load: where; and
                \* "refused" if the last one on its page was not stored

sessionVars == <<user, memory, prop, cookie, refresh, owner, dead, at, locked,
                 pinned>>

SessionTypeOK ==
    /\ user \in People \cup {Nobody}
    /\ {memory, prop, cookie, dead} \subseteq 0..Len(owner)
    /\ refresh \in People \cup {Nobody}
    /\ owner \in Seq(People)
    /\ at \in Areas \cup PublicAreas
    /\ locked \in BOOLEAN
    /\ pinned \subseteq {"page", "lock", "refused"}

(***************************************************************************)
(* Where the middleware lets a person go.                                  *)
(***************************************************************************)
Home_Moved(p) ==  \* mutant: the cashier's home under its old name
    CASE Role[p] = "SUPER_ADMIN" -> "admin"
      [] Role[p] = "CASHIER" -> "terminal"
      [] Role[p] = "STOCK_CLERK" -> "stock"
      [] OTHER -> "store"
Home(p) ==
    CASE Role[p] = "SUPER_ADMIN" -> "admin"
      [] Role[p] = "CASHIER" -> "pos"
      [] Role[p] = "STOCK_CLERK" -> "stock"
      [] OTHER -> "store"

(* The PIN page sends a stock clerk to /store/stock, a path of the store   *)
(* where there is no page.                                                 *)
PinHome(p) == IF Role[p] = "STOCK_CLERK" THEN "not-found" ELSE Home(p)

ByRole(role, area) ==
    CASE area \in StoreAreas \cup {"not-found"} /\ role = "SUPER_ADMIN" -> "admin"
      [] area = "admin" /\ role # "SUPER_ADMIN" -> "store"
      [] area = "management" /\ role \in {"CASHIER", "STOCK_CLERK"} -> "store"
      [] area = "stock" /\ role = "CASHIER" -> "pos"
      [] area = "pos" /\ role = "STOCK_CLERK" -> "stock"
      [] OTHER -> area

Route(p, area) ==
    LET allowed == ByRole(Role[p], area)
    IN  IF /\ p \in Suspended
           /\ Role[p] # "SUPER_ADMIN"
           /\ allowed \notin {"login", "pin-login", "suspended", "billing"}
        THEN "suspended" ELSE allowed

(***************************************************************************)
(* Memory after a full load, and after an area is reached by a client-side *)
(* navigation: a store layout that mounts gets the cookie as its prop and, *)
(* when the store has no user, takes user and token from it.               *)
(***************************************************************************)
InStore == at \in StoreAreas

Loads_NoToken(area, c) ==  \* mutant: hydration without the token
    /\ at' = area
    /\ prop' = IF area \in Areas THEN c ELSE 0
    /\ user' = IF area \in StoreAreas THEN owner'[c] ELSE Nobody
    /\ memory' = 0
    /\ locked' = FALSE
    /\ pinned' = {}
Loads(area, c) ==
    /\ at' = area
    /\ prop' = IF area \in Areas THEN c ELSE 0
    /\ user' = IF area \in StoreAreas THEN owner'[c] ELSE Nobody
    /\ memory' = IF area \in StoreAreas THEN c ELSE 0
    /\ locked' = FALSE
    /\ pinned' = {}

Reaches(area, c, u, m) ==
    LET enters == area \in StoreAreas /\ ~InStore
        hydrates == enters /\ u = Nobody
    IN  /\ at' = area
        /\ prop' = CASE enters \/ area = "admin" -> c
                     [] area \in StoreAreas /\ ~enters -> prop
                     [] OTHER -> 0
        /\ user' = IF hydrates THEN owner'[c] ELSE u
        /\ memory' = IF hydrates THEN c ELSE m

(***************************************************************************)
(* Navigation.  The middleware asks for the access cookie first: without   *)
(* one it does not look at the refresh token.                              *)
(***************************************************************************)
Issue(p) ==
    /\ Len(owner) < MaxTokens
    /\ owner' = Append(owner, p)
    /\ cookie' = Len(owner')
    /\ refresh' = p
    /\ UNCHANGED dead

Verified == cookie > dead
Expired == cookie \in 1..dead

Admitted ==
    /\ Verified
    /\ UNCHANGED <<cookie, refresh, owner, dead>>

(* refresh-session issues a new token and returns to where the user went.  *)
Refreshed ==
    /\ Expired /\ refresh # Nobody
    /\ Issue(refresh)

TurnedAway ==
    /\ \/ cookie = 0 /\ UNCHANGED <<cookie, refresh>>
       \/ Expired /\ cookie' = 0 /\ refresh' = Nobody
    /\ UNCHANGED <<owner, dead>>

(* A client-side navigation, with u and m in the auth store. *)
Passes(area, u, m) ==
    \/ /\ Admitted \/ Refreshed
       /\ Reaches(Route(owner'[cookie'], area), cookie', u, m)
    \/ /\ TurnedAway
       /\ Reaches("login", 0, u, m)

Navigate(area) == Passes(area, user, memory) /\ UNCHANGED <<locked, pinned>>

(* An address typed in, a reload, or a link that is a plain anchor.  A full *)
(* load also takes the lock away.                                          *)
Visit(area) ==
    \/ /\ area \in Areas
       /\ Admitted \/ Refreshed
       /\ Loads(Route(owner'[cookie'], area), cookie')
    \/ /\ area \in Areas
       /\ TurnedAway
       /\ Loads("login", 0)
    \/ /\ area \in {"login", "pin-login"}
       /\ Loads(area, 0)
       /\ UNCHANGED <<cookie, refresh, owner, dead>>

(***************************************************************************)
(* Signing in and out.                                                     *)
(***************************************************************************)
(* The password page loads the home page in full, the PIN page pushes it;  *)
(* the PIN dialog stores the user without the token.  Neither looks at the *)
(* answer of set-tokens: when that route refused (set is FALSE), they go   *)
(* on, and the cookies are still those of whoever signed in before.        *)
SignIn(p, set) ==
    /\ at = "login"
    /\ \/ set /\ Issue(p) /\ Loads(Route(p, Home(p)), cookie')
       \/ ~set /\ Visit(Home(p))

PinSignIn_KeepsUser(p, set) ==  \* mutant: the PIN dialog does not set the user
    /\ at = "pin-login"
    /\ \/ /\ set /\ Issue(p)
          /\ Reaches(Route(p, PinHome(p)), cookie', user, 0)
          /\ pinned' = (pinned \ {"refused"}) \cup {"page"}
       \/ /\ ~set /\ Passes(PinHome(p), p, 0)
          /\ pinned' = pinned \cup {"page", "refused"}
    /\ UNCHANGED locked
PinSignIn(p, set) ==
    /\ at = "pin-login"
    /\ \/ /\ set /\ Issue(p)
          /\ Reaches(Route(p, PinHome(p)), cookie', p, 0)
          /\ pinned' = (pinned \ {"refused"}) \cup {"page"}
       \/ /\ ~set /\ Passes(PinHome(p), p, 0)
          /\ pinned' = pinned \cup {"page", "refused"}
    /\ UNCHANGED locked

(* The PIN page was left by a push: the browser's Back comes to it again,  *)
(* with everything in memory as it is.                                     *)
Back ==
    /\ at \in Areas /\ "page" \in pinned
    /\ at' = "pin-login"
    /\ prop' = 0
    /\ UNCHANGED <<user, memory, cookie, refresh, owner, dead, locked, pinned>>

Lock ==
    /\ InStore /\ user # Nobody /\ ~locked
    /\ locked' = TRUE
    /\ UNCHANGED <<user, memory, prop, cookie, refresh, owner, dead, at,
                   pinned>>

PinUnlock(set) ==
    /\ InStore /\ locked
    /\ \/ /\ set /\ Issue(user)
          /\ pinned' = (pinned \ {"refused"}) \cup {"lock"}
       \/ /\ ~set /\ UNCHANGED <<cookie, refresh, owner, dead>>
          /\ pinned' = pinned \cup {"lock"}
    /\ memory' = 0
    /\ locked' = FALSE
    /\ UNCHANGED <<user, prop, at>>

(* The sign-out route clears the cookies unless the request never reached  *)
(* it.  The store is cleared while the store layout is still mounted: its  *)
(* effect sets the user and the token again from its prop.  The operator's *)
(* area has no such layout: its pages get their token from the server, and *)
(* the auth store stays empty.                                             *)
SignOut(reached) ==
    /\ InStore /\ locked
    /\ user' = IF prop = 0 THEN Nobody ELSE owner[prop]
    /\ memory' = prop
    /\ cookie' = IF reached THEN 0 ELSE cookie
    /\ refresh' = IF reached THEN Nobody ELSE refresh
    /\ prop' = 0
    /\ at' = "login"
    /\ locked' = FALSE
    /\ UNCHANGED <<owner, dead, pinned>>

AdminSignOut(reached) ==
    /\ at = "admin"
    /\ cookie' = IF reached THEN 0 ELSE cookie
    /\ refresh' = IF reached THEN Nobody ELSE refresh
    /\ at' = "login"
    /\ prop' = 0
    /\ UNCHANGED <<user, memory, owner, dead, locked, pinned>>

(***************************************************************************)
(* Time: tokens live 15 minutes, their cookie 15 minutes from when it was  *)
(* set, the refresh token seven days.                                      *)
(***************************************************************************)
TokenExpires ==
    /\ dead < Len(owner)
    /\ dead' = dead + 1
    /\ UNCHANGED <<user, memory, prop, cookie, refresh, owner, at, locked,
                   pinned>>

CookieDropped ==
    /\ Expired
    /\ cookie' = 0
    /\ UNCHANGED <<user, memory, prop, refresh, owner, dead, at, locked,
                   pinned>>

RefreshDropped ==
    /\ refresh # Nobody /\ cookie <= dead
    /\ refresh' = Nobody
    /\ UNCHANGED <<user, memory, prop, cookie, owner, dead, at, locked,
                   pinned>>

SessionInit ==
    /\ user = Nobody /\ refresh = Nobody
    /\ memory = 0 /\ prop = 0 /\ cookie = 0 /\ dead = 0
    /\ owner = <<>>
    /\ at = "login"
    /\ locked = FALSE
    /\ pinned = {}

(***************************************************************************)
(* Properties.                                                             *)
(***************************************************************************)
(* The person the pages show is the person the cookies speak for: sign-ins *)
(* of others, unlocks, failed sign-outs and refreshed tokens do not mix    *)
(* two accounts.  A PIN whose tokens were not stored does: PinEntryModal   *)
(* sets the user all the same.                                             *)
OneIdentity ==
    InStore /\ cookie # 0 /\ "refused" \notin pinned => user = owner[cookie]

(* A signed-in person's pages have a token to send, unless a PIN was       *)
(* entered since the last full load: the PIN dialog stores the user alone. *)
TokenKept == InStore /\ user # Nobody /\ memory = 0 => pinned # {}
=============================================================================
