---------------------------- MODULE ClientProofs ----------------------------
(***************************************************************************)
(* The web client, for every table of views, any number of people, tokens  *)
(* and writes: the session, whose data a page shows, that it holds the     *)
(* writes of its own user, and what an edit that is sent was opened on.    *)
(*                                                                         *)
(* The session has an invariant of its own.  Every action of the pages is  *)
(* shown to be a PageStep and a MountedStep: what becomes of an entry, of  *)
(* a request, of a form, and of a mounted reader that is at rest.  These   *)
(* two keep what is known of the pages, and are all that the invariants    *)
(* need to know of the actions.                                            *)
(*                                                                         *)
(* What a form tells and what a key holds is data, the table Screens was   *)
(* read off the code: it enters as the two hypotheses that follow.         *)
(***************************************************************************)
EXTENDS Client, TLAPS

(* A form tells each reader of the data it writes, which asks through the  *)
(* query cache, but for the pairs that KnownStale names.                   *)
WritesAreTold ==
    \A x \in Views : \A f \in x.forms, r \in x.reads :
        Relates(f, r) => r.how # "raced" /\ Told(f, r.key)

(* A form that stays open when saved is not edited from what it wrote, or  *)
(* is known (KnownOverwrite) to keep the values it was opened with.        *)
SheetsAreKnown ==
    \A x \in Views : \A f \in x.forms, r \in x.reads :
        f.stays /\ r.key = f.edits /\ Relates(f, r) => f.id \in KnownOverwrite

(***************************************************************************)
(* The session.  In the store, tokens of the page are of the person shown, *)
(* and the refresh token speaks for the same person as the cookie.         *)
(***************************************************************************)
SessionInv ==
    /\ SessionTypeOK
    /\ InStore => user \in People
    /\ OneIdentity
    /\ cookie # 0 /\ refresh # Nobody => refresh = owner[cookie]
    /\ at = "admin" /\ cookie # 0 => Role[owner[cookie]] = "SUPER_ADMIN"
    /\ TokenKept
    /\ InStore /\ "page" \notin pinned =>
         /\ prop # 0 => owner[prop] = user
         /\ memory # 0 => owner[memory] = user

(* Tokens keep their owner, and there are never fewer of them. *)
Grown ==
    /\ Len(owner) <= Len(owner')
    /\ \A i \in 1..Len(owner) : owner'[i] = owner[i]

(* A full load, or the person and the tokens in the store stay. *)
Carried ==
    InStore' /\ "page" \notin pinned' =>
        InStore /\ "page" \notin pinned /\ user' = user

LEMMA RouteIn ==
    ASSUME NEW p \in People, NEW area \in Areas \cup PublicAreas
    PROVE  /\ Route(p, area) \in Areas \cup PublicAreas
           /\ Route(p, area) \in StoreAreas => Role[p] # "SUPER_ADMIN"
           /\ Route(p, area) = "admin" => Role[p] = "SUPER_ADMIN"
  <1>1. /\ ByRole(Role[p], area) \in Areas \cup PublicAreas
        /\ ByRole(Role[p], area) \in StoreAreas => Role[p] # "SUPER_ADMIN"
        /\ ByRole(Role[p], area) = "admin" => Role[p] = "SUPER_ADMIN"
    BY SessionAssumption DEF ByRole, StoreAreas, Areas, PublicAreas, Roles
  <1>2. Route(p, area) \in {ByRole(Role[p], area), "suspended"}
    BY DEF Route
  <1> QED BY <1>1, <1>2 DEF StoreAreas, Areas, PublicAreas

LEMMA HomeIn ==
    ASSUME NEW p \in People
    PROVE  /\ Home(p) \in Areas
           /\ PinHome(p) \in Areas \cup PublicAreas
           /\ Home(p) = "admin" <=> Role[p] = "SUPER_ADMIN"
  BY SessionAssumption
     DEF Home, PinHome, StoreAreas, Areas, PublicAreas, Roles

LEMMA IssueGrows ==
    ASSUME SessionTypeOK, NEW p \in People, Issue(p)
    PROVE  /\ owner' \in Seq(People) /\ Grown
           /\ cookie' = Len(owner') /\ cookie' \in 1..Len(owner')
           /\ owner'[cookie'] = p /\ refresh' = p /\ dead' = dead
           /\ Len(owner') = Len(owner) + 1
  BY DEF Issue, SessionTypeOK, Grown

(* What a navigation past the middleware leaves: the cookie of the person  *)
(* it speaks for.                                                          *)
LEMMA PassedOn ==
    ASSUME SessionInv, Admitted \/ Refreshed
    PROVE  /\ owner' \in Seq(People) /\ Grown
           /\ cookie' \in 1..Len(owner') /\ dead' \in 0..Len(owner')
           /\ owner'[cookie'] \in People
           /\ refresh' \in People \cup {Nobody}
           /\ refresh' # Nobody => refresh' = owner'[cookie']
           /\ cookie # 0 /\ owner'[cookie'] = owner[cookie]
  <1>1. CASE Admitted
    BY <1>1 DEF SessionInv, SessionTypeOK, Admitted, Verified, Grown
  <1>2. CASE Refreshed
    <2>1. refresh \in People /\ cookie # 0 /\ refresh = owner[cookie]
      BY <1>2 DEF SessionInv, SessionTypeOK, Refreshed, Expired
    <2>2. Issue(refresh)
      BY <1>2 DEF Refreshed
    <2>3. SessionTypeOK
      BY DEF SessionInv
    <2>4. /\ owner' \in Seq(People) /\ Grown
          /\ cookie' = Len(owner') /\ cookie' \in 1..Len(owner')
          /\ owner'[cookie'] = refresh /\ refresh' = refresh /\ dead' = dead
          /\ Len(owner') = Len(owner) + 1
      BY <2>1, <2>2, <2>3, IssueGrows
    <2> QED BY <2>1, <2>3, <2>4 DEF SessionTypeOK
  <1> QED BY <1>1, <1>2

(* A full load past the middleware. *)
LEMMA LoadsKeep ==
    ASSUME SessionTypeOK, owner' \in Seq(People), Grown,
           dead' \in 0..Len(owner'), refresh' \in People \cup {Nobody},
           cookie' \in 1..Len(owner'),
           refresh' # Nobody => refresh' = owner'[cookie'],
           NEW area \in Areas \cup PublicAreas,
           area \in StoreAreas => Role[owner'[cookie']] # "SUPER_ADMIN",
           area = "admin" => Role[owner'[cookie']] = "SUPER_ADMIN",
           Loads(area, cookie')
    PROVE  SessionInv'
  <1>1. owner'[cookie'] \in People
    OBVIOUS
  <1>2. SessionTypeOK'
    <2>1. /\ memory' \in {0, cookie'} /\ prop' \in {0, cookie'}
          /\ user' \in {owner'[cookie'], Nobody} /\ at' = area
          /\ locked' = FALSE /\ pinned' = {}
      BY DEF Loads
    <2>2. {memory', prop', cookie', dead'} \subseteq 0..Len(owner')
      BY <2>1
    <2> QED BY <1>1, <2>1, <2>2 DEF SessionTypeOK
  <1> QED
    BY <1>1, <1>2, SessionAssumption
       DEF SessionInv, Loads, InStore, OneIdentity, TokenKept, StoreAreas,
           Areas, PublicAreas

LEMMA LoadsPublic ==
    ASSUME SessionInv, SessionTypeOK, NEW area \in PublicAreas,
           Loads(area, 0), UNCHANGED <<owner, dead>>,
           \/ UNCHANGED <<cookie, refresh>>
           \/ cookie' = 0 /\ refresh' = Nobody
    PROVE  SessionInv'
  <1>1. SessionTypeOK'
    <2>1. /\ memory' = 0 /\ prop' = 0 /\ user' = Nobody /\ at' = area
          /\ locked' = FALSE /\ pinned' = {}
      BY DEF Loads, StoreAreas, PublicAreas
    <2>2. /\ owner' = owner /\ dead' = dead /\ cookie' \in {0, cookie}
          /\ refresh' \in {Nobody, refresh}
      OBVIOUS
    <2>3. {memory', prop', cookie', dead'} \subseteq 0..Len(owner')
      BY <2>1, <2>2 DEF SessionTypeOK
    <2> QED BY <2>1, <2>2, <2>3 DEF SessionTypeOK
  <1> QED
    BY <1>1 DEF SessionInv, Loads, InStore, OneIdentity, TokenKept, StoreAreas,
           Areas, PublicAreas

LEMMA BackKeeps ==
    ASSUME SessionInv, Back
    PROVE  SessionInv' /\ Grown /\ ~InStore'
  <1>1. SessionTypeOK'
    BY DEF SessionInv, SessionTypeOK, Back, Areas, StoreAreas, PublicAreas
  <1> QED
    BY <1>1 DEF SessionInv, SessionTypeOK, Back, InStore, OneIdentity,
                TokenKept, StoreAreas, Grown

LEMMA LockKeeps ==
    ASSUME SessionInv, Lock
    PROVE  SessionInv' /\ Grown /\ Carried
  <1>1. SessionTypeOK'
    BY DEF SessionInv, SessionTypeOK, Lock
  <1> QED
    BY <1>1 DEF SessionInv, SessionTypeOK, Lock, InStore, OneIdentity,
                TokenKept, Grown, Carried

LEMMA UnlockKeeps ==
    ASSUME SessionInv, NEW set \in BOOLEAN, PinUnlock(set)
    PROVE  SessionInv' /\ Grown /\ Carried
  <1>0. SessionTypeOK /\ user \in People
    BY DEF SessionInv, PinUnlock
  <1>1. /\ memory' = 0 /\ locked' = FALSE /\ user' = user /\ prop' = prop
        /\ at' = at /\ "lock" \in pinned'
        /\ pinned' \subseteq {"page", "lock", "refused"}
        /\ "page" \in pinned' <=> "page" \in pinned
    BY <1>0 DEF PinUnlock, SessionTypeOK
  <1>2. CASE set /\ Issue(user) /\ "refused" \notin pinned'
    <2>1. /\ owner' \in Seq(People) /\ Grown
          /\ cookie' \in 1..Len(owner')
          /\ owner'[cookie'] = user /\ refresh' = user /\ dead' = dead
          /\ Len(owner') = Len(owner) + 1
      BY <1>0, <1>2, IssueGrows
    <2>2. {memory', prop', cookie', dead'} \subseteq 0..Len(owner')
      BY <1>0, <1>1, <2>1 DEF SessionTypeOK
    <2>3. SessionTypeOK'
      BY <1>0, <1>1, <2>1, <2>2 DEF SessionTypeOK
    <2> QED
      BY <1>0, <1>1, <2>1, <2>3
         DEF SessionInv, SessionTypeOK, PinUnlock, InStore, OneIdentity,
             TokenKept, Grown, Carried, StoreAreas
  <1>3. CASE /\ UNCHANGED <<cookie, refresh, owner, dead>>
             /\ pinned' = pinned \cup {"lock"}
    <2>1. {memory', prop', cookie', dead'} \subseteq 0..Len(owner')
      BY <1>0, <1>1, <1>3 DEF SessionTypeOK
    <2>2. SessionTypeOK'
      BY <1>0, <1>1, <1>3, <2>1 DEF SessionTypeOK
    <2> QED
      BY <1>0, <1>1, <1>3, <2>2
         DEF SessionInv, SessionTypeOK, PinUnlock, InStore, OneIdentity,
             TokenKept, Grown, Carried, StoreAreas
  <1> QED BY <1>2, <1>3 DEF PinUnlock

LEMMA SignOutKeeps ==
    ASSUME SessionInv, NEW reached \in BOOLEAN,
           SignOut(reached) \/ AdminSignOut(reached)
    PROVE  SessionInv' /\ Grown /\ ~InStore'
  <1>0. SessionTypeOK
    BY DEF SessionInv
  <1>2. at' = "login" /\ owner' = owner
    BY DEF SignOut, AdminSignOut
  <1>3. cookie' # 0 => cookie' = cookie /\ refresh' = refresh
    BY DEF SignOut, AdminSignOut
  <1>4. /\ prop' = 0 /\ memory' \in {memory, prop} /\ dead' = dead
        /\ cookie' \in {0, cookie} /\ refresh' \in {Nobody, refresh}
        /\ locked' \in {FALSE, locked} /\ pinned' = pinned
    BY DEF SignOut, AdminSignOut
  <1>5. user' \in People \cup {Nobody}
    <2>1. user' \in {user, Nobody} \/ (prop # 0 /\ user' = owner[prop])
      BY DEF SignOut, AdminSignOut
    <2>2. prop # 0 => owner[prop] \in People
      BY <1>0 DEF SessionTypeOK
    <2> QED BY <1>0, <2>1, <2>2 DEF SessionTypeOK
  <1>1. SessionTypeOK'
    <2>1. {memory', prop', cookie', dead'} \subseteq 0..Len(owner')
      BY <1>0, <1>2, <1>4 DEF SessionTypeOK
    <2> QED BY <1>0, <1>2, <1>4, <1>5, <2>1 DEF SessionTypeOK, PublicAreas
  <1> QED
    BY <1>1, <1>2, <1>3 DEF SessionInv, SessionTypeOK, InStore, OneIdentity,
                TokenKept, StoreAreas, Grown

LEMMA NavigateKeeps ==
    ASSUME SessionInv, at \in Areas, NEW area \in Areas, Navigate(area)
    PROVE  SessionInv' /\ Grown /\ Carried
  <1>0. SessionTypeOK /\ Passes(area, user, memory)
    BY DEF SessionInv, Navigate
  <1>1. CASE /\ Admitted \/ Refreshed
             /\ Reaches(Route(owner'[cookie'], area), cookie', user, memory)
    <2>1. /\ owner' \in Seq(People) /\ Grown
          /\ cookie' \in 1..Len(owner') /\ dead' \in 0..Len(owner')
          /\ owner'[cookie'] \in People
          /\ refresh' \in People \cup {Nobody}
          /\ refresh' # Nobody => refresh' = owner'[cookie']
          /\ cookie # 0 /\ owner'[cookie'] = owner[cookie]
      BY <1>1, PassedOn
    <2> DEFINE p == owner'[cookie']
               a == Route(p, area)
    <2>2. /\ a \in Areas \cup PublicAreas
          /\ a \in StoreAreas => Role[p] # "SUPER_ADMIN"
          /\ a = "admin" => Role[p] = "SUPER_ADMIN"
      BY <2>1, RouteIn
    <2>3. Reaches(a, cookie', user, memory)
      BY <1>1
    <2>4. locked' = locked /\ pinned' = pinned
      BY DEF Navigate
    <2> HIDE DEF a
    <2>5. a \in StoreAreas => InStore
      BY <2>1, <2>2 DEF SessionInv, InStore, Areas
    <2>6. /\ at' = a /\ user' = user /\ memory' = memory
          /\ a \in StoreAreas => prop' = prop
          /\ prop' \in {0, cookie', prop}
      BY <2>3, <2>5 DEF Reaches
    <2>7. SessionTypeOK'
      BY <1>0, <2>1, <2>2, <2>4, <2>6 DEF SessionTypeOK, Grown
    <2>8. InStore' => InStore
      BY <2>5, <2>6 DEF InStore
    <2>9. \A i \in 1..Len(owner) : owner'[i] = owner[i]
      BY <2>1 DEF Grown
    <2>10. /\ InStore' => user' \in People
           /\ OneIdentity' /\ TokenKept'
      BY <2>1, <2>4, <2>6, <2>8 DEF SessionInv, OneIdentity, TokenKept
    <2>11. at' = "admin" => Role[owner'[cookie']] = "SUPER_ADMIN"
      BY <2>2, <2>6
    <2>12. InStore' /\ "page" \notin pinned' =>
             /\ prop' # 0 => owner'[prop'] = user'
             /\ memory' # 0 => owner'[memory'] = user'
      BY <1>0, <2>4, <2>6, <2>8, <2>9 DEF SessionInv, SessionTypeOK, InStore
    <2>13. SessionInv'
      BY <2>1, <2>7, <2>10, <2>11, <2>12 DEF SessionInv
    <2> QED BY <2>1, <2>13, <2>4, <2>6, <2>8 DEF Carried
  <1>2. CASE TurnedAway /\ Reaches("login", 0, user, memory)
    <2>1. /\ at' = "login" /\ prop' = 0 /\ user' = user /\ memory' = memory
      BY <1>2 DEF Reaches, StoreAreas, Areas
    <2>2. /\ pinned' = pinned /\ locked' = locked /\ owner' = owner
          /\ dead' = dead /\ cookie' = 0
          /\ refresh' \in {refresh, Nobody}
      BY <1>2 DEF Navigate, TurnedAway
    <2>3. SessionTypeOK'
      BY <1>0, <2>1, <2>2 DEF SessionTypeOK, PublicAreas
    <2> QED BY <2>1, <2>2, <2>3, <1>0
        DEF SessionInv, InStore, OneIdentity, TokenKept, StoreAreas,
            SessionTypeOK, Grown, Carried
  <1> QED BY <1>0, <1>1, <1>2 DEF Passes

LEMMA VisitKeeps ==
    ASSUME SessionInv, NEW area \in Areas \cup PublicAreas, Visit(area)
    PROVE  SessionInv' /\ Grown
  <1>0. SessionTypeOK
    BY DEF SessionInv
  <1>1. CASE /\ area \in Areas
             /\ Admitted \/ Refreshed
             /\ Loads(Route(owner'[cookie'], area), cookie')
    <2>1. /\ owner' \in Seq(People) /\ Grown
          /\ cookie' \in 1..Len(owner') /\ dead' \in 0..Len(owner')
          /\ owner'[cookie'] \in People
          /\ refresh' \in People \cup {Nobody}
          /\ refresh' # Nobody => refresh' = owner'[cookie']
      BY <1>1, PassedOn
    <2> DEFINE p == owner'[cookie']
               a == Route(p, area)
    <2>2. /\ a \in Areas \cup PublicAreas
          /\ a \in StoreAreas => Role[p] # "SUPER_ADMIN"
          /\ a = "admin" => Role[p] = "SUPER_ADMIN"
      BY <2>1, RouteIn
    <2>3. Loads(a, cookie')
      BY <1>1
    <2> HIDE DEF a
    <2> QED BY <1>0, <2>1, <2>2, <2>3, LoadsKeep
  <1>2. CASE TurnedAway /\ Loads("login", 0)
    <2>1. /\ UNCHANGED <<owner, dead>>
          /\ \/ UNCHANGED <<cookie, refresh>>
             \/ cookie' = 0 /\ refresh' = Nobody
      BY <1>2 DEF TurnedAway
    <2>2. SessionInv'
      BY <1>0, <1>2, <2>1, LoadsPublic DEF PublicAreas
    <2> QED BY <2>1, <2>2, <1>0 DEF Grown, SessionTypeOK
  <1>3. CASE /\ area \in {"login", "pin-login"}
             /\ Loads(area, 0)
             /\ UNCHANGED <<cookie, refresh, owner, dead>>
    <2>1. area \in PublicAreas
      BY <1>3 DEF PublicAreas
    <2>2. SessionInv'
      BY <1>0, <1>3, <2>1, LoadsPublic
    <2> QED BY <1>3, <2>2, <1>0 DEF Grown, SessionTypeOK
  <1> QED BY <1>1, <1>2, <1>3 DEF Visit

LEMMA SignInKeeps ==
    ASSUME SessionInv, NEW p \in People, NEW set \in BOOLEAN, SignIn(p, set)
    PROVE  SessionInv' /\ Grown
  <1>0. SessionTypeOK
    BY DEF SessionInv
  <1>1. CASE set /\ Issue(p) /\ Loads(Route(p, Home(p)), cookie')
    <2>1. /\ owner' \in Seq(People) /\ Grown
          /\ cookie' \in 1..Len(owner')
          /\ owner'[cookie'] = p /\ refresh' = p /\ dead' = dead
          /\ Len(owner') = Len(owner) + 1
      BY <1>0, <1>1, IssueGrows
    <2>2. dead' \in 0..Len(owner')
      BY <1>0, <2>1 DEF SessionTypeOK
    <2> DEFINE a == Route(p, Home(p))
    <2>3. /\ a \in Areas \cup PublicAreas
          /\ a \in StoreAreas => Role[p] # "SUPER_ADMIN"
          /\ a = "admin" => Role[p] = "SUPER_ADMIN"
      BY HomeIn, RouteIn
    <2>4. Loads(a, cookie')
      BY <1>1
    <2> HIDE DEF a
    <2> QED BY <1>0, <2>1, <2>2, <2>3, <2>4, LoadsKeep
  <1>2. CASE Visit(Home(p))
    BY <1>2, HomeIn, VisitKeeps
  <1> QED BY <1>1, <1>2 DEF SignIn

(* The PIN page pushes the next page with the user p in the store and no   *)
(* token, whether its tokens were stored or not.                           *)
LEMMA PinSignInKeeps ==
    ASSUME SessionInv, NEW p \in People, NEW set \in BOOLEAN,
           PinSignIn(p, set)
    PROVE  SessionInv' /\ Grown /\ "page" \in pinned'
  <1>0. SessionTypeOK /\ p # Nobody
    BY SessionAssumption DEF SessionInv
  <1>1. /\ locked' = locked /\ at = "pin-login" /\ ~InStore
        /\ "page" \in pinned'
        /\ pinned' \subseteq {"page", "lock", "refused"}
    BY <1>0 DEF PinSignIn, SessionTypeOK, InStore, StoreAreas
  <1>2. ASSUME NEW q \in People, NEW to \in Areas \cup PublicAreas,
               owner' \in Seq(People), Grown,
               cookie' \in 1..Len(owner'), dead' \in 0..Len(owner'),
               owner'[cookie'] = q, refresh' \in {q, Nobody},
               q = p \/ "refused" \in pinned',
               Reaches(Route(q, to), cookie', p, 0)
        PROVE  SessionInv' /\ Grown
    <2> DEFINE a == Route(q, to)
    <2>1. /\ a \in Areas \cup PublicAreas
          /\ a \in StoreAreas => Role[q] # "SUPER_ADMIN"
          /\ a = "admin" => Role[q] = "SUPER_ADMIN"
      BY RouteIn
    <2>2. Reaches(a, cookie', p, 0)
      BY <1>2
    <2> HIDE DEF a
    <2>3. /\ at' = a /\ prop' \in {0, cookie'} /\ user' = p /\ memory' = 0
      BY <1>0, <1>1, <2>2 DEF Reaches
    <2>4. {memory', prop', cookie', dead'} \subseteq 0..Len(owner')
      BY <1>2, <2>3
    <2>5. SessionTypeOK'
      BY <1>0, <1>1, <1>2, <2>1, <2>3, <2>4 DEF SessionTypeOK
    <2> QED
      BY <1>1, <1>2, <2>1, <2>3, <2>5
         DEF SessionInv, InStore, OneIdentity, TokenKept
  <1>3. PinHome(p) \in Areas \cup PublicAreas
    BY HomeIn
  <1>4. CASE set /\ Issue(p) /\ Reaches(Route(p, PinHome(p)), cookie', p, 0)
    <2>1. /\ owner' \in Seq(People) /\ Grown
          /\ cookie' \in 1..Len(owner')
          /\ owner'[cookie'] = p /\ refresh' = p /\ dead' = dead
          /\ Len(owner') = Len(owner) + 1
      BY <1>0, <1>4, IssueGrows
    <2>2. dead' \in 0..Len(owner')
      BY <1>0, <2>1 DEF SessionTypeOK
    <2> QED BY <1>1, <1>2, <1>3, <1>4, <2>1, <2>2
  <1>5. CASE Passes(PinHome(p), p, 0) /\ "refused" \in pinned'
    <2>1. CASE /\ Admitted \/ Refreshed
               /\ Reaches(Route(owner'[cookie'], PinHome(p)), cookie', p, 0)
      <3>1. /\ owner' \in Seq(People) /\ Grown
            /\ cookie' \in 1..Len(owner') /\ dead' \in 0..Len(owner')
            /\ owner'[cookie'] \in People
            /\ refresh' \in {owner'[cookie'], Nobody}
        BY <2>1, PassedOn
      <3> QED BY <1>1, <1>2, <1>3, <1>5, <2>1, <3>1
    <2>2. CASE TurnedAway /\ Reaches("login", 0, p, 0)
      <3>1. at' = "login" /\ prop' = 0 /\ user' = p /\ memory' = 0
        BY <2>2 DEF Reaches, StoreAreas
      <3>2. /\ owner' = owner /\ dead' = dead /\ cookie' = 0
            /\ refresh' \in {refresh, Nobody}
        BY <2>2 DEF TurnedAway
      <3>3. SessionTypeOK'
        BY <1>0, <1>1, <3>1, <3>2 DEF SessionTypeOK, PublicAreas
      <3> QED
        BY <1>0, <1>1, <3>1, <3>2, <3>3
           DEF SessionInv, InStore, OneIdentity, TokenKept, StoreAreas,
               SessionTypeOK, Grown
    <2> QED BY <1>5, <2>1, <2>2 DEF Passes
  <1> QED BY <1>1, <1>4, <1>5 DEF PinSignIn

LEMMA TimeKeeps ==
    ASSUME SessionInv, TokenExpires \/ CookieDropped \/ RefreshDropped
    PROVE  SessionInv' /\ Grown /\ Carried
  <1>2. /\ UNCHANGED <<user, memory, prop, owner, at, locked, pinned>>
        /\ cookie' \in {0, cookie} /\ refresh' \in {Nobody, refresh}
        /\ \/ dead' = dead
           \/ dead < Len(owner) /\ dead' = dead + 1
    <2>1. CASE TokenExpires
      BY <2>1 DEF TokenExpires
    <2>2. CASE CookieDropped
      BY <2>2 DEF CookieDropped
    <2>3. CASE RefreshDropped
      BY <2>3 DEF RefreshDropped
    <2> QED BY <2>1, <2>2, <2>3
  <1>1. SessionTypeOK'
    <2>0. SessionTypeOK
      BY DEF SessionInv
    <2>1. dead' \in 0..Len(owner)
      BY <1>2, <2>0 DEF SessionTypeOK
    <2>2. {memory', prop', cookie', dead'} \subseteq 0..Len(owner')
      BY <1>2, <2>0, <2>1 DEF SessionTypeOK
    <2> QED BY <1>2, <2>0, <2>2 DEF SessionTypeOK
  <1>3. Grown /\ Carried
    BY <1>2 DEF SessionInv, SessionTypeOK, Grown, Carried, InStore
  <1>4. SessionInv'
    BY <1>1, <1>2 DEF SessionInv, InStore, OneIdentity, TokenKept
  <1> QED BY <1>3, <1>4

(***************************************************************************)
(* The pages.                                                              *)
(***************************************************************************)
EntryRow(c) ==
    [has : BOOLEAN, got : 0..c, who : People \cup {Nobody},
     fresh : BOOLEAN, doubtful : BOOLEAN, failed : BOOLEAN]
AskRow(c, n) ==
    [slot : Slots, read : BOOLEAN, got : 0..c, late : BOOLEAN,
     token : 0..n]
Stages == {"closed", "open", "sent", "saved", "refused"}
FormRow(c) ==
    [stage : Stages, shown : BOOLEAN, base : 0..c, hasty : BOOLEAN,
     at : 0..c, before : EntryRow(c)]

PagesInv ==
    /\ view \in Views
    /\ page \in Screens \cup {"none"} /\ filter \in Filters
    /\ typed \in SUBSET Filters
    /\ clock \in 0..MaxWrites
    /\ cache \in [Slots -> EntryRow(clock)]
    /\ asks \subseteq AskRow(clock, Len(owner))
    /\ \A a \in asks : a.read => a.token # 0
    /\ forms \in [Ids -> FormRow(clock)]
    /\ \A f \in view.forms : forms[f.id].before.has => GuessSlot(f) \in Slots
    /\ mine \in [Ids -> 0..clock]
    /\ moves \in 0..view.moves

(* The later entry c holds what the entry e held, and is no fresher. *)
KeptEntry(e, c) ==
    /\ c.has = e.has /\ c.got = e.got /\ c.who = e.who
    /\ c.fresh /\ ~c.doubtful => e.fresh /\ ~e.doubtful

(* An entry goes, is kept, holds an answer that was read, or is put back. *)
EntryStep(s) ==
    \/ cache'[s] = NoEntry
    \/ KeptEntry(cache[s], cache'[s])
    \/ \E a \in asks :
          /\ a.read /\ a.slot = s
          /\ cache'[s].got = a.got
          /\ cache'[s].who = owner[a.token] /\ cache'[s].doubtful = a.late
    \/ \E f \in view.forms :
          /\ s = GuessSlot(f) /\ forms[f.id].before.has
          /\ cache'[s].got = forms[f.id].before.got
          /\ cache'[s].who = forms[f.id].before.who
          /\ cache'[s].doubtful

(* A request is still under way, is read by the server now, or is new. *)
OldAsk(a, b) ==
    /\ b.slot = a.slot /\ b.read = a.read /\ b.got = a.got
    /\ b.token = a.token /\ (~b.late => ~a.late)
ReadNow(a, b) ==
    /\ ~a.read /\ a.token > dead
    /\ b = [a EXCEPT !.read = TRUE, !.got = clock]
NewAsk(b) == \E r \in view.reads, g \in {filter, filter'} : b = Ask(r, g)
AskStep(b) ==
    \/ NewAsk(b)
    \/ \E a \in asks : OldAsk(a, b) \/ ReadNow(a, b)

(* What a form keeps to take back a guess is the entry of that moment. *)
BeforeStep(f) ==
    \/ ~forms'[f.id].before.has
    \/ forms'[f.id].before = forms[f.id].before
    \/ GuessSlot(f) \in Slots /\ forms'[f.id].before = cache[GuessSlot(f)]

(* A write is acknowledged only when nothing it tells counts as fresh. *)
MineStep(f) ==
    \/ mine'[f.id] \in {0, mine[f.id]}
    \/ /\ mine'[f.id] \in 0..clock
       /\ \A s \in Slots : Told(f, s[1]) =>
             ~(cache'[s].has /\ cache'[s].fresh /\ ~cache'[s].doubtful)
       /\ \A a \in asks' : Told(f, a.slot[1]) => ~a.read \/ a.late

(* What any step of the client may do to the pages. *)
PageStep ==
    /\ view' = view
    /\ page' \in Screens \cup {"none"} /\ filter' \in Filters
    /\ typed' \in SUBSET Filters
    /\ clock' \in clock..MaxWrites
    /\ cache' \in [Slots -> EntryRow(clock')]
    /\ \A b \in asks' : b \in AskRow(clock', Len(owner'))
    /\ forms' \in [Ids -> FormRow(clock')]
    /\ mine' \in [Ids -> 0..clock']
    /\ moves' \in 0..view.moves
    /\ \A s \in Slots : EntryStep(s)
    /\ \A b \in asks' : AskStep(b)
    /\ \A f \in view.forms : BeforeStep(f) /\ MineStep(f)

(* ... and to a reader that is mounted and at rest after it. *)
RestStep(r) ==
    r.how # "raced" /\ Settled(r)' =>
        \/ Entry(r)'.fresh
        \/ /\ r \in Mounted /\ Settled(r)
           /\ Slot(r, filter') = Slot(r, filter)
           /\ Entry(r)'.got = Entry(r).got
           /\ \A f \in view.forms :
                 Told(f, r.key) => mine'[f.id] \in {0, mine[f.id]}

MountedStep == \A r \in Mounted' : RestStep(r)

(***************************************************************************)
(* The table.                                                              *)
(***************************************************************************)
LEMMA NoneIsNoScreen ==
    /\ "none" \notin Screens
    /\ {"dashboard", "pos", "stock", "console"} \subseteq Screens
  BY DEF Screens, Screen

LEMMA SlotIs == \A r, g : Slot(r, g)[1] = r.key
  BY DEF Slot

LEMMA OfView ==
    ASSUME view \in Views
    PROVE  /\ \A s : MountedOn(s) \subseteq view.reads
           /\ \A s : FormsOn(s) \subseteq view.forms
           /\ Tour \subseteq Screens
           /\ \A f \in view.forms : f.id \in Ids
           /\ \A f, g \in view.forms : f.id = g.id => f = g
           /\ view.moves \in Nat
           /\ \A r \in view.reads, g \in Filters : Slot(r, g) \in Slots
           /\ \A f \in view.forms :
                 f.guesses # NoKey => GuessSlot(f) \in Slots
           /\ \A q, r \in view.reads :
                 q.key = r.key => q.of = r.of
           /\ \A r \in view.reads : r.key # NoKey
  <1>1. /\ \A s : MountedOn(s) \subseteq view.reads
        /\ \A s : FormsOn(s) \subseteq view.forms
        /\ Tour \subseteq Screens
    BY ViewsAssumption DEF MountedOn, FormsOn, Tour
  <1>2. /\ \A f \in view.forms : f.id \in Ids
        /\ \A f, g \in view.forms : f.id = g.id => f = g
        /\ view.moves \in Nat
        /\ \A r \in view.reads : r.key # NoKey
    BY ViewsAssumption, KeysAssumption DEF Ids
  <1>3. \A r \in view.reads, g \in Filters : Slot(r, g) \in Slots
    BY DEF Slots
  <1>4. ASSUME NEW f \in view.forms, f.guesses # NoKey
        PROVE  GuessSlot(f) \in Slots
    <2>1. PICK r \in view.reads : r.key = f.guesses
      BY <1>4, KeysAssumption
    <2>2. Slot(r, 0) = GuessSlot(f)
      BY <2>1 DEF Slot, GuessSlot
    <2>3. 0 \in Filters
      BY DEF Filters
    <2> QED BY <1>3, <2>2, <2>3
  <1>5. ASSUME NEW q \in view.reads, NEW r \in view.reads, q.key = r.key
        PROVE  q.of = r.of
    BY <1>5, KeysAssumption
  <1> QED BY <1>1, <1>2, <1>3, <1>4, <1>5

LEMMA SameView ==
    ASSUME view' = view
    PROVE  /\ Slots' = Slots /\ Ids' = Ids /\ Tour' = Tour
           /\ \A s : MountedOn(s)' = MountedOn(s)
           /\ \A c : EntryRow(c)' = EntryRow(c)
           /\ \A c, n : AskRow(c, n)' = AskRow(c, n)
           /\ \A c : FormRow(c)' = FormRow(c)
  BY DEF Slots, Ids, Tour, MountedOn, EntryRow, AskRow, FormRow

LEMMA NoEntryRow == \A c \in Nat : NoEntry \in EntryRow(c)
  BY DEF NoEntry, EntryRow

LEMMA NoFormRow == \A c \in Nat : NoForm \in FormRow(c)
  BY NoEntryRow DEF NoForm, FormRow, Stages

LEMMA RowsGrow ==
    ASSUME NEW c \in Nat, NEW d \in Nat, c <= d
    PROVE  EntryRow(c) \subseteq EntryRow(d) /\ FormRow(c) \subseteq FormRow(d)
  <1>1. EntryRow(c) \subseteq EntryRow(d)
    BY DEF EntryRow
  <1> QED BY <1>1 DEF FormRow

LEMMA NewAskRow ==
    ASSUME SessionTypeOK', PagesInv, NEW r \in view.reads, NEW g \in Filters,
           NEW c \in Nat
    PROVE  Ask(r, g) \in AskRow(c, Len(owner'))
  <1>1. Slot(r, g) \in Slots
    BY OfView DEF PagesInv
  <1>2. (IF r.fed THEN prop' ELSE memory') \in 0..Len(owner')
    BY DEF SessionTypeOK
  <1> QED BY <1>1, <1>2 DEF Ask, AskRow

LEMMA AskIs ==
    \A r, g : /\ Ask(r, g).slot = Slot(r, g)
              /\ ~Ask(r, g).read /\ Ask(r, g).got = 0 /\ ~Ask(r, g).late
              /\ Ask(r, g).token \in {prop', memory'}
  BY DEF Ask

(***************************************************************************)
(* A page step keeps what is known of the pages.                           *)
(***************************************************************************)
(* In the store, all there is was answered to the person shown. *)
OfItsUser(e) == e.has => e.who = user
DataInv ==
    InStore /\ "page" \notin pinned =>
        /\ \A s \in Slots : OfItsUser(cache[s])
        /\ \A a \in asks : a.token # 0 => owner[a.token] = user
        /\ \A f \in view.forms : OfItsUser(forms[f.id].before)

(* A fresh entry, and an answer read in time, hold the writes that were    *)
(* acknowledged by forms that tell it.                                     *)
ToldInv ==
    \A f \in view.forms :
        /\ \A s \in Slots :
              Told(f, s[1]) /\ cache[s].has /\ cache[s].fresh
                /\ ~cache[s].doubtful => cache[s].got >= mine[f.id]
        /\ \A a \in asks :
              Told(f, a.slot[1]) /\ a.read /\ ~a.late => a.got >= mine[f.id]

(* Nothing of the last load is left. *)
Anew ==
    /\ \A s \in Slots : ~cache'[s].has
    /\ \A b \in asks' : NewAsk(b)
    /\ \A f \in view.forms : ~forms'[f.id].before.has

LEMMA PagesKept ==
    ASSUME SessionTypeOK, SessionTypeOK', PagesInv, PageStep
    PROVE  PagesInv'
  <1>a. view' = view /\ view' \in Views /\ view'.moves = view.moves
    BY DEF PagesInv, PageStep
  <1>b. Slots' = Slots /\ Ids' = Ids
    BY <1>a, SameView
  <1>c. clock' \in 0..MaxWrites
    <2>1. clock \in 0..MaxWrites /\ clock' \in clock..MaxWrites
      BY DEF PagesInv, PageStep
    <2>2. MaxWrites \in Nat
      BY ViewsAssumption
    <2> QED BY <2>1, <2>2
  <1>d. EntryRow(clock)' = EntryRow(clock')
    BY DEF EntryRow
  <1>e. AskRow(clock, Len(owner))' = AskRow(clock', Len(owner'))
    BY <1>b DEF AskRow
  <1>f. FormRow(clock)' = FormRow(clock')
    BY <1>d DEF FormRow, EntryRow
  <1>2. ASSUME NEW b \in asks', b.read
        PROVE  b.token # 0
    <2>1. CASE NewAsk(b)
      BY <1>2, <2>1, AskIs DEF NewAsk
    <2>2. ASSUME NEW a \in asks, OldAsk(a, b)
          PROVE  b.token # 0
      BY <1>2, <2>2 DEF OldAsk, PagesInv
    <2>3. ASSUME NEW a \in asks, ReadNow(a, b)
          PROVE  b.token # 0
      <3>1. b.token = a.token /\ a.token > dead
        BY <2>3 DEF ReadNow, PagesInv, AskRow
      <3>2. dead \in 0..Len(owner)
        BY DEF SessionTypeOK
      <3>3. a.token \in 0..Len(owner)
        BY DEF PagesInv, AskRow
      <3> QED BY <3>1, <3>2, <3>3
    <2> QED BY <2>1, <2>2, <2>3 DEF PageStep, AskStep
  <1>3. asks' \subseteq AskRow(clock', Len(owner'))
    BY DEF PageStep
  <1>4. /\ cache' \in [Slots' -> EntryRow(clock)']
        /\ forms' \in [Ids' -> FormRow(clock)']
        /\ mine' \in [Ids' -> 0..clock']
    BY <1>b, <1>d, <1>f DEF PageStep
  <1>5. /\ page' \in Screens \cup {"none"} /\ filter' \in Filters
        /\ typed' \in SUBSET Filters /\ moves' \in 0..view'.moves
    BY <1>a DEF PageStep
  <1>6. ASSUME NEW f \in view.forms, forms'[f.id].before.has
        PROVE  GuessSlot(f) \in Slots
    <2>1. BeforeStep(f)
      BY DEF PageStep
    <2> QED BY <1>6, <2>1 DEF BeforeStep, PagesInv
  <1>7. \A f \in view'.forms :
            forms'[f.id].before.has => GuessSlot(f)' \in Slots'
    BY <1>a, <1>b, <1>6 DEF GuessSlot
  <1> QED BY <1>a, <1>c, <1>e, <1>2, <1>3, <1>4, <1>5, <1>7 DEF PagesInv

LEMMA DataKept ==
    ASSUME SessionInv, SessionInv', Grown, PagesInv, PageStep,
           Carried \/ Anew, DataInv
    PROVE  DataInv'
  <1>0. /\ Slots' = Slots /\ view' = view
    BY SameView DEF PageStep
  <1> SUFFICES ASSUME InStore', "page" \notin pinned'
               PROVE  /\ \A s \in Slots : cache'[s].has => cache'[s].who = user'
                      /\ \A b \in asks' :
                            b.token # 0 => owner'[b.token] = user'
                      /\ \A f \in view.forms :
                            forms'[f.id].before.has
                              => forms'[f.id].before.who = user'
    BY <1>0 DEF DataInv, OfItsUser
  <1>1. ASSUME NEW b \in asks', NewAsk(b), b.token # 0
        PROVE  owner'[b.token] = user'
    <2>1. b.token \in {prop', memory'}
      BY <1>1, AskIs DEF NewAsk
    <2> QED BY <1>1, <2>1 DEF SessionInv
  <1>2. CASE Anew
    BY <1>1, <1>2 DEF Anew
  <1>3. CASE Carried
    <2>1. user' = user /\ InStore /\ "page" \notin pinned
      BY <1>3 DEF Carried
    <2>2. /\ \A s \in Slots : OfItsUser(cache[s])
          /\ \A a \in asks : a.token # 0 => owner[a.token] = user
          /\ \A f \in view.forms : OfItsUser(forms[f.id].before)
      BY <2>1 DEF DataInv
    <2>3. \A a \in asks : a.token # 0 => owner'[a.token] = owner[a.token]
      BY DEF Grown, PagesInv, AskRow
    <2>4. ASSUME NEW s \in Slots, cache'[s].has
          PROVE  cache'[s].who = user'
      <3>1. EntryStep(s)
        BY DEF PageStep
      <3>0. cache'[s] # NoEntry
        BY <2>4 DEF NoEntry
      <3>2. CASE KeptEntry(cache[s], cache'[s])
        BY <2>1, <2>2, <2>4, <3>2 DEF KeptEntry, OfItsUser
      <3>3. ASSUME NEW a \in asks, a.read, cache'[s].who = owner[a.token]
            PROVE  cache'[s].who = user'
        BY <2>1, <2>2, <3>3 DEF PagesInv
      <3>4. ASSUME NEW f \in view.forms, forms[f.id].before.has,
                   cache'[s].who = forms[f.id].before.who
            PROVE  cache'[s].who = user'
        BY <2>1, <2>2, <3>4 DEF OfItsUser
      <3> QED BY <3>0, <3>1, <3>2, <3>3, <3>4 DEF EntryStep
    <2>5. ASSUME NEW b \in asks', b.token # 0
          PROVE  owner'[b.token] = user'
      <3>1. ASSUME NEW a \in asks, OldAsk(a, b)
            PROVE  owner'[b.token] = user'
        BY <2>1, <2>2, <2>3, <2>5, <3>1 DEF OldAsk
      <3>2. ASSUME NEW a \in asks, ReadNow(a, b)
            PROVE  owner'[b.token] = user'
        <4>1. b.token = a.token
          BY <3>2 DEF ReadNow, PagesInv, AskRow
        <4> QED BY <2>1, <2>2, <2>3, <2>5, <4>1
      <3> QED BY <1>1, <2>5, <3>1, <3>2 DEF PageStep, AskStep
    <2>6. ASSUME NEW f \in view.forms, forms'[f.id].before.has
          PROVE  forms'[f.id].before.who = user'
      <3>1. BeforeStep(f)
        BY DEF PageStep
      <3> QED BY <2>1, <2>2, <2>6, <3>1 DEF BeforeStep, OfItsUser
    <2> QED BY <2>4, <2>5, <2>6
  <1> QED BY <1>2, <1>3

LEMMA ToldKept ==
    ASSUME SessionTypeOK, PagesInv, PageStep, ToldInv
    PROVE  ToldInv'
  <1>0. /\ Slots' = Slots /\ view' = view
        /\ \A f, k : Told(f, k)' <=> Told(f, k)
    BY SameView DEF PageStep, Told
  <1>00. /\ clock \in Nat
         /\ \A f \in view.forms : mine[f.id] \in 0..clock
    <2>1. clock \in Nat
      <3>1. clock \in 0..MaxWrites
        BY DEF PagesInv
      <3> QED BY <3>1
    <2>2. \A f \in view.forms : f.id \in Ids
      BY OfView DEF PagesInv
    <2> QED BY <2>1, <2>2 DEF PagesInv
  <1> SUFFICES ASSUME NEW f \in view.forms
               PROVE  /\ \A s \in Slots :
                            Told(f, s[1]) /\ cache'[s].has /\ cache'[s].fresh
                              /\ ~cache'[s].doubtful
                            => cache'[s].got >= mine'[f.id]
                      /\ \A b \in asks' :
                            Told(f, b.slot[1]) /\ b.read /\ ~b.late
                            => b.got >= mine'[f.id]
    BY <1>0 DEF ToldInv
  <1>1. MineStep(f)
    BY DEF PageStep
  <1>2. ASSUME NEW s \in Slots, Told(f, s[1]), cache'[s].has, cache'[s].fresh,
               ~cache'[s].doubtful
        PROVE  cache'[s].got >= mine'[f.id]
    <2>1. cache'[s].got \in Nat
      BY DEF PageStep, EntryRow
    <2>2. mine'[f.id] \in {0, mine[f.id]}
      BY <1>1, <1>2 DEF MineStep
    <2>3. cache'[s].got >= mine[f.id]
      <3>1. EntryStep(s)
        BY DEF PageStep
      <3>2. cache'[s] # NoEntry
        BY <1>2 DEF NoEntry
      <3>3. CASE KeptEntry(cache[s], cache'[s])
        BY <1>2, <3>3 DEF KeptEntry, ToldInv
      <3>4. ASSUME NEW a \in asks, a.read, a.slot = s, cache'[s].got = a.got,
                   cache'[s].doubtful = a.late
            PROVE  cache'[s].got >= mine[f.id]
        BY <1>2, <3>4 DEF ToldInv
      <3> QED BY <1>2, <3>1, <3>2, <3>3, <3>4 DEF EntryStep
    <2> QED BY <1>00, <2>1, <2>2, <2>3
  <1>3. ASSUME NEW b \in asks', Told(f, b.slot[1]), b.read, ~b.late
        PROVE  b.got >= mine'[f.id]
    <2>1. b.got \in Nat
      BY DEF PageStep, AskRow
    <2>2. mine'[f.id] \in {0, mine[f.id]}
      BY <1>1, <1>3 DEF MineStep
    <2>3. b.got >= mine[f.id]
      <3>1. ~NewAsk(b)
        BY <1>3, AskIs DEF NewAsk
      <3>2. ASSUME NEW a \in asks, OldAsk(a, b)
            PROVE  b.got >= mine[f.id]
        BY <1>3, <3>2 DEF OldAsk, ToldInv
      <3>3. ASSUME NEW a \in asks, ReadNow(a, b)
            PROVE  b.got >= mine[f.id]
        <4>1. b.got = clock
          BY <3>3 DEF ReadNow, PagesInv, AskRow
        <4> QED BY <1>00, <4>1
      <3> QED BY <3>1, <3>2, <3>3 DEF PageStep, AskStep
    <2> QED BY <1>00, <2>1, <2>2, <2>3
  <1> QED BY <1>2, <1>3

(***************************************************************************)
(* Each action of the pages is a page step.                                *)
(***************************************************************************)
LEMMA PagesFacts ==
    ASSUME PagesInv
    PROVE  /\ clock \in Nat /\ clock \in clock..MaxWrites
           /\ MaxWrites \in Nat /\ clock <= clock
           /\ \A s \in Slots : cache[s] \in EntryRow(clock)
           /\ \A i \in Ids : forms[i] \in FormRow(clock) /\ mine[i] \in 0..clock
           /\ moves \in Nat /\ view.moves \in Nat
           /\ NoEntry \in EntryRow(clock) /\ NoForm \in FormRow(clock)
           /\ ~NoEntry.has /\ ~NoForm.before.has
  <1>1. clock \in 0..MaxWrites /\ MaxWrites \in Nat
    <2>1. clock \in 0..MaxWrites
      BY DEF PagesInv
    <2>2. MaxWrites \in Nat
      BY ViewsAssumption
    <2> QED BY <2>1, <2>2
  <1>2. /\ clock \in Nat /\ clock \in clock..MaxWrites
        /\ MaxWrites \in Nat /\ clock <= clock
    BY <1>1
  <1>3. view.moves \in Nat
    BY OfView DEF PagesInv
  <1>4. moves \in Nat
    BY <1>3 DEF PagesInv
  <1>5. /\ \A s \in Slots : cache[s] \in EntryRow(clock)
        /\ \A i \in Ids : forms[i] \in FormRow(clock) /\ mine[i] \in 0..clock
    BY DEF PagesInv
  <1>6. ~NoEntry.has /\ ~NoForm.before.has
    BY DEF NoEntry, NoForm
  <1> QED BY <1>2, <1>3, <1>4, <1>5, <1>6, NoEntryRow, NoFormRow

LEMMA MovesCount ==
    ASSUME PagesInv, Moves \/ UNCHANGED moves
    PROVE  moves' \in 0..view.moves
  BY PagesFacts DEF PagesInv, Moves

(* Asks that are still there, of a session that has grown. *)
LEMMA OldAskRows ==
    ASSUME PagesInv, SessionTypeOK, SessionTypeOK', Grown, NEW d \in Nat,
           clock <= d, NEW a \in asks
    PROVE  a \in AskRow(d, Len(owner'))
  <1>1. Len(owner) \in Nat /\ Len(owner') \in Nat /\ Len(owner) <= Len(owner')
    BY DEF SessionTypeOK, Grown
  <1>2. a \in AskRow(clock, Len(owner)) /\ clock \in Nat
    BY PagesFacts DEF PagesInv
  <1>3. a.got \in 0..d /\ a.token \in 0..Len(owner')
    BY <1>1, <1>2 DEF AskRow
  <1> QED BY <1>2, <1>3 DEF AskRow

LEMMA SlotKept ==
    ASSUME NEW s, cache'[s] = cache[s]
    PROVE  EntryStep(s)
  BY DEF EntryStep, KeptEntry

LEMMA AskKept ==
    ASSUME NEW a \in asks
    PROVE  AskStep(a)
  BY DEF AskStep, OldAsk

LEMMA BeforeKept ==
    ASSUME NEW f \in view.forms, forms'[f.id].before = forms[f.id].before
    PROVE  BeforeStep(f)
  BY DEF BeforeStep

(* The forms alone change. *)
LEMMA FormsOnly ==
    ASSUME PagesInv, SessionTypeOK, SessionTypeOK', Grown,
           UNCHANGED <<view, page, filter, cache, asks, mine>>,
           typed' \in SUBSET Filters, clock' \in clock..MaxWrites,
           moves' \in 0..view.moves,
           forms' \in [Ids -> FormRow(clock')],
           \A f \in view.forms : BeforeStep(f)
    PROVE  PageStep /\ MountedStep
  <1>1. clock \in Nat /\ clock' \in Nat /\ clock <= clock'
    BY PagesFacts
  <1>2. cache' \in [Slots -> EntryRow(clock')]
    <2>1. EntryRow(clock) \subseteq EntryRow(clock')
      BY <1>1, RowsGrow
    <2> QED BY <2>1 DEF PagesInv
  <1>3. \A b \in asks' : b \in AskRow(clock', Len(owner')) /\ AskStep(b)
    BY <1>1, OldAskRows, AskKept
  <1>4. mine' \in [Ids -> 0..clock']
    BY <1>1 DEF PagesInv
  <1>5. \A s \in Slots : EntryStep(s)
    BY SlotKept
  <1>6. \A f \in view.forms : MineStep(f)
    BY DEF MineStep
  <1>7. PageStep
    BY <1>2, <1>3, <1>4, <1>5, <1>6 DEF PageStep, PagesInv
  <1>8. Mounted' = Mounted
    BY SameView DEF Mounted, MountedOn, Tour
  <1>9. MountedStep
    BY <1>8 DEF MountedStep, RestStep, Settled, Entry, Unasked, Asking
  <1> QED BY <1>7, <1>9

LEMMA SameSession ==
    ASSUME UNCHANGED sessionVars, SessionTypeOK
    PROVE  SessionTypeOK' /\ Grown /\ Carried
  BY DEF sessionVars, SessionTypeOK, Grown, Carried, InStore

LEMMA QuietStep ==
    ASSUME PagesInv, SessionTypeOK, SessionTypeOK', Grown, UNCHANGED pageVars
    PROVE  PageStep /\ MountedStep
  <1>1. /\ UNCHANGED <<view, page, filter, cache, asks, mine>>
        /\ typed' = typed /\ clock' = clock /\ moves' = moves /\ forms' = forms
    BY DEF pageVars
  <1>2. \A f \in view.forms : BeforeStep(f)
    BY <1>1, BeforeKept
  <1>3. clock \in clock..MaxWrites
    BY PagesFacts
  <1> QED BY <1>1, <1>2, <1>3, FormsOnly DEF PagesInv

LEMMA TypeStep ==
    ASSUME PagesInv, SessionTypeOK, UNCHANGED sessionVars,
           NEW n \in Filters, Type(n)
    PROVE  PageStep /\ MountedStep
  <1>1. /\ UNCHANGED <<view, page, filter, cache, asks, mine>>
        /\ typed' = {n} /\ clock' = clock /\ forms' = forms
        /\ Moves
    BY DEF Type
  <1>2. \A f \in view.forms : BeforeStep(f)
    BY <1>1, BeforeKept
  <1>3. clock \in clock..MaxWrites
    BY PagesFacts
  <1>4. moves' \in 0..view.moves
    BY <1>1, MovesCount
  <1>5. typed' \in SUBSET Filters
    BY <1>1
  <1> QED BY <1>1, <1>2, <1>3, <1>4, <1>5, FormsOnly, SameSession DEF PagesInv

LEMMA OpenStep ==
    ASSUME PagesInv, SessionTypeOK, UNCHANGED sessionVars,
           NEW f \in view.forms, Open(f)
    PROVE  PageStep /\ MountedStep
  <1>1. /\ UNCHANGED <<view, page, filter, typed, clock, cache, asks, mine>>
        /\ Moves
    BY DEF Open
  <1>2. PICK row \in FormRow(clock) :
            forms' = [forms EXCEPT ![f.id] = row] /\ ~row.before.has
    <2>1. CASE f.edits = NoKey
      <3>1. [NoForm EXCEPT !.stage = "open", !.shown = TRUE] \in FormRow(clock)
        BY PagesFacts DEF FormRow, Stages
      <3>2. ~[NoForm EXCEPT !.stage = "open", !.shown = TRUE].before.has
        BY DEF NoForm, NoEntry
      <3> QED BY <2>1, <3>1, <3>2 DEF Open
    <2>2. CASE f.edits # NoKey
      <3>1. PICK r \in Mounted :
              forms' = [forms EXCEPT ![f.id] =
                    [NoForm EXCEPT
                        !.stage = "open", !.shown = TRUE,
                        !.base = Entry(r).got,
                        !.hasty = \/ ~Settled(r)
                                  \/ \E g \in view.forms :
                                        Overlap(g, r) /\ InFlight(g)]]
        BY <2>2 DEF Open
      <3> DEFINE hasty == \/ ~Settled(r)
                          \/ \E g \in view.forms : Overlap(g, r) /\ InFlight(g)
                 row == [NoForm EXCEPT !.stage = "open", !.shown = TRUE,
                                       !.base = Entry(r).got, !.hasty = hasty]
      <3>2. r \in view.reads
        BY OfView DEF Mounted, PagesInv
      <3>3. Slot(r, filter) \in Slots
        BY <3>2, OfView DEF PagesInv
      <3>4. Entry(r).got \in 0..clock
        BY <3>3, PagesFacts DEF Entry, EntryRow
      <3>5. hasty \in BOOLEAN
        OBVIOUS
      <3> HIDE DEF hasty
      <3>6. row \in FormRow(clock)
        BY <3>4, <3>5, PagesFacts DEF FormRow, Stages
      <3>7. ~row.before.has
        BY DEF NoForm, NoEntry
      <3>8. forms' = [forms EXCEPT ![f.id] = row]
        BY <3>1 DEF hasty
      <3> HIDE DEF row
      <3> QED BY <3>6, <3>7, <3>8
    <2> QED BY <2>1, <2>2
  <1>3. forms' \in [Ids -> FormRow(clock)]
    BY <1>2 DEF PagesInv
  <1>4. ASSUME NEW g \in view.forms
        PROVE  BeforeStep(g)
    <2>1. g.id \in Ids /\ f.id \in Ids
      BY OfView DEF PagesInv
    <2>2. CASE g.id = f.id
      BY <1>2, <2>1, <2>2 DEF PagesInv, BeforeStep
    <2>3. CASE g.id # f.id
      BY <1>2, <2>1, <2>3 DEF PagesInv, BeforeStep
    <2> QED BY <2>2, <2>3
  <1>5. clock \in clock..MaxWrites
    BY PagesFacts
  <1>6. moves' \in 0..view.moves
    BY <1>1, MovesCount
  <1> QED BY <1>1, <1>3, <1>4, <1>5, <1>6, FormsOnly, SameSession DEF PagesInv

(* The row of one form changes, and nothing it keeps to take back. *)
LEMMA OneForm ==
    ASSUME PagesInv, NEW f \in view.forms, NEW c \in Nat, clock <= c,
           NEW row \in FormRow(c), forms' = [forms EXCEPT ![f.id] = row],
           ~row.before.has \/ row.before = forms[f.id].before
    PROVE  /\ forms' \in [Ids -> FormRow(c)]
           /\ \A g \in view.forms : BeforeStep(g)
  <1>1. FormRow(clock) \subseteq FormRow(c)
    BY RowsGrow, PagesFacts
  <1>2. forms' \in [Ids -> FormRow(c)]
    BY <1>1 DEF PagesInv
  <1>3. ASSUME NEW g \in view.forms
        PROVE  BeforeStep(g)
    <2>1. g.id \in Ids /\ f.id \in Ids
      BY OfView DEF PagesInv
    <2>2. CASE g.id = f.id
      BY <2>1, <2>2 DEF PagesInv, BeforeStep
    <2>3. CASE g.id # f.id
      BY <2>1, <2>3 DEF PagesInv, BeforeStep
    <2> QED BY <2>2, <2>3
  <1> QED BY <1>2, <1>3

LEMMA CloseStep ==
    ASSUME PagesInv, SessionTypeOK, UNCHANGED sessionVars,
           NEW f \in view.forms, Close(f)
    PROVE  PageStep /\ MountedStep
  <1>1. /\ UNCHANGED <<view, page, filter, typed, clock, cache, asks, mine,
                       moves>>
    BY DEF Close
  <1> DEFINE row == Dismissed(forms[f.id])
  <1>2. f.id \in Ids /\ forms[f.id] \in FormRow(clock)
    BY OfView, PagesFacts DEF PagesInv
  <1>3. forms' = [forms EXCEPT ![f.id] = row]
    BY <1>2 DEF Close, PagesInv
  <1>4. row \in FormRow(clock)
    BY <1>2, PagesFacts DEF FormRow, Dismissed
  <1>5. ~row.before.has \/ row.before = forms[f.id].before
    BY <1>2, PagesFacts DEF Dismissed, FormRow
  <1>6. clock \in clock..MaxWrites /\ clock \in Nat /\ clock <= clock
    BY PagesFacts
  <1> HIDE DEF row
  <1>7. /\ forms' \in [Ids -> FormRow(clock)]
        /\ \A g \in view.forms : BeforeStep(g)
    BY <1>3, <1>4, <1>5, <1>6, OneForm
  <1> QED BY <1>1, <1>6, <1>7, FormsOnly, SameSession DEF PagesInv

LEMMA ServerWritesStep ==
    ASSUME PagesInv, SessionTypeOK, UNCHANGED sessionVars,
           NEW f \in view.forms, ServerWrites(f)
    PROVE  PageStep /\ MountedStep
  <1>1. /\ UNCHANGED <<view, page, filter, typed, cache, asks, mine, moves>>
        /\ clock < MaxWrites /\ clock' = clock + 1
    BY DEF ServerWrites
  <1>2. f.id \in Ids /\ forms[f.id] \in FormRow(clock)
    BY OfView, PagesFacts DEF PagesInv
  <1>3. /\ clock' \in clock..MaxWrites /\ clock' \in Nat /\ clock <= clock'
        /\ clock' \in 0..clock'
    BY <1>1, PagesFacts
  <1> DEFINE row == [forms[f.id] EXCEPT !.stage = "saved", !.at = clock']
  <1>4. forms' = [forms EXCEPT ![f.id] = row]
    BY <1>2 DEF ServerWrites, PagesInv
  <1>5. row \in FormRow(clock')
    <2>1. forms[f.id] \in FormRow(clock')
      BY <1>2, <1>3, RowsGrow, PagesFacts
    <2> QED BY <1>3, <2>1 DEF FormRow, Stages
  <1>6. row.before = forms[f.id].before
    BY <1>2 DEF FormRow
  <1> HIDE DEF row
  <1>7. /\ forms' \in [Ids -> FormRow(clock')]
        /\ \A g \in view.forms : BeforeStep(g)
    BY <1>3, <1>4, <1>5, <1>6, OneForm
  <1> QED BY <1>1, <1>3, <1>7, FormsOnly, SameSession DEF PagesInv

LEMMA ServerRefusesStep ==
    ASSUME PagesInv, SessionTypeOK, UNCHANGED sessionVars,
           NEW f \in view.forms, ServerRefuses(f)
    PROVE  PageStep /\ MountedStep
  <1>1. /\ UNCHANGED <<view, page, filter, typed, clock, cache, asks, mine,
                       moves>>
    BY DEF ServerRefuses
  <1>2. f.id \in Ids /\ forms[f.id] \in FormRow(clock)
    BY OfView, PagesFacts DEF PagesInv
  <1> DEFINE row == [forms[f.id] EXCEPT !.stage = "refused"]
  <1>3. forms' = [forms EXCEPT ![f.id] = row]
    BY <1>2 DEF ServerRefuses, PagesInv
  <1>4. row \in FormRow(clock) /\ row.before = forms[f.id].before
    BY <1>2 DEF FormRow, Stages
  <1>6. clock \in clock..MaxWrites /\ clock \in Nat /\ clock <= clock
    BY PagesFacts
  <1> HIDE DEF row
  <1>7. /\ forms' \in [Ids -> FormRow(clock)]
        /\ \A g \in view.forms : BeforeStep(g)
    BY <1>3, <1>4, <1>6, OneForm
  <1> QED BY <1>1, <1>6, <1>7, FormsOnly, SameSession DEF PagesInv

(* One entry changes; it is at rest only if it is fresh, or if it was at   *)
(* rest with the same answer.                                              *)
LEMMA OneEntry ==
    ASSUME PagesInv, SessionTypeOK, UNCHANGED sessionVars,
           UNCHANGED <<view, page, filter, typed, clock, mine>>,
           moves' \in 0..view.moves,
           NEW s \in Slots, NEW e \in EntryRow(clock),
           cache' = [cache EXCEPT ![s] = e],
           asks' \subseteq asks,
           \A a \in asks : a.slot # s => a \in asks',
           EntryStep(s),
           e.has /\ ~e.failed /\ ~e.doubtful =>
              \/ e.fresh
              \/ /\ asks' = asks /\ e.got = cache[s].got
                 /\ cache[s].has /\ ~cache[s].failed /\ ~cache[s].doubtful,
           forms' \in [Ids -> FormRow(clock)],
           \A f \in view.forms : BeforeStep(f)
    PROVE  PageStep /\ MountedStep
  <1>0. clock \in Nat /\ clock <= clock /\ clock \in clock..MaxWrites
    BY PagesFacts
  <1>1. SessionTypeOK' /\ Grown
    BY SameSession
  <1>2. /\ cache' \in [Slots -> EntryRow(clock)]
        /\ cache'[s] = e /\ \A x \in Slots : x # s => cache'[x] = cache[x]
    BY DEF PagesInv
  <1>3. \A b \in asks' : b \in AskRow(clock, Len(owner')) /\ AskStep(b)
    BY <1>0, <1>1, OldAskRows, AskKept
  <1>4. \A x \in Slots : EntryStep(x)
    BY <1>2, SlotKept
  <1>5. \A f \in view.forms : MineStep(f)
    BY DEF MineStep
  <1>6. PageStep
    BY <1>0, <1>2, <1>3, <1>4, <1>5 DEF PageStep, PagesInv
  <1>7. Mounted' = Mounted
    BY SameView DEF Mounted, MountedOn, Tour
  <1>8. ASSUME NEW r \in Mounted
        PROVE  RestStep(r)
    <2> DEFINE x == Slot(r, filter)
    <2>2. x \in Slots
      BY OfView DEF PagesInv, Mounted
    <2>3. /\ Settled(r) <=> /\ cache[x].has /\ ~cache[x].failed
                            /\ ~cache[x].doubtful
                            /\ \A a \in asks : a.slot # x
          /\ Entry(r) = cache[x]
      BY DEF Settled, Entry, Unasked, Asking
    <2>4. /\ Settled(r)' <=> /\ cache'[x].has /\ ~cache'[x].failed
                             /\ ~cache'[x].doubtful
                             /\ \A a \in asks' : a.slot # x
          /\ Entry(r)' = cache'[x]
          /\ Slot(r, filter') = x
      BY DEF Settled, Entry, Unasked, Asking
    <2>a. ASSUME Settled(r)' => \/ cache'[x].fresh
                                \/ Settled(r) /\ cache'[x].got = cache[x].got
          PROVE  RestStep(r)
      BY <1>8, <2>a DEF RestStep, Entry
    <2> HIDE DEF x
    <2>5. CASE x = s
      <3>1. Settled(r)' => e.fresh \/ (Settled(r) /\ e.got = cache[s].got)
        BY <1>2, <2>3, <2>4, <2>5
      <3> QED BY <1>2, <2>5, <2>a, <3>1
    <2>6. CASE x # s
      <3>1. cache'[x] = cache[x]
        BY <1>2, <2>2, <2>6
      <3>2. Settled(r)' => Settled(r)
        BY <2>3, <2>4, <2>6, <3>1
      <3> QED BY <2>a, <3>1, <3>2
    <2> QED BY <2>5, <2>6
  <1> QED BY <1>6, <1>7, <1>8 DEF MountedStep

LEMMA FormsKept ==
    ASSUME PagesInv, forms' = forms
    PROVE  /\ forms' \in [Ids -> FormRow(clock)]
           /\ \A f \in view.forms : BeforeStep(f)
  BY BeforeKept DEF PagesInv

LEMMA LandStep ==
    ASSUME PagesInv, SessionTypeOK, UNCHANGED sessionVars,
           NEW a \in asks, Land(a)
    PROVE  PageStep /\ MountedStep
  <1> DEFINE e == [has |-> TRUE, got |-> a.got,
                   who |-> owner[a.token], fresh |-> TRUE,
                   doubtful |-> a.late, failed |-> FALSE]
             s == a.slot
  <1>1. /\ UNCHANGED <<view, page, filter, typed, clock, forms, mine, moves>>
        /\ a.read /\ asks' = asks \ {a}
        /\ cache' = [cache EXCEPT ![s] = e]
    BY DEF Land
  <1>2. /\ a \in AskRow(clock, Len(owner)) /\ a.token # 0
    BY <1>1 DEF PagesInv
  <1>3. s \in Slots /\ a.got \in 0..clock
        /\ a.late \in BOOLEAN /\ a.token \in 0..Len(owner)
    BY <1>2 DEF AskRow
  <1>4. owner[a.token] \in People
    BY <1>2, <1>3 DEF SessionTypeOK
  <1>5. e \in EntryRow(clock)
    BY <1>3, <1>4 DEF EntryRow
  <1>6. e.fresh /\ e.got = a.got /\ e.who = owner[a.token]
        /\ e.doubtful = a.late
    OBVIOUS
  <1> HIDE DEF e
  <1>7. cache'[s] = e
    BY <1>1, <1>3 DEF PagesInv
  <1>8. EntryStep(s)
    BY <1>1, <1>6, <1>7 DEF EntryStep
  <1>9. asks' \subseteq asks /\ \A b \in asks : b.slot # s => b \in asks'
    BY <1>1
  <1> HIDE DEF s
  <1>10. moves' \in 0..view.moves
    BY <1>1, MovesCount
  <1> QED BY <1>1, <1>3, <1>5, <1>6, <1>8, <1>9, <1>10, FormsKept, OneEntry

LEMMA FailStep ==
    ASSUME PagesInv, SessionTypeOK, UNCHANGED sessionVars,
           NEW a \in asks, Fail(a)
    PROVE  PageStep /\ MountedStep
  <1> DEFINE s == a.slot
             e == [cache[s] EXCEPT !.failed = TRUE]
  <1>1. /\ UNCHANGED <<view, page, filter, typed, clock, forms, mine, moves>>
        /\ asks' = asks \ {a}
        /\ cache' = [cache EXCEPT ![a.slot].failed = TRUE]
    BY DEF Fail
  <1>3. s \in Slots
    BY DEF PagesInv, AskRow
  <1>4. cache' = [cache EXCEPT ![s] = e] /\ cache'[s] = e
    BY <1>1, <1>3 DEF PagesInv
  <1>5. cache[s] \in EntryRow(clock)
    BY <1>3, PagesFacts
  <1>6. e \in EntryRow(clock) /\ e.failed /\ KeptEntry(cache[s], e)
    BY <1>5 DEF EntryRow, KeptEntry
  <1> HIDE DEF e
  <1>8. EntryStep(s)
    BY <1>4, <1>6 DEF EntryStep
  <1>9. asks' \subseteq asks /\ \A b \in asks : b.slot # s => b \in asks'
    BY <1>1
  <1> HIDE DEF s
  <1>10. moves' \in 0..view.moves
    BY <1>1, MovesCount
  <1> QED BY <1>1, <1>3, <1>4, <1>6, <1>8, <1>9, <1>10, FormsKept, OneEntry

LEMMA ExpireStep ==
    ASSUME PagesInv, SessionTypeOK, UNCHANGED sessionVars,
           NEW s \in Slots, Expire(s)
    PROVE  PageStep /\ MountedStep
  <1> DEFINE e == [cache[s] EXCEPT !.fresh = FALSE]
  <1>1. /\ UNCHANGED <<view, page, filter, typed, clock, asks, forms, mine>>
        /\ Moves
        /\ cache' = [cache EXCEPT ![s].fresh = FALSE]
    BY DEF Expire
  <1>4. cache' = [cache EXCEPT ![s] = e] /\ cache'[s] = e
    BY <1>1 DEF PagesInv
  <1>5. cache[s] \in EntryRow(clock)
    BY PagesFacts
  <1>6. /\ e \in EntryRow(clock) /\ KeptEntry(cache[s], e)
        /\ e.has = cache[s].has /\ e.failed = cache[s].failed
        /\ e.doubtful = cache[s].doubtful /\ e.got = cache[s].got
    BY <1>5 DEF EntryRow, KeptEntry
  <1> HIDE DEF e
  <1>8. EntryStep(s)
    BY <1>4, <1>6 DEF EntryStep
  <1>9. asks' \subseteq asks /\ \A b \in asks : b.slot # s => b \in asks'
    BY <1>1
  <1>10. moves' \in 0..view.moves
    BY <1>1, MovesCount
  <1> QED BY <1>1, <1>4, <1>6, <1>8, <1>9, <1>10, FormsKept, OneEntry

LEMMA SubmitStep ==
    ASSUME PagesInv, SessionTypeOK, UNCHANGED sessionVars,
           NEW f \in view.forms, Submit(f)
    PROVE  PageStep /\ MountedStep
  <1>1. UNCHANGED <<view, page, filter, typed, clock, mine, moves>>
    BY DEF Submit
  <1>2. f.id \in Ids /\ forms[f.id] \in FormRow(clock)
    BY OfView, PagesFacts DEF PagesInv
  <1>3. clock \in clock..MaxWrites /\ clock \in Nat /\ clock <= clock
    BY PagesFacts
  <1>4. CASE Guessing(f)
    <2> DEFINE s == GuessSlot(f)
               e == [cache[s] EXCEPT
                        !.fresh = TRUE,
                        !.doubtful = cache[s].doubtful \/ ~cache[s].fresh]
               row == [forms[f.id] EXCEPT !.stage = "sent",
                                          !.before = cache[s]]
    <2>1. s \in Slots
      BY <1>4, OfView DEF Guessing, PagesInv
    <2>2. cache[s] \in EntryRow(clock)
      BY <2>1, PagesFacts
    <2>3. /\ asks' = {a \in asks : a.slot # s}
          /\ cache' = [cache EXCEPT
                  ![s].fresh = TRUE,
                  ![s].doubtful = cache[s].doubtful \/ ~cache[s].fresh]
          /\ forms' = [forms EXCEPT
                    ![f.id].stage = "sent",
                    ![f.id].before = cache[s]]
      BY <1>4 DEF Submit
    <2>4. cache' = [cache EXCEPT ![s] = e] /\ cache'[s] = e
      <3>1. cache \in [Slots -> EntryRow(clock)]
        BY DEF PagesInv
      <3>2. cache' = [cache EXCEPT ![s] = e]
        BY <2>1, <2>3, <3>1
      <3> HIDE DEF e
      <3> QED BY <2>1, <3>1, <3>2
    <2>5. /\ e \in EntryRow(clock) /\ KeptEntry(cache[s], e) /\ e.fresh
      BY <2>2 DEF EntryRow, KeptEntry
    <2>6. forms' = [forms EXCEPT ![f.id] = row]
      BY <1>2, <2>3 DEF PagesInv
    <2>7. row \in FormRow(clock) /\ row.before = cache[s]
      BY <1>2, <2>2 DEF FormRow, Stages
    <2> HIDE DEF e, row
    <2>8. EntryStep(s)
      BY <2>4, <2>5 DEF EntryStep
    <2>9. asks' \subseteq asks /\ \A b \in asks : b.slot # s => b \in asks'
      BY <2>3
    <2>10. forms' \in [Ids -> FormRow(clock)]
      BY <2>6, <2>7 DEF PagesInv
    <2>11. ASSUME NEW g \in view.forms
           PROVE  BeforeStep(g)
      <3>1. g.id \in Ids
        BY OfView DEF PagesInv
      <3>2. CASE g.id = f.id
        <4>1. g = f
          BY <3>2, OfView DEF PagesInv
        <4>2. forms'[f.id].before = cache[GuessSlot(f)]
          BY <1>2, <2>6, <2>7 DEF PagesInv
        <4> QED BY <2>1, <4>1, <4>2 DEF BeforeStep
      <3>3. CASE g.id # f.id
        BY <1>2, <2>6, <3>1, <3>3 DEF PagesInv, BeforeStep
      <3> QED BY <3>2, <3>3
    <2> HIDE DEF s
    <2>12. moves' \in 0..view.moves
      BY <1>1, MovesCount
    <2> QED BY <1>1, <2>1, <2>4, <2>5, <2>8, <2>9, <2>10, <2>11, <2>12, OneEntry
  <1>5. CASE ~Guessing(f)
    <2> DEFINE row == [forms[f.id] EXCEPT !.stage = "sent"]
    <2>1. /\ forms' = [forms EXCEPT ![f.id] = row]
          /\ UNCHANGED <<asks, cache>>
      BY <1>2, <1>5 DEF Submit, PagesInv
    <2>2. row \in FormRow(clock) /\ row.before = forms[f.id].before
      BY <1>2 DEF FormRow, Stages
    <2> HIDE DEF row
    <2>3. /\ forms' \in [Ids -> FormRow(clock)]
          /\ \A g \in view.forms : BeforeStep(g)
      BY <1>3, <2>1, <2>2, OneForm
    <2> QED BY <1>1, <1>3, <2>1, <2>3, FormsOnly, SameSession DEF PagesInv
  <1> QED BY <1>4, <1>5

LEMMA RefusedStep ==
    ASSUME PagesInv, SessionTypeOK, UNCHANGED sessionVars,
           NEW f \in view.forms, Refused(f)
    PROVE  PageStep /\ MountedStep
  <1>1. UNCHANGED <<view, page, filter, typed, clock, asks, mine, moves>>
    BY DEF Refused
  <1>2. f.id \in Ids /\ forms[f.id] \in FormRow(clock)
    BY OfView, PagesFacts DEF PagesInv
  <1>3. clock \in clock..MaxWrites /\ clock \in Nat /\ clock <= clock
    BY PagesFacts
  <1> DEFINE row == IF forms[f.id].shown
                    THEN [forms[f.id] EXCEPT !.stage = "open"] ELSE NoForm
  <1>4. forms' = [forms EXCEPT ![f.id] = row]
    BY <1>2 DEF Refused, PagesInv
  <1>5. row \in FormRow(clock)
    BY <1>2, PagesFacts DEF FormRow, Stages
  <1>6. ~row.before.has \/ row.before = forms[f.id].before
    BY <1>2, PagesFacts DEF FormRow
  <1> HIDE DEF row
  <1>7. /\ forms' \in [Ids -> FormRow(clock)]
        /\ \A g \in view.forms : BeforeStep(g)
    BY <1>3, <1>4, <1>5, <1>6, OneForm
  <1>8. CASE forms[f.id].before.has
    <2> DEFINE s == GuessSlot(f)
               b == forms[f.id].before
               e == [b EXCEPT !.fresh = TRUE, !.doubtful = TRUE]
    <2>1. s \in Slots /\ b \in EntryRow(clock)
      BY <1>2, <1>8 DEF FormRow, PagesInv
    <2>2. cache' = [cache EXCEPT ![s] = e] /\ cache'[s] = e
      BY <1>8, <2>1 DEF Refused, PagesInv
    <2>3. /\ e \in EntryRow(clock) /\ e.doubtful /\ e.got = b.got
          /\ e.who = b.who
      BY <2>1 DEF EntryRow
    <2> HIDE DEF e
    <2>4. EntryStep(s)
      BY <1>8, <2>2, <2>3 DEF EntryStep
    <2> HIDE DEF s, b
    <2>5. asks' \subseteq asks /\ \A a \in asks : a.slot # s => a \in asks'
      BY <1>1
    <2>6. moves' \in 0..view.moves
      BY <1>1, MovesCount
    <2> QED BY <1>1, <1>7, <2>1, <2>2, <2>3, <2>4, <2>5, <2>6, OneEntry
  <1>9. CASE ~forms[f.id].before.has
    <2>1. cache' = cache
      BY <1>9 DEF Refused
    <2> QED BY <1>1, <1>3, <1>7, <2>1, FormsOnly, SameSession DEF PagesInv
  <1> QED BY <1>8, <1>9

(* The requests change, and every slot that was asked for still is. *)
LEMMA AsksOnly ==
    ASSUME PagesInv, SessionTypeOK, UNCHANGED sessionVars,
           UNCHANGED <<view, page, filter, typed, clock, cache, forms, mine>>,
           moves' \in 0..view.moves,
           \A b \in asks' : b \in AskRow(clock, Len(owner')) /\ AskStep(b),
           \A a \in asks : \E b \in asks' : b.slot = a.slot
    PROVE  PageStep /\ MountedStep
  <1>0. clock \in Nat /\ clock <= clock /\ clock \in clock..MaxWrites
    BY PagesFacts
  <1>1. \A s \in Slots : EntryStep(s)
    BY SlotKept
  <1>2. \A f \in view.forms : MineStep(f)
    BY DEF MineStep
  <1>3. PageStep
    BY <1>0, <1>1, <1>2, FormsKept DEF PageStep, PagesInv
  <1>4. Mounted' = Mounted
    BY SameView DEF Mounted, MountedOn, Tour
  <1>5. ASSUME NEW r \in Mounted
        PROVE  RestStep(r)
    <2>1. Settled(r)' => Settled(r)
      BY DEF Settled, Entry, Unasked, Asking
    <2> QED BY <1>5, <2>1 DEF RestStep, Entry
  <1> QED BY <1>3, <1>4, <1>5 DEF MountedStep

LEMMA ServerReadsStep ==
    ASSUME PagesInv, SessionTypeOK, UNCHANGED sessionVars,
           NEW a \in asks, ServerReads(a)
    PROVE  PageStep /\ MountedStep
  <1> DEFINE n == [a EXCEPT !.read = TRUE, !.got = clock]
  <1>1. /\ UNCHANGED <<view, page, filter, typed, clock, cache, forms, mine,
                       moves>>
        /\ asks' = (asks \ {a}) \cup {n}
        /\ ~a.read /\ a.token > dead
    BY DEF ServerReads
  <1>2. SessionTypeOK' /\ Grown /\ owner' = owner
    BY SameSession DEF sessionVars
  <1>3. clock \in Nat /\ clock <= clock
    BY PagesFacts
  <1>4. a \in AskRow(clock, Len(owner'))
    BY <1>2, <1>3, OldAskRows
  <1>5. n \in AskRow(clock, Len(owner')) /\ n.slot = a.slot
    <2>1. clock \in 0..clock
      BY <1>3
    <2>2. PICK t : t = 0..Len(owner')
      OBVIOUS
    <2>3. PICK c : c = 0..clock
      OBVIOUS
    <2> QED BY <1>4, <2>1, <2>2, <2>3 DEF AskRow
  <1>6. AskStep(n)
    BY <1>1 DEF AskStep, ReadNow
  <1> HIDE DEF n
  <1>7. \A b \in asks' : b \in AskRow(clock, Len(owner')) /\ AskStep(b)
    BY <1>1, <1>2, <1>3, <1>5, <1>6, OldAskRows, AskKept
  <1>8. \A b \in asks : \E c \in asks' : c.slot = b.slot
    BY <1>1, <1>5
  <1>9. moves' \in 0..view.moves
    BY <1>1, MovesCount
  <1> QED BY <1>1, <1>7, <1>8, <1>9, AsksOnly

LEMMA AskNow ==
    ASSUME PagesInv, SessionTypeOK', NEW r \in view.reads,
           NEW g \in {filter, filter'}, filter' \in Filters, NEW c \in Nat
    PROVE  Ask(r, g) \in AskRow(c, Len(owner')) /\ AskStep(Ask(r, g))
  <1>1. g \in Filters
    BY DEF PagesInv
  <1>2. AskStep(Ask(r, g))
    BY DEF AskStep, NewAsk
  <1> QED BY <1>1, <1>2, NewAskRow

LEMMA RefetchStep ==
    ASSUME PagesInv, SessionTypeOK, UNCHANGED sessionVars,
           NEW r \in Mounted, Refetch(r)
    PROVE  PageStep /\ MountedStep
  <1>1. /\ UNCHANGED <<view, page, filter, typed, clock, cache, forms, mine>>
        /\ asks' = asks \cup {Ask(r, filter)}
        /\ Moves
    BY DEF Refetch
  <1>2. SessionTypeOK' /\ Grown
    BY SameSession
  <1>3. clock \in Nat /\ clock <= clock
    BY PagesFacts
  <1>4. r \in view.reads /\ filter' \in Filters
    BY <1>1, OfView DEF PagesInv, Mounted
  <1>5. Ask(r, filter) \in AskRow(clock, Len(owner'))
        /\ AskStep(Ask(r, filter))
    BY <1>2, <1>3, <1>4, AskNow
  <1>6. \A b \in asks' : b \in AskRow(clock, Len(owner')) /\ AskStep(b)
    BY <1>1, <1>2, <1>3, <1>5, OldAskRows, AskKept
  <1>7. \A b \in asks : \E c \in asks' : c.slot = b.slot
    BY <1>1
  <1>8. moves' \in 0..view.moves
    BY <1>1, MovesCount
  <1> QED BY <1>1, <1>6, <1>7, <1>8, AsksOnly

(* Who is asked, and that a reader that is asked for and at rest is fresh. *)
LEMMA AsksAre ==
    ASSUME NEW R, NEW f, NEW c, NEW A
    PROVE  /\ A \subseteq Asks(R, f, c, A)
           /\ \A b \in Asks(R, f, c, A) :
                 b \in A \/ \E r \in R : b = Ask(r, f)
           /\ \A r \in R : Unasked(r, f, Asks(R, f, c, A)) /\ r.how # "raced"
                              /\ c[Slot(r, f)].has
                 => c[Slot(r, f)].fresh
  <1>1. /\ A \subseteq Asks(R, f, c, A)
        /\ \A b \in Asks(R, f, c, A) :
              b \in A \/ \E r \in R : b = Ask(r, f)
    BY DEF Asks
  <1>2. ASSUME NEW r \in R, Unasked(r, f, Asks(R, f, c, A)),
               c[Slot(r, f)].has
        PROVE  c[Slot(r, f)].fresh
    <2>1. ~Wants(r, f, c, A)
      <3>1. SUFFICES ASSUME Wants(r, f, c, A) PROVE FALSE
        OBVIOUS
      <3>2. Ask(r, f) \in Asks(R, f, c, A)
        BY <3>1 DEF Asks
      <3>3. Asking(Ask(r, f), r, f)
        BY AskIs DEF Asking
      <3> QED BY <1>2, <3>2, <3>3 DEF Unasked
    <2>2. Unasked(r, f, A)
      BY <1>1, <1>2 DEF Unasked
    <2> QED BY <1>2, <2>1, <2>2 DEF Wants
  <1> QED BY <1>1, <1>2

(* The filter changes, and the readers that depend on it ask. *)
LEMMA FilterStep ==
    ASSUME PagesInv, SessionTypeOK, UNCHANGED sessionVars,
           UNCHANGED <<view, page, clock, cache, forms, mine>>,
           moves' \in 0..view.moves,
           typed' \in SUBSET Filters, filter' \in Filters,
           asks' = Asks({r \in Mounted : r.by # "none"}, filter', cache, asks)
    PROVE  PageStep /\ MountedStep
  <1>0. clock \in Nat /\ clock <= clock /\ clock \in clock..MaxWrites
    BY PagesFacts
  <1>1. SessionTypeOK' /\ Grown
    BY SameSession
  <1>2. Mounted \subseteq view.reads
    BY OfView DEF PagesInv, Mounted
  <1>3. asks \subseteq asks'
    BY AsksAre
  <1>4. \A b \in asks' : b \in asks \/ \E r \in Mounted : b = Ask(r, filter')
    BY AsksAre
  <1>5. \A b \in asks' : b \in AskRow(clock, Len(owner')) /\ AskStep(b)
    <2> TAKE b \in asks'
    <2>1. CASE b \in asks
      BY <1>0, <1>1, <2>1, OldAskRows, AskKept
    <2>2. ASSUME NEW r \in Mounted, b = Ask(r, filter')
          PROVE  b \in AskRow(clock, Len(owner')) /\ AskStep(b)
      <3>1. r \in view.reads
        BY <1>2
      <3> QED BY <1>0, <1>1, <2>2, <3>1, AskNow
    <2> QED BY <1>4, <2>1, <2>2
  <1>6. \A s \in Slots : EntryStep(s)
    BY SlotKept
  <1>7. \A f \in view.forms : MineStep(f)
    BY DEF MineStep
  <1>8. PageStep
    BY <1>0, <1>5, <1>6, <1>7, FormsKept DEF PageStep, PagesInv
  <1>9. Mounted' = Mounted
    BY SameView DEF Mounted, MountedOn, Tour
  <1>10. ASSUME NEW r \in Mounted
         PROVE  RestStep(r)
    <2>1. CASE r.by # "none"
      <3>1. Unasked(r, filter', asks') /\ r.how # "raced"
              /\ cache[Slot(r, filter')].has
            => cache[Slot(r, filter')].fresh
        BY <1>10, <2>1, AsksAre
      <3> QED BY <3>1 DEF RestStep, Settled, Entry
    <2>2. CASE r.by = "none"
      <3>1. Slot(r, filter') = Slot(r, filter)
        BY <2>2 DEF Slot
      <3>2. Settled(r)' => Settled(r)
        BY <1>3, <3>1 DEF Settled, Entry, Unasked, Asking
      <3> QED BY <1>10, <3>1, <3>2 DEF RestStep, Entry
    <2> QED BY <2>1, <2>2
  <1> QED BY <1>8, <1>9, <1>10 DEF MountedStep

LEMMA ChooseStep ==
    ASSUME PagesInv, SessionTypeOK, UNCHANGED sessionVars,
           NEW n \in Filters, Choose(n)
    PROVE  PageStep /\ MountedStep
  <1>1. /\ UNCHANGED <<view, page, typed, clock, cache, forms, mine>>
        /\ Moves /\ filter' = n
        /\ asks' = Asks({r \in Mounted : r.by # "none"}, n, cache, asks)
    BY DEF Choose
  <1>2. moves' \in 0..view.moves
    BY <1>1, MovesCount
  <1>3. typed' \in SUBSET Filters /\ filter' \in Filters
    BY <1>1 DEF PagesInv
  <1>4. asks' = Asks({r \in Mounted : r.by # "none"}, filter', cache, asks)
    BY <1>1
  <1> QED BY <1>1, <1>2, <1>3, <1>4, FilterStep

LEMMA PauseStep ==
    ASSUME PagesInv, SessionTypeOK, UNCHANGED sessionVars, PauseEnds
    PROVE  PageStep /\ MountedStep
  <1>1. /\ UNCHANGED <<view, page, clock, cache, forms, mine, moves>>
        /\ typed' = {} /\ filter' \in typed
        /\ asks' = Asks({r \in Mounted : r.by # "none"}, filter', cache, asks)
    BY DEF PauseEnds
  <1>2. moves' \in 0..view.moves
    BY <1>1, MovesCount
  <1>3. typed' \in SUBSET Filters /\ filter' \in Filters
    BY <1>1 DEF PagesInv
  <1> QED BY <1>1, <1>2, <1>3, FilterStep

(***************************************************************************)
(* Arriving at a page: a reader that is not kept has no entry there, and   *)
(* one that is mounted asks unless its entry is fresh.                     *)
(***************************************************************************)
LEMMA ArriveIs ==
    ASSUME PagesInv, view' = view, NEW s, NEW f \in Filters, NEW c, NEW A,
           NEW k \in Nat, \A x \in Slots : c[x] \in EntryRow(k),
           Arrive(s, f, c, A)
    PROVE  /\ page' = s /\ filter' = f /\ Mounted' = MountedOn(s)
           /\ cache' \in [Slots -> EntryRow(k)]
           /\ \A x \in Slots : cache'[x] \in {NoEntry, c[x]}
           /\ \A b \in asks' :
                 b \in A \/ \E r \in view.reads : b = Ask(r, filter')
           /\ MountedStep
  <1>1. /\ page' = s /\ filter' = f /\ cache' = Dropped(c)
        /\ asks' = Asks(MountedOn(s), f, cache', {a \in A : Kept(a.slot)})
    BY DEF Arrive
  <1>2. Mounted' = MountedOn(s) /\ MountedOn(s) \subseteq view.reads
    BY <1>1, OfView, SameView DEF Mounted, PagesInv, MountedOn, Tour
  <1>3. \A x \in Slots : cache'[x] = IF Kept(x) THEN c[x] ELSE NoEntry
    BY <1>1 DEF Dropped
  <1>4. cache' \in [Slots -> EntryRow(k)]
    BY <1>1, NoEntryRow DEF Dropped
  <1>5. /\ \A b \in asks' :
              \/ b \in A /\ Kept(b.slot)
              \/ \E r \in MountedOn(s) : b = Ask(r, f)
        /\ \A r \in MountedOn(s) :
              Unasked(r, f, asks') /\ r.how # "raced" /\ cache'[Slot(r, f)].has
                => cache'[Slot(r, f)].fresh
    BY <1>1, AsksAre
  <1>6. ASSUME NEW r \in MountedOn(s)
        PROVE  RestStep(r)
    BY <1>1, <1>5 DEF RestStep, Settled, Entry
  <1> QED BY <1>1, <1>2, <1>3, <1>4, <1>5, <1>6 DEF MountedStep

(* Every form is dismissed, and keeps no more than it had to take back. *)
LEMMA CloseFormsIs ==
    ASSUME PagesInv, NEW F, \A i \in Ids : F[i] \in FormRow(clock),
           \A i \in Ids : ~F[i].before.has \/ F[i].before = forms[i].before,
           forms' = CloseForms(F)
    PROVE  /\ forms' \in [Ids -> FormRow(clock)]
           /\ \A f \in view.forms : BeforeStep(f)
           /\ \A i \in Ids : ~forms'[i].shown /\ forms'[i].stage # "open"
  <1>1. ASSUME NEW i \in Ids
        PROVE  /\ Dismissed(F[i]) \in FormRow(clock)
               /\ \/ ~Dismissed(F[i]).before.has
                  \/ Dismissed(F[i]).before = F[i].before
               /\ ~Dismissed(F[i]).shown /\ Dismissed(F[i]).stage # "open"
    <2>1. CASE F[i].stage = "open"
      <3>1. Dismissed(F[i]) = NoForm
        BY <2>1 DEF Dismissed
      <3>2. ~NoForm.shown /\ NoForm.stage # "open"
        BY DEF NoForm
      <3> QED BY <3>1, <3>2, PagesFacts
    <2>2. CASE F[i].stage # "open"
      <3>1. Dismissed(F[i]) = [F[i] EXCEPT !.shown = FALSE]
        BY <2>2 DEF Dismissed
      <3>2. F[i] \in FormRow(clock)
        OBVIOUS
      <3> QED BY <2>2, <3>1, <3>2 DEF FormRow
    <2> QED BY <2>1, <2>2
  <1>2. \A i \in Ids : forms'[i] = Dismissed(F[i])
    BY DEF CloseForms
  <1>3. forms' \in [Ids -> FormRow(clock)]
    BY <1>1 DEF CloseForms
  <1>4. ASSUME NEW f \in view.forms
        PROVE  BeforeStep(f)
    <2>1. f.id \in Ids
      BY OfView DEF PagesInv
    <2> QED BY <1>1, <1>2, <2>1 DEF BeforeStep
  <1> QED BY <1>1, <1>2, <1>3, <1>4

LEMMA GoToStep ==
    ASSUME PagesInv, SessionTypeOK, SessionTypeOK', Grown,
           NEW s \in Screens \cup {"none"}, GoTo(s), moves' \in 0..view.moves
    PROVE  PageStep /\ MountedStep
  <1>0. clock \in Nat /\ clock <= clock /\ clock \in clock..MaxWrites
    BY PagesFacts
  <1>1. /\ view' = view /\ clock' = clock /\ mine' = mine
        /\ forms' = CloseForms(forms) /\ typed' \in {typed, {}}
        /\ Arrive(s, 0, cache, asks)
    BY DEF GoTo
  <1>2. 0 \in Filters /\ \A x \in Slots : cache[x] \in EntryRow(clock)
    BY PagesFacts DEF Filters
  <1>3. /\ page' = s /\ filter' = 0 /\ cache' \in [Slots -> EntryRow(clock)]
        /\ \A x \in Slots : cache'[x] \in {NoEntry, cache[x]}
        /\ \A b \in asks' :
              b \in asks \/ \E r \in view.reads : b = Ask(r, filter')
        /\ MountedStep
    BY <1>0, <1>1, <1>2, ArriveIs
  <1>4. /\ forms' \in [Ids -> FormRow(clock)]
        /\ \A f \in view.forms : BeforeStep(f)
    BY <1>1, CloseFormsIs, PagesFacts
  <1>5. \A x \in Slots : EntryStep(x)
    BY <1>3, SlotKept DEF EntryStep
  <1>6. filter' \in Filters
    BY <1>2, <1>3
  <1>7. \A b \in asks' : b \in AskRow(clock, Len(owner')) /\ AskStep(b)
    BY <1>0, <1>3, <1>6, OldAskRows, AskKept, AskNow
  <1>8. \A f \in view.forms : MineStep(f)
    BY <1>1 DEF MineStep
  <1>9. typed' \in SUBSET Filters /\ mine' \in [Ids -> 0..clock]
    BY <1>1 DEF PagesInv
  <1>10. PageStep
    BY <1>0, <1>1, <1>3, <1>4, <1>5, <1>6, <1>7, <1>8, <1>9 DEF PageStep
  <1> QED BY <1>3, <1>10

LEMMA LoadAnewStep ==
    ASSUME PagesInv, SessionTypeOK, SessionTypeOK', Grown,
           NEW s \in Screens \cup {"none"}, LoadAnew(s),
           moves' \in 0..view.moves
    PROVE  PageStep /\ MountedStep /\ Anew
  <1>0. clock \in Nat /\ clock <= clock /\ clock \in clock..MaxWrites
        /\ 0 \in 0..clock
    BY PagesFacts
  <1> DEFINE c == [x \in Slots |-> NoEntry]
  <1>A. PICK A : A = {}
    OBVIOUS
  <1>1. /\ view' = view /\ clock' = clock /\ mine' = [i \in Ids |-> 0]
        /\ forms' = [i \in Ids |-> NoForm] /\ typed' = {}
        /\ Arrive(s, 0, c, A)
    BY <1>A DEF LoadAnew
  <1>2. 0 \in Filters /\ \A x \in Slots : c[x] \in EntryRow(clock)
    BY PagesFacts DEF Filters
  <1>a. \A x \in Slots : c[x] = NoEntry
    OBVIOUS
  <1> HIDE DEF c
  <1>3. /\ page' = s /\ filter' = 0 /\ cache' \in [Slots -> EntryRow(clock)]
        /\ \A x \in Slots : cache'[x] \in {NoEntry, c[x]}
        /\ \A b \in asks' :
              b \in A \/ \E r \in view.reads : b = Ask(r, filter')
        /\ MountedStep
    BY <1>0, <1>1, <1>2, ArriveIs
  <1>4. /\ forms' \in [Ids -> FormRow(clock)]
        /\ \A f \in view.forms : ~forms'[f.id].before.has
    BY <1>1, PagesFacts, OfView DEF PagesInv
  <1>5. \A x \in Slots : cache'[x] = NoEntry
    BY <1>3, <1>a
  <1>6. filter' \in Filters
    BY <1>2, <1>3
  <1>7. \A b \in asks' : NewAsk(b)
    BY <1>3, <1>A DEF NewAsk
  <1>b. \A b \in asks' : b \in AskRow(clock, Len(owner')) /\ AskStep(b)
    BY <1>0, <1>3, <1>6, <1>A, AskNow
  <1>8. \A f \in view.forms : MineStep(f) /\ BeforeStep(f)
    BY <1>1, <1>4, OfView DEF MineStep, BeforeStep, PagesInv
  <1>9. typed' \in SUBSET Filters /\ mine' \in [Ids -> 0..clock]
    BY <1>0, <1>1
  <1>c. \A x \in Slots : EntryStep(x)
    BY <1>5 DEF EntryStep
  <1>10. PageStep
    BY <1>0, <1>1, <1>3, <1>4, <1>c, <1>6, <1>b, <1>8, <1>9 DEF PageStep
  <1>11. Anew
    BY <1>4, <1>5, <1>7, PagesFacts DEF Anew
  <1> QED BY <1>3, <1>10, <1>11

LEMMA PushEndsStep ==
    ASSUME PagesInv, SessionTypeOK, SessionTypeOK', Grown,
           NEW s \in Screens \cup {"none"}, PushEnds(s)
    PROVE  PageStep /\ MountedStep
  <1>0. clock \in Nat /\ clock <= clock /\ clock \in clock..MaxWrites
    BY PagesFacts
  <1>1. PICK n \in typed : Arrive(s, n, cache, asks)
    BY DEF PushEnds
  <1>2. /\ view' = view /\ clock' = clock /\ mine' = mine /\ moves' = moves
        /\ forms' \in {forms, CloseForms(forms)} /\ typed' = {}
    BY DEF PushEnds
  <1>3. n \in Filters /\ \A x \in Slots : cache[x] \in EntryRow(clock)
    BY PagesFacts DEF PagesInv
  <1>4. /\ page' = s /\ filter' = n /\ cache' \in [Slots -> EntryRow(clock)]
        /\ \A x \in Slots : cache'[x] \in {NoEntry, cache[x]}
        /\ \A b \in asks' :
              b \in asks \/ \E r \in view.reads : b = Ask(r, filter')
        /\ MountedStep
    BY <1>0, <1>1, <1>2, <1>3, ArriveIs
  <1>5. /\ forms' \in [Ids -> FormRow(clock)]
        /\ \A f \in view.forms : BeforeStep(f)
    BY <1>2, CloseFormsIs, FormsKept, PagesFacts
  <1>6. \A x \in Slots : EntryStep(x)
    BY <1>4, SlotKept DEF EntryStep
  <1>7. filter' \in Filters
    BY <1>3, <1>4
  <1>8. \A b \in asks' : b \in AskRow(clock, Len(owner')) /\ AskStep(b)
    BY <1>0, <1>4, <1>7, OldAskRows, AskKept, AskNow
  <1>9. \A f \in view.forms : MineStep(f)
    BY <1>2 DEF MineStep
  <1>10. /\ typed' \in SUBSET Filters /\ mine' \in [Ids -> 0..clock]
         /\ moves' \in 0..view.moves
    BY <1>2 DEF PagesInv
  <1>11. PageStep
    BY <1>0, <1>2, <1>4, <1>5, <1>6, <1>7, <1>8, <1>9, <1>10 DEF PageStep
  <1> QED BY <1>4, <1>11

(***************************************************************************)
(* The answer of a write.                                                  *)
(***************************************************************************)
LEMMA InvalidatedIs ==
    ASSUME PagesInv, NEW f
    PROVE  /\ Invalidated(f) \in [Slots -> EntryRow(clock)]
           /\ \A s \in Slots :
                 /\ KeptEntry(cache[s], Invalidated(f)[s])
                 /\ Told(f, s[1]) => ~Invalidated(f)[s].fresh
                 /\ ~Told(f, s[1]) => Invalidated(f)[s] = cache[s]
  <1>1. ASSUME NEW s \in Slots
        PROVE  /\ Invalidated(f)[s] \in EntryRow(clock)
               /\ KeptEntry(cache[s], Invalidated(f)[s])
               /\ Told(f, s[1]) => ~Invalidated(f)[s].fresh
               /\ ~Told(f, s[1]) => Invalidated(f)[s] = cache[s]
    <2>1. cache[s] \in EntryRow(clock)
      BY PagesFacts
    <2>2. CASE Told(f, s[1])
      <3>1. Invalidated(f)[s] = [cache[s] EXCEPT !.fresh = FALSE]
        BY <2>2 DEF Invalidated
      <3> QED BY <2>1, <2>2, <3>1 DEF EntryRow, KeptEntry
    <2>3. CASE ~Told(f, s[1])
      <3>1. Invalidated(f)[s] = cache[s]
        BY <2>3 DEF Invalidated
      <3> QED BY <2>1, <2>3, <3>1 DEF KeptEntry
    <2> QED BY <2>2, <2>3
  <1>2. Invalidated(f) = [s \in Slots |-> Invalidated(f)[s]]
    BY DEF Invalidated
  <1> QED BY <1>1, <1>2

LEMMA AfterInvalidationIs ==
    ASSUME PagesInv, SessionTypeOK, SessionTypeOK', Grown, NEW f,
           filter' \in Filters
    PROVE  /\ \A b \in AfterInvalidation(f) :
                 /\ b \in AskRow(clock, Len(owner')) /\ AskStep(b)
                 /\ Told(f, b.slot[1]) => ~b.read \/ b.late
           /\ \A a \in asks : ~Told(f, a.slot[1]) => a \in AfterInvalidation(f)
           /\ \A r \in Mounted : Restarts(f, Slot(r, filter))
                 => Ask(r, filter) \in AfterInvalidation(f)
  <1>0. clock \in Nat /\ clock <= clock
    BY PagesFacts
  <1>1. ASSUME NEW b \in AfterInvalidation(f)
        PROVE  /\ b \in AskRow(clock, Len(owner')) /\ AskStep(b)
               /\ Told(f, b.slot[1]) => ~b.read \/ b.late
    <2>1. CASE b \in asks /\ ~Told(f, b.slot[1])
      BY <1>0, <2>1, OldAskRows, AskKept
    <2>2. ASSUME NEW a \in asks, b = [a EXCEPT !.late = TRUE]
          PROVE  /\ b \in AskRow(clock, Len(owner')) /\ AskStep(b)
                 /\ Told(f, b.slot[1]) => ~b.read \/ b.late
      <3>1. a \in AskRow(clock, Len(owner'))
        BY <1>0, OldAskRows
      <3>2. PICK t : t = 0..Len(owner')
        OBVIOUS
      <3>3. b \in AskRow(clock, Len(owner')) /\ b.late /\ OldAsk(a, b)
        BY <2>2, <3>1, <3>2 DEF AskRow, OldAsk
      <3> QED BY <3>3 DEF AskStep
    <2>3. ASSUME NEW r \in Mounted, b = Ask(r, filter)
          PROVE  /\ b \in AskRow(clock, Len(owner')) /\ AskStep(b)
                 /\ Told(f, b.slot[1]) => ~b.read \/ b.late
      <3>1. r \in view.reads
        BY OfView DEF PagesInv, Mounted
      <3>2. b \in AskRow(clock, Len(owner')) /\ AskStep(b)
        BY <1>0, <2>3, <3>1, AskNow
      <3> QED BY <2>3, <3>2, AskIs
    <2> QED BY <2>1, <2>2, <2>3 DEF AfterInvalidation
  <1>2. \A a \in asks : ~Told(f, a.slot[1]) => a \in AfterInvalidation(f)
    BY DEF AfterInvalidation
  <1>3. \A r \in Mounted : Restarts(f, Slot(r, filter))
            => Ask(r, filter) \in AfterInvalidation(f)
    BY DEF AfterInvalidation
  <1> QED BY <1>1, <1>2, <1>3

LEMMA ToldNow ==
    ASSUME PagesInv, NEW f \in view.forms,
           mine' = [mine EXCEPT ![f.id] = forms[f.id].at],
           \A s \in Slots : Told(f, s[1]) => ~(cache'[s].has /\ cache'[s].fresh),
           \A b \in asks' : Told(f, b.slot[1]) => ~b.read \/ b.late
    PROVE  /\ mine' \in [Ids -> 0..clock]
           /\ \A g \in view.forms : MineStep(g)
  <1>1. f.id \in Ids /\ forms[f.id] \in FormRow(clock)
    BY OfView, PagesFacts DEF PagesInv
  <1>2. forms[f.id].at \in 0..clock
    BY <1>1 DEF FormRow
  <1>3. mine' \in [Ids -> 0..clock]
    BY <1>2 DEF PagesInv
  <1>4. ASSUME NEW g \in view.forms
        PROVE  MineStep(g)
    <2>1. g.id \in Ids
      BY OfView DEF PagesInv
    <2>2. CASE g.id # f.id
      <3>1. mine'[g.id] = mine[g.id]
        BY <2>1, <2>2 DEF PagesInv
      <3> QED BY <3>1 DEF MineStep
    <2>3. CASE g.id = f.id
      <3>1. g = f
        BY <2>3, OfView DEF PagesInv
      <3>2. mine'[f.id] \in 0..clock
        BY <1>1, <1>3
      <3> QED BY <3>1, <3>2 DEF MineStep
    <2> QED BY <2>2, <2>3
  <1> QED BY <1>3, <1>4

LEMMA AnsweredStep ==
    ASSUME PagesInv, SessionTypeOK, UNCHANGED sessionVars,
           NEW f \in view.forms, Answered(f)
    PROVE  PageStep /\ MountedStep
  <1>0. clock \in Nat /\ clock <= clock /\ clock \in clock..MaxWrites
    BY PagesFacts
  <1>1. /\ UNCHANGED <<view, page, filter, typed, clock, moves>>
        /\ mine' = [mine EXCEPT ![f.id] = forms[f.id].at]
        /\ cache' = Invalidated(f) /\ asks' = AfterInvalidation(f)
    BY DEF Answered
  <1>2. SessionTypeOK' /\ Grown /\ filter' \in Filters
    BY <1>1, SameSession DEF PagesInv
  <1>3. f.id \in Ids /\ forms[f.id] \in FormRow(clock)
    BY OfView, PagesFacts DEF PagesInv
  <1> DEFINE row == IF f.stays /\ forms[f.id].shown
                    THEN [forms[f.id] EXCEPT !.stage = "open"] ELSE NoForm
  <1>4. forms' = [forms EXCEPT ![f.id] = row]
    BY <1>3 DEF Answered, PagesInv
  <1>5. row \in FormRow(clock)
    BY <1>3, PagesFacts DEF FormRow, Stages
  <1>6. ~row.before.has \/ row.before = forms[f.id].before
    BY <1>3, PagesFacts DEF FormRow
  <1> HIDE DEF row
  <1>7. /\ forms' \in [Ids -> FormRow(clock)]
        /\ \A g \in view.forms : BeforeStep(g)
    BY <1>0, <1>4, <1>5, <1>6, OneForm
  <1>8. /\ cache' \in [Slots -> EntryRow(clock)]
        /\ \A s \in Slots :
              /\ KeptEntry(cache[s], cache'[s])
              /\ Told(f, s[1]) => ~cache'[s].fresh
              /\ ~Told(f, s[1]) => cache'[s] = cache[s]
    BY <1>1, InvalidatedIs
  <1>9. /\ \A b \in asks' :
              /\ b \in AskRow(clock, Len(owner')) /\ AskStep(b)
              /\ Told(f, b.slot[1]) => ~b.read \/ b.late
        /\ \A a \in asks : ~Told(f, a.slot[1]) => a \in asks'
        /\ \A r \in Mounted : Restarts(f, Slot(r, filter))
              => Ask(r, filter) \in asks'
    BY <1>1, <1>2, AfterInvalidationIs
  <1>10. /\ mine' \in [Ids -> 0..clock]
         /\ \A g \in view.forms : MineStep(g)
    BY <1>1, <1>8, <1>9, ToldNow
  <1>11. \A s \in Slots : EntryStep(s)
    BY <1>8 DEF EntryStep
  <1>12. PageStep
    BY <1>0, <1>1, <1>7, <1>8, <1>9, <1>10, <1>11 DEF PageStep, PagesInv
  <1>13. Mounted' = Mounted
    BY <1>1, SameView DEF Mounted, MountedOn, Tour
  <1>14. ASSUME NEW r \in Mounted
         PROVE  RestStep(r)
    <2> DEFINE x == Slot(r, filter)
    <2>2. x \in Slots /\ x[1] = r.key
      BY OfView, SlotIs DEF PagesInv, Mounted
    <2>3. ASSUME r.how # "raced", Settled(r)'
          PROVE  /\ ~Told(f, r.key) /\ cache'[x] = cache[x] /\ Settled(r)
      <3>1. cache'[x].has /\ \A b \in asks' : b.slot # x
        BY <1>1, <2>3 DEF Settled, Entry, Unasked, Asking
      <3>2. cache[x].has
        BY <1>8, <2>2, <3>1 DEF KeptEntry
      <3>3. ~Told(f, r.key)
        <4>1. SUFFICES ASSUME Told(f, r.key) PROVE FALSE
          OBVIOUS
        <4>2. Restarts(f, x)
          BY <2>2, <2>3, <3>2, <4>1 DEF Restarts
        <4>3. Ask(r, filter) \in asks'
          BY <1>9, <4>2
        <4> QED BY <3>1, <4>3, AskIs
      <3>4. cache'[x] = cache[x]
        BY <1>8, <2>2, <3>3
      <3>5. Settled(r)
        BY <1>1, <1>9, <2>2, <2>3, <3>1, <3>3, <3>4
           DEF Settled, Entry, Unasked, Asking
      <3> QED BY <3>3, <3>4, <3>5
    <2>4. ASSUME NEW g \in view.forms, Told(g, r.key), ~Told(f, r.key)
          PROVE  mine'[g.id] = mine[g.id]
      <3>1. g.id \in Ids /\ g # f /\ (g.id = f.id => g = f)
        BY <2>4, OfView DEF PagesInv
      <3> QED BY <1>1, <3>1 DEF PagesInv
    <2> QED BY <1>1, <1>14, <2>3, <2>4 DEF RestStep, Entry
  <1> QED BY <1>12, <1>13, <1>14 DEF MountedStep

LEMMA LeavesStep ==
    ASSUME PagesInv, SessionTypeOK, SessionTypeOK', Grown,
           NEW f \in view.forms, NEW s \in Screens \cup {"none"},
           AnsweredAndLeaves(f, s)
    PROVE  PageStep /\ MountedStep
  <1>0. clock \in Nat /\ clock <= clock /\ clock \in clock..MaxWrites
    BY PagesFacts
  <1>1. /\ UNCHANGED <<view, clock, moves>>
        /\ mine' = [mine EXCEPT ![f.id] = forms[f.id].at]
        /\ Arrive(s, 0, Invalidated(f), AfterInvalidation(f))
        /\ forms' = CloseForms([forms EXCEPT ![f.id] = NoForm])
        /\ typed' = {}
    BY DEF AnsweredAndLeaves
  <1>2. 0 \in Filters /\ filter' \in Filters
    BY <1>1 DEF Filters, Arrive
  <1>3. /\ Invalidated(f) \in [Slots -> EntryRow(clock)]
        /\ \A x \in Slots :
              /\ KeptEntry(cache[x], Invalidated(f)[x])
              /\ Told(f, x[1]) => ~Invalidated(f)[x].fresh
    BY InvalidatedIs
  <1>4. \A b \in AfterInvalidation(f) :
           /\ b \in AskRow(clock, Len(owner')) /\ AskStep(b)
           /\ Told(f, b.slot[1]) => ~b.read \/ b.late
    BY <1>2, AfterInvalidationIs
  <1>5. /\ page' = s /\ filter' = 0 /\ cache' \in [Slots -> EntryRow(clock)]
        /\ \A x \in Slots : cache'[x] \in {NoEntry, Invalidated(f)[x]}
        /\ \A b \in asks' : \/ b \in AfterInvalidation(f)
                            \/ \E r \in view.reads : b = Ask(r, filter')
        /\ MountedStep
    <2>1. \A x \in Slots : Invalidated(f)[x] \in EntryRow(clock)
      BY <1>3
    <2> QED BY <1>0, <1>1, <1>2, <2>1, ArriveIs
  <1>6. \A x \in Slots :
           /\ EntryStep(x)
           /\ Told(f, x[1]) => ~(cache'[x].has /\ cache'[x].fresh)
    <2> TAKE x \in Slots
    <2>1. CASE cache'[x] = NoEntry
      BY <2>1 DEF EntryStep, NoEntry
    <2>2. CASE cache'[x] = Invalidated(f)[x]
      BY <1>3, <2>2 DEF EntryStep
    <2> QED BY <1>5, <2>1, <2>2
  <1>7. \A b \in asks' :
           /\ b \in AskRow(clock, Len(owner')) /\ AskStep(b)
           /\ Told(f, b.slot[1]) => ~b.read \/ b.late
    <2> TAKE b \in asks'
    <2>1. CASE b \in AfterInvalidation(f)
      BY <1>4, <2>1
    <2>2. ASSUME NEW r \in view.reads, b = Ask(r, filter')
          PROVE  /\ b \in AskRow(clock, Len(owner')) /\ AskStep(b) /\ ~b.read
      BY <1>0, <1>2, <2>2, AskNow, AskIs
    <2> QED BY <1>5, <2>1, <2>2
  <1>8. /\ mine' \in [Ids -> 0..clock]
        /\ \A g \in view.forms : MineStep(g)
    BY <1>1, <1>6, <1>7, ToldNow
  <1>9. /\ forms' \in [Ids -> FormRow(clock)]
        /\ \A g \in view.forms : BeforeStep(g)
    <2> DEFINE F == [forms EXCEPT ![f.id] = NoForm]
    <2>1. \A i \in Ids : F[i] \in {NoForm, forms[i]}
      BY DEF PagesInv
    <2>2. /\ \A i \in Ids : F[i] \in FormRow(clock)
          /\ \A i \in Ids : ~F[i].before.has \/ F[i].before = forms[i].before
      BY <2>1, PagesFacts
    <2>3. forms' = CloseForms(F)
      BY <1>1
    <2> HIDE DEF F
    <2> QED BY <2>2, <2>3, CloseFormsIs
  <1>10. moves' \in 0..view.moves
    BY <1>1 DEF PagesInv
  <1>11. PageStep
    BY <1>0, <1>1, <1>2, <1>5, <1>6, <1>7, <1>8, <1>9, <1>10 DEF PageStep
  <1> QED BY <1>5, <1>11

(***************************************************************************)
(* Forms: one is shown at a time, and one that was opened on a settled     *)
(* answer has no other write to it under way, and holds those before.      *)
(***************************************************************************)
ShownInv ==
    /\ \A i \in Ids : /\ forms[i].stage = "open" => forms[i].shown
                      /\ forms[i].shown => forms[i].stage # "closed"
    /\ \A i, j \in Ids : forms[i].shown /\ forms[j].shown => i = j
BaseInv ==
    \A f, g \in view.forms : \A r \in view.reads :
        /\ r.key = f.edits /\ Relates(g, r) /\ f.id \notin KnownOverwrite
        /\ forms[f.id].shown /\ ~forms[f.id].hasty
        => /\ forms[f.id].base >= mine[g.id]
           /\ g # f => ~InFlight(g)
EditInv == ShownInv /\ BaseInv

LEMMA RelatesSame ==
    ASSUME view' = view
    PROVE  \A f, r : Relates(f, r)' <=> Relates(f, r)
  BY DEF Relates, Overlap

LEMMA NoneShown ==
    ASSUME PagesInv, view' = view,
           \A i \in Ids : ~forms'[i].shown /\ forms'[i].stage # "open"
    PROVE  EditInv'
  <1>1. Ids' = Ids /\ \A f \in view.forms : f.id \in Ids
    BY SameView, OfView DEF PagesInv
  <1>2. ShownInv'
    BY <1>1 DEF ShownInv
  <1>3. BaseInv'
    BY <1>1 DEF BaseInv
  <1> QED BY <1>2, <1>3 DEF EditInv

LEMMA SameForms ==
    ASSUME EditInv, UNCHANGED <<view, forms, mine>>
    PROVE  EditInv'
  <1>1. Ids' = Ids
    BY SameView
  <1>2. ShownInv'
    BY <1>1 DEF EditInv, ShownInv
  <1>3. BaseInv'
    BY RelatesSame DEF EditInv, BaseInv, InFlight
  <1> QED BY <1>2, <1>3 DEF EditInv

(* A form that changes keeps the answer it was opened on while it is       *)
(* shown; its request starts only from a shown form.                       *)
LEMMA OneFormEdits ==
    ASSUME PagesInv, EditInv, UNCHANGED <<view, mine>>,
           NEW f \in view.forms, NEW row, forms' = [forms EXCEPT ![f.id] = row],
           row.stage = "open" => row.shown,
           row.shown => /\ row.stage # "closed" /\ forms[f.id].shown
                        /\ row.base = forms[f.id].base
                        /\ row.hasty = forms[f.id].hasty,
           row.stage \in {"sent", "saved", "refused"} =>
               InFlight(f) \/ forms[f.id].shown
    PROVE  EditInv'
  <1>1. /\ Ids' = Ids /\ f.id \in Ids
        /\ \A g \in view.forms : g.id \in Ids /\ (g.id = f.id => g = f)
    BY SameView, OfView DEF PagesInv
  <1>2. /\ forms'[f.id] = row
        /\ \A i \in Ids : i # f.id => forms'[i] = forms[i]
    BY <1>1 DEF PagesInv
  <1>3. ShownInv'
    BY <1>1, <1>2 DEF EditInv, ShownInv
  <1>4. ASSUME NEW h \in view.forms, NEW g \in view.forms,
               NEW r \in view.reads,
               r.key = h.edits, Relates(g, r), h.id \notin KnownOverwrite,
               forms'[h.id].shown, ~forms'[h.id].hasty
        PROVE  /\ forms'[h.id].base >= mine[g.id]
               /\ g # h => ~(forms'[g.id].stage \in {"sent", "saved", "refused"})
    <2>1. /\ forms[h.id].shown /\ ~forms[h.id].hasty
          /\ forms'[h.id].base = forms[h.id].base
      BY <1>1, <1>2, <1>4
    <2>2. /\ forms[h.id].base >= mine[g.id]
          /\ g # h => ~InFlight(g)
      BY <1>4, <2>1 DEF EditInv, BaseInv
    <2>3. ASSUME g # h
          PROVE  ~(forms'[g.id].stage \in {"sent", "saved", "refused"})
      <3>1. CASE g = f
        <4>1. ~forms[f.id].shown
          BY <1>1, <2>1, <2>3, <3>1 DEF EditInv, ShownInv
        <4> QED BY <1>2, <2>2, <2>3, <3>1, <4>1
      <3>2. CASE g # f
        <4>1. forms'[g.id] = forms[g.id]
          BY <1>1, <1>2, <3>2
        <4> QED BY <2>2, <2>3, <4>1 DEF InFlight
      <3> QED BY <3>1, <3>2
    <2> QED BY <2>1, <2>2, <2>3
  <1>5. BaseInv'
    BY <1>4, RelatesSame DEF BaseInv, InFlight
  <1> QED BY <1>3, <1>5 DEF EditInv

LEMMA CloseEdits ==
    ASSUME PagesInv, EditInv, NEW f \in view.forms, Close(f)
    PROVE  EditInv'
  <1>1. UNCHANGED <<view, mine>>
    BY DEF Close
  <1>2. f.id \in Ids /\ forms[f.id] \in FormRow(clock)
    BY OfView, PagesFacts DEF PagesInv
  <1> DEFINE row == Dismissed(forms[f.id])
  <1>3. forms' = [forms EXCEPT ![f.id] = row]
    BY <1>2 DEF Close, PagesInv
  <1>4. /\ ~row.shown /\ row.stage # "open"
        /\ row.stage \in {"sent", "saved", "refused"} => InFlight(f)
    BY <1>2 DEF Dismissed, NoForm, FormRow, InFlight
  <1> HIDE DEF row
  <1> QED BY <1>1, <1>3, <1>4, OneFormEdits

LEMMA SubmitEdits ==
    ASSUME PagesInv, EditInv, NEW f \in view.forms, Submit(f)
    PROVE  EditInv'
  <1>1. UNCHANGED <<view, mine>> /\ forms[f.id].stage = "open"
    BY DEF Submit
  <1>2. f.id \in Ids /\ forms[f.id] \in FormRow(clock)
    BY OfView, PagesFacts DEF PagesInv
  <1>3. forms[f.id].shown
    BY <1>1, <1>2 DEF EditInv, ShownInv
  <1>4. PICK row : /\ forms' = [forms EXCEPT ![f.id] = row]
                   /\ row.stage = "sent" /\ row.shown = forms[f.id].shown
                   /\ row.base = forms[f.id].base
                   /\ row.hasty = forms[f.id].hasty
    <2>1. CASE Guessing(f)
      <3> DEFINE row == [forms[f.id] EXCEPT !.stage = "sent",
                                 !.before = cache[GuessSlot(f)]]
      <3>1. forms' = [forms EXCEPT ![f.id] = row]
        BY <1>2, <2>1 DEF Submit, PagesInv
      <3>2. /\ row.stage = "sent" /\ row.shown = forms[f.id].shown
            /\ row.base = forms[f.id].base /\ row.hasty = forms[f.id].hasty
        BY <1>2 DEF FormRow
      <3> HIDE DEF row
      <3> QED BY <3>1, <3>2
    <2>2. CASE ~Guessing(f)
      <3> DEFINE row == [forms[f.id] EXCEPT !.stage = "sent"]
      <3>1. forms' = [forms EXCEPT ![f.id] = row]
        BY <1>2, <2>2 DEF Submit, PagesInv
      <3>2. /\ row.stage = "sent" /\ row.shown = forms[f.id].shown
            /\ row.base = forms[f.id].base /\ row.hasty = forms[f.id].hasty
        BY <1>2 DEF FormRow
      <3> HIDE DEF row
      <3> QED BY <3>1, <3>2
    <2> QED BY <2>1, <2>2
  <1> QED BY <1>1, <1>3, <1>4, OneFormEdits

LEMMA ServerEdits ==
    ASSUME PagesInv, EditInv, NEW f \in view.forms,
           ServerWrites(f) \/ ServerRefuses(f)
    PROVE  EditInv'
  <1>1. UNCHANGED <<view, mine>> /\ forms[f.id].stage = "sent"
    BY DEF ServerWrites, ServerRefuses
  <1>2. f.id \in Ids /\ forms[f.id] \in FormRow(clock)
    BY OfView, PagesFacts DEF PagesInv
  <1>3. PICK row : /\ forms' = [forms EXCEPT ![f.id] = row]
                   /\ row.stage \in {"saved", "refused"}
                   /\ row.shown = forms[f.id].shown
                   /\ row.base = forms[f.id].base
                   /\ row.hasty = forms[f.id].hasty
    <2>1. CASE ServerWrites(f)
      <3> DEFINE row == [forms[f.id] EXCEPT !.stage = "saved", !.at = clock']
      <3>1. forms' = [forms EXCEPT ![f.id] = row]
        BY <1>2, <2>1 DEF ServerWrites, PagesInv
      <3>2. /\ row.stage = "saved" /\ row.shown = forms[f.id].shown
            /\ row.base = forms[f.id].base /\ row.hasty = forms[f.id].hasty
        BY <1>2 DEF FormRow
      <3> HIDE DEF row
      <3> QED BY <3>1, <3>2
    <2>2. CASE ServerRefuses(f)
      <3> DEFINE row == [forms[f.id] EXCEPT !.stage = "refused"]
      <3>1. forms' = [forms EXCEPT ![f.id] = row]
        BY <1>2, <2>2 DEF ServerRefuses, PagesInv
      <3>2. /\ row.stage = "refused" /\ row.shown = forms[f.id].shown
            /\ row.base = forms[f.id].base /\ row.hasty = forms[f.id].hasty
        BY <1>2 DEF FormRow
      <3> HIDE DEF row
      <3> QED BY <3>1, <3>2
    <2> QED BY <2>1, <2>2
  <1>4. InFlight(f)
    BY <1>1 DEF InFlight
  <1> QED BY <1>1, <1>3, <1>4, OneFormEdits

LEMMA RefusedEdits ==
    ASSUME PagesInv, EditInv, NEW f \in view.forms, Refused(f)
    PROVE  EditInv'
  <1>1. UNCHANGED <<view, mine>>
    BY DEF Refused
  <1>2. f.id \in Ids /\ forms[f.id] \in FormRow(clock)
    BY OfView, PagesFacts DEF PagesInv
  <1> DEFINE row == IF forms[f.id].shown
                    THEN [forms[f.id] EXCEPT !.stage = "open"] ELSE NoForm
  <1>3. forms' = [forms EXCEPT ![f.id] = row]
    BY <1>2 DEF Refused, PagesInv
  <1>4. CASE forms[f.id].shown
    <2>1. /\ row.stage = "open" /\ row.shown = forms[f.id].shown
          /\ row.base = forms[f.id].base /\ row.hasty = forms[f.id].hasty
      BY <1>2, <1>4 DEF FormRow
    <2> HIDE DEF row
    <2> QED BY <1>1, <1>3, <1>4, <2>1, OneFormEdits
  <1>5. CASE ~forms[f.id].shown
    <2>1. row.stage = "closed" /\ ~row.shown
      BY <1>5 DEF NoForm
    <2> HIDE DEF row
    <2> QED BY <1>1, <1>3, <1>5, <2>1, OneFormEdits
  <1> QED BY <1>4, <1>5

LEMMA AnsweredEdits ==
    ASSUME SheetsAreKnown, PagesInv, EditInv, NEW f \in view.forms, Answered(f)
    PROVE  EditInv'
  <1>1. /\ view' = view /\ forms[f.id].stage = "saved"
        /\ mine' = [mine EXCEPT ![f.id] = forms[f.id].at]
    BY DEF Answered
  <1>2. /\ Ids' = Ids /\ f.id \in Ids /\ forms[f.id] \in FormRow(clock)
        /\ \A g \in view.forms : g.id \in Ids /\ (g.id = f.id => g = f)
    BY <1>1, SameView, OfView, PagesFacts DEF PagesInv
  <1> DEFINE row == IF f.stays /\ forms[f.id].shown
                    THEN [forms[f.id] EXCEPT !.stage = "open"] ELSE NoForm
  <1>3. forms' = [forms EXCEPT ![f.id] = row]
    BY <1>2 DEF Answered, PagesInv
  <1>4. /\ row.stage = "open" => row.shown
        /\ row.shown => /\ f.stays /\ forms[f.id].shown /\ row.stage = "open"
                        /\ row.base = forms[f.id].base
                        /\ row.hasty = forms[f.id].hasty
    BY <1>2 DEF FormRow, NoForm
  <1> HIDE DEF row
  <1>5. /\ forms'[f.id] = row
        /\ \A i \in Ids : i # f.id => forms'[i] = forms[i]
        /\ \A i \in Ids : i # f.id => mine'[i] = mine[i]
    BY <1>1, <1>2, <1>3 DEF PagesInv
  <1>6. ShownInv'
    BY <1>2, <1>4, <1>5 DEF EditInv, ShownInv
  <1>7. ASSUME NEW h \in view.forms, NEW g \in view.forms,
               NEW r \in view.reads,
               r.key = h.edits, Relates(g, r), h.id \notin KnownOverwrite,
               forms'[h.id].shown, ~forms'[h.id].hasty
        PROVE  /\ forms'[h.id].base >= mine'[g.id]
               /\ g # h => ~(forms'[g.id].stage \in {"sent", "saved", "refused"})
    <2>1. /\ forms[h.id].shown /\ ~forms[h.id].hasty
          /\ forms'[h.id].base = forms[h.id].base
      BY <1>2, <1>4, <1>5, <1>7
    <2>2. /\ forms[h.id].base >= mine[g.id]
          /\ g # h => ~InFlight(g)
      BY <1>7, <2>1 DEF EditInv, BaseInv
    <2>3. g # f
      <3>1. SUFFICES ASSUME g = f PROVE FALSE
        OBVIOUS
      <3>2. InFlight(f)
        BY <1>1 DEF InFlight
      <3>3. h = f
        BY <2>2, <3>1, <3>2
      <3>4. f.stays
        BY <1>4, <1>5, <1>7, <3>3
      <3> QED BY <1>7, <3>1, <3>3, <3>4 DEF SheetsAreKnown, PagesInv
    <2>4. forms'[g.id] = forms[g.id] /\ mine'[g.id] = mine[g.id]
      BY <1>2, <1>5, <2>3
    <2> QED BY <2>1, <2>2, <2>4 DEF InFlight
  <1>8. BaseInv'
    BY <1>1, <1>7, RelatesSame DEF BaseInv, InFlight
  <1> QED BY <1>6, <1>8 DEF EditInv

LEMMA OpenEdits ==
    ASSUME PagesInv, EditInv, OwnWritesShown, NEW f \in view.forms, Open(f)
    PROVE  EditInv'
  <1>1. UNCHANGED <<view, mine>> /\ \A i \in Ids : ~forms[i].shown
    BY DEF Open
  <1>2. /\ Ids' = Ids /\ f.id \in Ids
        /\ \A g \in view.forms : g.id \in Ids /\ (g.id = f.id => g = f)
    BY <1>1, SameView, OfView DEF PagesInv
  <1>3. PICK row :
          /\ forms' = [forms EXCEPT ![f.id] = row]
          /\ row.stage = "open" /\ row.shown
          /\ f.edits # NoKey =>
               \E r \in Mounted :
                  /\ r.key = f.edits /\ row.base = Entry(r).got
                  /\ ~row.hasty =>
                        /\ Settled(r)
                        /\ \A g \in view.forms : ~(Overlap(g, r) /\ InFlight(g))
    <2>1. CASE f.edits = NoKey
      <3> DEFINE row == [NoForm EXCEPT !.stage = "open", !.shown = TRUE]
      <3>1. forms' = [forms EXCEPT ![f.id] = row]
        BY <2>1 DEF Open
      <3>2. row.stage = "open" /\ row.shown
        BY DEF NoForm
      <3> HIDE DEF row
      <3> QED BY <2>1, <3>1, <3>2
    <2>2. CASE f.edits # NoKey
      <3>1. PICK r \in Mounted :
              /\ r.key = f.edits
              /\ forms' = [forms EXCEPT ![f.id] =
                    [NoForm EXCEPT
                        !.stage = "open", !.shown = TRUE,
                        !.base = Entry(r).got,
                        !.hasty = \/ ~Settled(r)
                                  \/ \E g \in view.forms :
                                        Overlap(g, r) /\ InFlight(g)]]
        BY <2>2 DEF Open
      <3> DEFINE hasty == \/ ~Settled(r)
                          \/ \E g \in view.forms : Overlap(g, r) /\ InFlight(g)
                 row == [NoForm EXCEPT !.stage = "open", !.shown = TRUE,
                                       !.base = Entry(r).got, !.hasty = hasty]
      <3>2. ~hasty => /\ Settled(r)
                      /\ \A g \in view.forms : ~(Overlap(g, r) /\ InFlight(g))
        OBVIOUS
      <3>3. forms' = [forms EXCEPT ![f.id] = row]
        BY <3>1
      <3>a. hasty \in BOOLEAN
        OBVIOUS
      <3> HIDE DEF hasty
      <3>4. /\ row.stage = "open" /\ row.shown /\ row.base = Entry(r).got
            /\ row.hasty = hasty
        BY <3>a DEF NoForm
      <3> HIDE DEF row
      <3> QED BY <3>1, <3>2, <3>3, <3>4
    <2> QED BY <2>1, <2>2
  <1>4. /\ forms'[f.id] = row
        /\ \A i \in Ids : i # f.id => forms'[i] = forms[i]
    BY <1>2, <1>3 DEF PagesInv
  <1>5. ShownInv'
    BY <1>1, <1>2, <1>3, <1>4 DEF EditInv, ShownInv
  <1>6. ASSUME NEW h \in view.forms, NEW g \in view.forms,
               NEW r \in view.reads,
               r.key = h.edits, Relates(g, r), h.id \notin KnownOverwrite,
               forms'[h.id].shown, ~forms'[h.id].hasty
        PROVE  /\ forms'[h.id].base >= mine[g.id]
               /\ g # h => ~(forms'[g.id].stage \in {"sent", "saved", "refused"})
    <2>1. h = f
      BY <1>1, <1>2, <1>4, <1>6
    <2>2. f.edits # NoKey
      BY <1>6, <2>1, OfView DEF PagesInv
    <2>3. PICK q \in Mounted :
             /\ q.key = f.edits /\ row.base = Entry(q).got
             /\ Settled(q)
             /\ \A e \in view.forms : ~(Overlap(e, q) /\ InFlight(e))
      BY <1>3, <1>4, <1>6, <2>1, <2>2
    <2>4. q \in view.reads
      BY OfView DEF PagesInv, Mounted
    <2>5. q.key = r.key /\ q.of = r.of
      BY <1>6, <2>1, <2>3, <2>4, OfView DEF PagesInv
    <2>6. Overlap(g, q) /\ Relates(g, q)
      BY <1>6, <2>5 DEF Relates, Overlap
    <2>7. ~(Entry(q).got < mine[g.id])
      BY <2>3, <2>6 DEF OwnWritesShown, Behind
    <2>8. Entry(q).got \in 0..clock /\ mine[g.id] \in 0..clock /\ clock \in Nat
      <3>1. Slot(q, filter) \in Slots
        BY <2>4, OfView DEF PagesInv
      <3> QED BY <1>2, <3>1, PagesFacts DEF Entry, EntryRow
    <2>9. forms'[h.id].base >= mine[g.id]
      BY <1>4, <2>1, <2>3, <2>7, <2>8
    <2>10. ASSUME g # h
           PROVE  ~(forms'[g.id].stage \in {"sent", "saved", "refused"})
      BY <1>2, <1>4, <2>1, <2>3, <2>6, <2>10 DEF InFlight
    <2> QED BY <2>9, <2>10
  <1>7. BaseInv'
    BY <1>1, <1>6, RelatesSame DEF BaseInv, InFlight
  <1> QED BY <1>5, <1>7 DEF EditInv

(***************************************************************************)
(* The client.                                                             *)
(***************************************************************************)
AreaInv == page # "none" => at \in Areas
ClientInv ==
    /\ SessionInv /\ PagesInv /\ AreaInv
    /\ DataInv /\ ToldInv

LEMMA AreasOfPages ==
    /\ \A s : AreaOf(s) \in Areas
    /\ \A area : \A s \in Screens :
          /\ PageAt(area, s) \in Screens \cup {"none"}
          /\ PageAt(area, s) # "none" => area \in Areas
  <1>1. \A s : AreaOf(s) \in Areas
    BY DEF AreaOf, Areas, StoreAreas
  <1>2. \A area : \A s \in Screens :
          /\ PageAt(area, s) \in Screens \cup {"none"}
          /\ PageAt(area, s) # "none" => area \in Areas
    BY NoneIsNoScreen DEF PageAt, Redirected
  <1> QED BY <1>1, <1>2

(* What a step does to the session and to the pages. *)
ClientStep ==
    /\ SessionInv' /\ Grown /\ (Carried \/ Anew)
    /\ PageStep /\ MountedStep /\ AreaInv'

LEMMA GoneTo ==
    ASSUME SessionInv, PagesInv, SessionInv', Grown, Carried,
           NEW s \in Screens \cup {"none"}, s # "none" => at' \in Areas,
           GoTo(s), moves' \in 0..view.moves
    PROVE  ClientStep
  <1>1. PageStep /\ MountedStep
    BY GoToStep DEF SessionInv
  <1>2. page' = s
    BY DEF GoTo, Arrive
  <1> QED BY <1>1, <1>2 DEF ClientStep, AreaInv

LEMMA LoadedAnew ==
    ASSUME SessionInv, PagesInv, SessionInv', Grown,
           NEW s \in Screens \cup {"none"}, s # "none" => at' \in Areas,
           LoadAnew(s), moves' \in 0..view.moves
    PROVE  ClientStep
  <1>1. PageStep /\ MountedStep /\ Anew
    BY LoadAnewStep DEF SessionInv
  <1>2. page' = s
    BY DEF LoadAnew, Arrive
  <1> QED BY <1>1, <1>2 DEF ClientStep, AreaInv

LEMMA InTour ==
    ASSUME PagesInv
    PROVE  /\ Tour \subseteq Screens
           /\ \A f \in view.forms : f.leaves # "" => f.leaves \in Screens
  <1>1. Tour \subseteq Screens
    BY OfView DEF PagesInv
  <1>2. \A f \in view.forms : f.leaves # "" => f.leaves \in Screens
    BY ViewsAssumption DEF PagesInv
  <1> QED BY <1>1, <1>2

LEMMA ClicksStep ==
    ASSUME SessionInv, PagesInv, AreaInv, NEW s \in Tour, Clicks(s)
    PROVE  ClientStep
  <1>1. /\ Navigate(AreaOf(s)) /\ GoTo(PageAt(at', s)) /\ Moves
        /\ page \in Screens
    BY DEF Clicks, Present
  <1>2. at \in Areas
    BY <1>1, NoneIsNoScreen DEF AreaInv
  <1>3. SessionInv' /\ Grown /\ Carried
    BY <1>1, <1>2, NavigateKeeps, AreasOfPages
  <1>4. /\ PageAt(at', s) \in Screens \cup {"none"}
        /\ PageAt(at', s) # "none" => at' \in Areas
    BY InTour, AreasOfPages
  <1>5. moves' \in 0..view.moves
    BY <1>1, MovesCount
  <1> QED BY <1>1, <1>3, <1>4, <1>5, GoneTo

LEMMA PushedSearchStep ==
    ASSUME SessionInv, PagesInv, AreaInv, NEW s \in Tour, PushedSearch(s)
    PROVE  ClientStep
  <1>1. /\ Navigate(AreaOf(s)) /\ PushEnds(PageAt(at', s)) /\ page # "none"
    BY DEF PushedSearch
  <1>2. SessionInv' /\ Grown /\ Carried
    BY <1>1, NavigateKeeps, AreasOfPages DEF AreaInv
  <1>3. /\ PageAt(at', s) \in Screens \cup {"none"}
        /\ PageAt(at', s) # "none" => at' \in Areas
    BY InTour, AreasOfPages
  <1>4. PageStep /\ MountedStep
    BY <1>1, <1>2, <1>3, PushEndsStep DEF SessionInv
  <1>5. page' = PageAt(at', s)
    BY <1>1 DEF PushEnds, Arrive
  <1> QED BY <1>2, <1>3, <1>4, <1>5 DEF ClientStep, AreaInv

LEMMA FormLeavesStep ==
    ASSUME SessionInv, PagesInv, AreaInv, NEW f \in view.forms, FormLeaves(f)
    PROVE  ClientStep
  <1>1. /\ f.leaves # "" /\ page # "none"
        /\ Navigate(AreaOf(f.leaves))
        /\ AnsweredAndLeaves(f, PageAt(at', f.leaves))
    BY DEF FormLeaves
  <1>2. SessionInv' /\ Grown /\ Carried
    BY <1>1, NavigateKeeps, AreasOfPages DEF AreaInv
  <1>3. /\ PageAt(at', f.leaves) \in Screens \cup {"none"}
        /\ PageAt(at', f.leaves) # "none" => at' \in Areas
    BY <1>1, InTour, AreasOfPages
  <1>4. PageStep /\ MountedStep
    BY <1>1, <1>2, <1>3, LeavesStep DEF SessionInv
  <1>5. page' = PageAt(at', f.leaves)
    BY <1>1 DEF AnsweredAndLeaves, Arrive
  <1> QED BY <1>2, <1>3, <1>4, <1>5 DEF ClientStep, AreaInv

LEMMA LoadingStep ==
    ASSUME SessionInv, PagesInv, NEW s \in Tour, Loading(s)
    PROVE  ClientStep
  <1>1. /\ Visit(AreaOf(s)) /\ LoadAnew(PageAt(at', s)) /\ Moves
    BY DEF Loading
  <1>2. SessionInv' /\ Grown
    BY <1>1, VisitKeeps, AreasOfPages
  <1>3. /\ PageAt(at', s) \in Screens \cup {"none"}
        /\ PageAt(at', s) # "none" => at' \in Areas
    BY InTour, AreasOfPages
  <1>4. moves' \in 0..view.moves
    BY <1>1, MovesCount
  <1> QED BY <1>1, <1>2, <1>3, <1>4, LoadedAnew

LEMMA VisitsSignInStep ==
    ASSUME SessionInv, PagesInv, NEW area \in PublicAreas, VisitsSignIn(area)
    PROVE  ClientStep
  <1>1. Visit(area) /\ LoadAnew("none") /\ Moves
    BY DEF VisitsSignIn
  <1>2. SessionInv' /\ Grown
    BY <1>1, VisitKeeps
  <1>3. moves' \in 0..view.moves
    BY <1>1, MovesCount
  <1> QED BY <1>1, <1>2, <1>3, LoadedAnew

LEMMA SignsInStep ==
    ASSUME SessionInv, PagesInv, NEW p \in People, NEW set \in BOOLEAN,
           SignsIn(p, set)
    PROVE  ClientStep
  <1>1. SignIn(p, set) /\ LoadAnew(PageAt(at', "dashboard")) /\ moves' = moves
    BY DEF SignsIn
  <1>2. SessionInv' /\ Grown
    BY <1>1, SignInKeeps
  <1>3. /\ PageAt(at', "dashboard") \in Screens \cup {"none"}
        /\ PageAt(at', "dashboard") # "none" => at' \in Areas
    BY NoneIsNoScreen, AreasOfPages
  <1>4. moves' \in 0..view.moves
    BY <1>1, MovesCount
  <1> QED BY <1>1, <1>2, <1>3, <1>4, LoadedAnew

LEMMA SignsInByPinStep ==
    ASSUME SessionInv, PagesInv, NEW p \in People, NEW set \in BOOLEAN,
           SignsInByPin(p, set)
    PROVE  ClientStep
  <1>1. PinSignIn(p, set) /\ GoTo(PageAt(at', "dashboard")) /\ moves' = moves
    BY DEF SignsInByPin
  <1>2. SessionInv' /\ Grown /\ "page" \in pinned'
    BY <1>1, PinSignInKeeps
  <1>3. /\ PageAt(at', "dashboard") \in Screens \cup {"none"}
        /\ PageAt(at', "dashboard") # "none" => at' \in Areas
    BY NoneIsNoScreen, AreasOfPages
  <1>4. moves' \in 0..view.moves
    BY <1>1, MovesCount
  <1>5. Carried
    BY <1>2 DEF Carried
  <1> QED BY <1>1, <1>2, <1>3, <1>4, <1>5, GoneTo

LEMMA LeavesStoreStep ==
    ASSUME SessionInv, PagesInv,
           GoesBack \/ \E reached \in BOOLEAN : SignsOut(reached)
    PROVE  ClientStep
  <1>1. SessionInv' /\ Grown /\ ~InStore' /\ GoTo("none")
        /\ (Moves \/ UNCHANGED moves)
    <2>1. CASE GoesBack
      BY <2>1, BackKeeps DEF GoesBack
    <2>2. ASSUME NEW reached \in BOOLEAN, SignsOut(reached)
          PROVE  SessionInv' /\ Grown /\ ~InStore' /\ GoTo("none")
                 /\ UNCHANGED moves
      BY <2>2, SignOutKeeps DEF SignsOut
    <2> QED BY <2>1, <2>2
  <1>2. Carried
    BY <1>1 DEF Carried
  <1>3. moves' \in 0..view.moves
    BY <1>1, MovesCount
  <1> QED BY <1>1, <1>2, <1>3, GoneTo

(* The session moves on, the pages stay. *)
LEMMA PagesStay ==
    ASSUME SessionInv, PagesInv, AreaInv, SessionInv', Grown, Carried,
           at' = at, UNCHANGED pageVars
    PROVE  ClientStep
  <1>1. PageStep /\ MountedStep
    BY QuietStep DEF SessionInv
  <1>2. AreaInv'
    BY DEF AreaInv, pageVars
  <1> QED BY <1>1, <1>2 DEF ClientStep

LEMMA SessionKept ==
    ASSUME SessionInv, UNCHANGED sessionVars
    PROVE  SessionInv' /\ Grown /\ Carried
  <1>1. SessionTypeOK' /\ Grown /\ Carried
    BY SameSession DEF SessionInv
  <1> QED
    BY <1>1 DEF SessionInv, sessionVars, InStore, OneIdentity, TokenKept

LEMMA QuietSession ==
    ASSUME SessionInv, PagesInv, AreaInv,
           \/ Locks \/ TimePasses \/ UNCHANGED clientVars
           \/ \E set \in BOOLEAN : Unlocks(set)
    PROVE  ClientStep
  <1>1. CASE Locks
    BY <1>1, LockKeeps, PagesStay DEF Locks, Lock
  <1>2. CASE \E set \in BOOLEAN : Unlocks(set)
    BY <1>2, UnlockKeeps, PagesStay DEF Unlocks, PinUnlock
  <1>3. CASE TimePasses
    <2>1. at' = at
      BY <1>3 DEF TimePasses, TokenExpires, CookieDropped, RefreshDropped
    <2> QED BY <1>3, <2>1, TimeKeeps, PagesStay DEF TimePasses
  <1>4. CASE UNCHANGED clientVars
    BY <1>4, SessionKept, PagesStay DEF clientVars, sessionVars
  <1> QED BY <1>1, <1>2, <1>3, <1>4

LEMMA StayStep ==
    ASSUME SessionInv, PagesInv, AreaInv, Stay
    PROVE  ClientStep
  <1>1. UNCHANGED sessionVars /\ SessionTypeOK
    BY DEF Stay, SessionInv
  <1>2. PageStep /\ MountedStep
    <2>1. ASSUME NEW n \in Filters, Choose(n) \/ Type(n)
          PROVE  PageStep /\ MountedStep
      BY <1>1, <2>1, ChooseStep, TypeStep
    <2>2. CASE PauseEnds
      BY <1>1, <2>2, PauseStep
    <2>3. ASSUME NEW a \in asks, ServerReads(a) \/ Land(a) \/ Fail(a)
          PROVE  PageStep /\ MountedStep
      BY <1>1, <2>3, ServerReadsStep, LandStep, FailStep
    <2>4. ASSUME NEW s \in Slots, Expire(s)
          PROVE  PageStep /\ MountedStep
      BY <1>1, <2>4, ExpireStep
    <2>5. ASSUME NEW r \in Mounted, Refetch(r)
          PROVE  PageStep /\ MountedStep
      BY <1>1, <2>5, RefetchStep
    <2>6. ASSUME NEW f \in view.forms, FormStep(f)
          PROVE  PageStep /\ MountedStep
      BY <1>1, <2>6, OpenStep, CloseStep, SubmitStep, ServerWritesStep,
         ServerRefusesStep, RefusedStep, AnsweredStep DEF FormStep
    <2> QED BY <2>1, <2>2, <2>3, <2>4, <2>5, <2>6 DEF Stay
  <1>3. page' = page
    BY DEF Stay, Choose, Type, PauseEnds, ServerReads, Land, Fail, Expire,
           Refetch, FormStep, Open, Close, Submit, ServerWrites,
           ServerRefuses, Refused, Answered
  <1>4. AreaInv'
    BY <1>1, <1>3 DEF AreaInv, sessionVars
  <1> QED BY <1>2, <1>4, SessionKept, <1>1 DEF ClientStep

LEMMA EachStep ==
    ASSUME SessionInv, PagesInv, AreaInv, [Next]_clientVars
    PROVE  ClientStep
  <1>1. CASE \E s \in Tour : Clicks(s) \/ PushedSearch(s) \/ Loading(s)
    BY <1>1, ClicksStep, PushedSearchStep, LoadingStep
  <1>2. CASE \E area \in PublicAreas : VisitsSignIn(area)
    BY <1>2, VisitsSignInStep
  <1>3. CASE \E f \in view.forms : FormLeaves(f)
    BY <1>3, FormLeavesStep
  <1>4. CASE \E p \in People, set \in BOOLEAN :
             SignsIn(p, set) \/ SignsInByPin(p, set)
    BY <1>4, SignsInStep, SignsInByPinStep
  <1>5. CASE GoesBack \/ \E reached \in BOOLEAN : SignsOut(reached)
    BY <1>5, LeavesStoreStep
  <1>6. CASE \/ Locks \/ TimePasses \/ UNCHANGED clientVars
             \/ \E set \in BOOLEAN : Unlocks(set)
    BY <1>6, QuietSession
  <1>7. CASE Stay
    BY <1>7, StayStep
  <1> QED BY <1>1, <1>2, <1>3, <1>4, <1>5, <1>6, <1>7 DEF Next

LEMMA ClientInvNext ==
    ASSUME ClientInv, [Next]_clientVars
    PROVE  ClientInv'
  <1>1. ClientStep
    BY EachStep DEF ClientInv
  <1>2. SessionTypeOK /\ SessionTypeOK'
    BY <1>1 DEF ClientInv, ClientStep, SessionInv
  <1> QED
    BY <1>1, <1>2, PagesKept, DataKept, ToldKept
       DEF ClientInv, ClientStep

LEMMA ClientInvInit ==
    ASSUME Init
    PROVE  ClientInv
  <1>1. view \in Views /\ view.person \in People /\ view.moves \in Nat
    BY ViewsAssumption DEF Init
  <1>2. /\ filter = 0 /\ typed = {} /\ clock = 0 /\ asks = {} /\ moves = 0
        /\ cache = [s \in Slots |-> NoEntry]
        /\ forms = [i \in Ids |-> NoForm]
        /\ mine = [i \in Ids |-> 0]
        /\ page \in {"none", "dashboard"}
        /\ page # "none" => ~view.session
    BY DEF Init
  <1>3. SessionInv /\ AreaInv
    <2>1. CASE view.session
      <3>1. SessionInit /\ page = "none"
        BY <2>1 DEF Init
      <3>a. {memory, prop, cookie, dead} \subseteq 0..Len(owner)
        BY <3>1 DEF SessionInit
      <3>b. owner \in Seq(People)
        BY <3>1 DEF SessionInit
      <3>2. SessionTypeOK
        BY <3>1, <3>a, <3>b DEF SessionInit, SessionTypeOK, PublicAreas
      <3> QED
        BY <3>1, <3>2 DEF SessionInit, SessionInv, AreaInv, InStore,
               StoreAreas, OneIdentity, TokenKept
    <2>2. CASE ~view.session
      <3> DEFINE p == view.person
      <3>1. /\ at = Home(p) /\ user = IF at \in StoreAreas THEN p ELSE Nobody
            /\ memory = IF at \in StoreAreas THEN 1 ELSE 0
            /\ refresh = p /\ owner = <<p>>
            /\ prop = 1 /\ cookie = 1 /\ dead = 0
            /\ locked = FALSE /\ pinned = {}
        BY <2>2 DEF Init, SignedIn
      <3>2. p \in People
        BY <1>1
      <3> HIDE DEF p
      <3>3. at \in Areas /\ (at = "admin" => Role[p] = "SUPER_ADMIN")
        BY <3>1, <3>2, HomeIn
      <3>4. owner \in Seq(People) /\ Len(owner) = 1 /\ owner[1] = p
        BY <3>1, <3>2
      <3>a. {memory, prop, cookie, dead} \subseteq 0..Len(owner)
        BY <3>1, <3>4
      <3>b. user \in People \cup {Nobody} /\ pinned \subseteq {"page", "lock", "refused"}
        BY <3>1, <3>2
      <3>5. SessionTypeOK
        BY <3>1, <3>2, <3>3, <3>4, <3>a, <3>b DEF SessionTypeOK
      <3>6. Nobody \notin People
        BY SessionAssumption
      <3> QED
        BY <3>1, <3>2, <3>3, <3>4, <3>5, <3>6
           DEF SessionInv, AreaInv, InStore, OneIdentity, TokenKept
    <2> QED BY <2>1, <2>2
  <1>4. 0 \in 0..MaxWrites /\ 0 \in Filters /\ 0 \in 0..0
        /\ moves \in 0..view.moves
    <2>1. MaxWrites \in Nat
      BY ViewsAssumption
    <2> QED BY <1>1, <1>2, <2>1 DEF Filters
  <1>5. NoEntry \in EntryRow(0) /\ NoForm \in FormRow(0)
        /\ ~NoEntry.has /\ ~NoForm.before.has
    BY NoEntryRow, NoFormRow DEF NoEntry, NoForm
  <1>6. \A f \in view.forms : f.id \in Ids
    BY <1>1, OfView
  <1>7. PagesInv
    BY <1>1, <1>2, <1>4, <1>5, <1>6, NoneIsNoScreen DEF PagesInv
  <1>8. DataInv
    BY <1>2, <1>5, <1>6 DEF DataInv, OfItsUser
  <1>9. ToldInv
    BY <1>2, <1>5, <1>6 DEF ToldInv
  <1> QED BY <1>3, <1>7, <1>8, <1>9 DEF ClientInv

LEMMA ClientInvAlways == Spec => []ClientInv
  <1>1. Init => ClientInv
    BY ClientInvInit
  <1>2. ClientInv /\ [Next]_clientVars => ClientInv'
    BY ClientInvNext
  <1> QED BY <1>1, <1>2, PTL DEF Spec

(***************************************************************************)
(* What the pages show.                                                    *)
(***************************************************************************)
LEMMA MountedHere ==
    ASSUME PagesInv, NEW r \in Mounted
    PROVE  /\ r \in view.reads /\ Slot(r, filter) \in Slots
           /\ Entry(r) = cache[Slot(r, filter)]
           /\ Entry(r) \in EntryRow(clock)
           /\ Slot(r, filter)[1] = r.key
  <1>1. r \in view.reads /\ Slot(r, filter) \in Slots
    BY OfView DEF PagesInv, Mounted
  <1>2. Entry(r) = cache[Slot(r, filter)] /\ Entry(r) \in EntryRow(clock)
    BY <1>1 DEF Entry, PagesInv
  <1> QED BY <1>1, <1>2, SlotIs

LEMMA PagesAreTyped ==
    ASSUME PagesInv
    PROVE  PagesTypeOK
  <1>1. /\ page \in Screens \cup {"none"} /\ filter \in Filters
        /\ typed \in SUBSET Filters /\ clock \in 0..MaxWrites
        /\ moves \in 0..view.moves
    BY DEF PagesInv
  <1>2. \A s \in Slots : /\ cache[s].got \in 0..clock
                         /\ cache[s].who \in People \cup {Nobody}
    BY PagesFacts DEF EntryRow
  <1>3. \A a \in asks : /\ a.slot \in Slots
                        /\ a.token \in 0..Len(owner)
                        /\ a.got \in 0..clock
    BY DEF PagesInv, AskRow
  <1>4. ASSUME NEW i \in Ids
        PROVE  /\ forms[i].stage \in {"closed", "open", "sent", "saved",
                                      "refused"}
               /\ {forms[i].base, forms[i].at, mine[i]} \subseteq 0..clock
    <2>1. forms[i] \in FormRow(clock) /\ mine[i] \in 0..clock
      BY PagesFacts
    <2> QED BY <2>1 DEF FormRow, Stages
  <1> QED BY <1>1, <1>2, <1>3, <1>4 DEF PagesTypeOK

LEMMA DataFollows ==
    ASSUME ClientInv
    PROVE  DataOfItsUser
  <1> SUFFICES ASSUME NEW r \in Mounted, InStore, r.how = "query",
                      Entry(r).has, "page" \notin pinned
               PROVE  Entry(r).who = user
    BY DEF DataOfItsUser
  <1> QED BY MountedHere DEF ClientInv, DataInv, OfItsUser

LEMMA OwnWritesNext ==
    ASSUME WritesAreTold, ClientInv, OwnWritesShown, [Next]_clientVars
    PROVE  OwnWritesShown'
  <1>1. ClientStep /\ ClientInv'
    BY EachStep, ClientInvNext DEF ClientInv
  <1>2. view' = view /\ view \in Views /\ PagesInv /\ PagesInv'
    BY <1>1 DEF ClientInv, ClientStep, PageStep, PagesInv
  <1> SUFFICES ASSUME NEW r \in Mounted', Settled(r)',
                      NEW f \in view.forms, Relates(f, r)
               PROVE  ~(Entry(r)'.got < mine'[f.id])
    BY <1>2, RelatesSame DEF OwnWritesShown, Behind
  <1>3. /\ r \in view.reads /\ Slot(r, filter') \in Slots'
        /\ Entry(r)' = cache'[Slot(r, filter')]
        /\ Entry(r)' \in EntryRow(clock)'
        /\ Slot(r, filter')[1] = r.key
    <2>1. r \in view.reads
      BY <1>2, OfView, SameView DEF Mounted, MountedOn
    <2>2. filter' \in Filters /\ cache' \in [Slots' -> EntryRow(clock)']
      BY <1>2 DEF PagesInv
    <2>3. Slot(r, filter') \in Slots'
      BY <1>2, <2>1, <2>2, OfView, SameView
    <2>4. Entry(r)' = cache'[Slot(r, filter')]
      BY DEF Entry, Slot
    <2> QED BY <2>1, <2>2, <2>3, <2>4, SlotIs
  <1>4. r.how # "raced" /\ Told(f, r.key)
    BY <1>2, <1>3 DEF WritesAreTold
  <1>5. f.id \in Ids /\ mine[f.id] \in 0..clock /\ clock \in Nat
    BY <1>2, OfView, PagesFacts
  <1>6. RestStep(r)
    BY <1>1 DEF ClientStep, MountedStep
  <1>7. CASE Entry(r)'.fresh
    <2>1. Entry(r)'.has /\ ~Entry(r)'.doubtful
      BY DEF Settled
    <2>2. Entry(r)'.got >= mine'[f.id]
      BY <1>1, <1>2, <1>3, <1>4, <1>7, <2>1 DEF ClientInv, ToldInv
    <2>3. Entry(r)'.got \in 0..clock' /\ mine'[f.id] \in 0..clock'
          /\ clock' \in Nat
      <3>1. Entry(r)'.got \in 0..clock'
        BY <1>3 DEF EntryRow
      <3>2. mine'[f.id] \in 0..clock'
        BY <1>1, <1>5 DEF ClientStep, PageStep
      <3>3. clock' \in Nat
        BY <1>2 DEF PagesInv
      <3> QED BY <3>1, <3>2, <3>3
    <2> QED BY <2>2, <2>3
  <1>8. CASE ~Entry(r)'.fresh
    <2>1. /\ r \in Mounted /\ Settled(r)
          /\ Entry(r)'.got = Entry(r).got
          /\ mine'[f.id] \in {0, mine[f.id]}
      BY <1>4, <1>6, <1>8 DEF RestStep
    <2>2. ~(Entry(r).got < mine[f.id])
      BY <2>1 DEF OwnWritesShown, Behind
    <2>3. Entry(r).got \in 0..clock
      BY <1>2, <2>1, MountedHere DEF EntryRow
    <2> QED BY <1>5, <2>1, <2>2, <2>3
  <1> QED BY <1>7, <1>8

LEMMA OwnWritesInit ==
    ASSUME Init
    PROVE  OwnWritesShown
  <1>1. ASSUME NEW r \in Mounted
        PROVE  ~Settled(r)
    <2>1. Entry(r) = NoEntry
      BY ClientInvInit, MountedHere DEF Init, ClientInv
    <2> QED BY <2>1 DEF Settled, NoEntry
  <1> QED BY <1>1 DEF OwnWritesShown

(***************************************************************************)
(* What the forms edit.                                                    *)
(***************************************************************************)
LEMMA LeftEdits ==
    ASSUME PagesInv, NEW s,
           GoTo(s) \/ LoadAnew(s)
             \/ (\E f \in view.forms : AnsweredAndLeaves(f, s))
    PROVE  EditInv'
  <1>1. CASE GoTo(s)
    <2>1. view' = view /\ forms' = CloseForms(forms)
      BY <1>1 DEF GoTo
    <2> QED BY <2>1, PagesFacts, CloseFormsIs, NoneShown
  <1>2. CASE LoadAnew(s)
    <2>1. view' = view /\ \A i \in Ids : forms'[i] = NoForm
      BY <1>2 DEF LoadAnew
    <2>2. ~NoForm.shown /\ NoForm.stage # "open"
      BY DEF NoForm
    <2> QED BY <2>1, <2>2, NoneShown
  <1>3. ASSUME NEW f \in view.forms, AnsweredAndLeaves(f, s)
        PROVE  EditInv'
    <2> DEFINE F == [forms EXCEPT ![f.id] = NoForm]
    <2>1. \A i \in Ids : F[i] \in {NoForm, forms[i]}
      BY DEF PagesInv
    <2>2. /\ \A i \in Ids : F[i] \in FormRow(clock)
          /\ \A i \in Ids : ~F[i].before.has \/ F[i].before = forms[i].before
      BY <2>1, PagesFacts
    <2>3. forms' = CloseForms(F) /\ view' = view
      BY <1>3 DEF AnsweredAndLeaves
    <2> HIDE DEF F
    <2> QED BY <2>2, <2>3, CloseFormsIs, NoneShown
  <1> QED BY <1>1, <1>2, <1>3

LEMMA PushedEdits ==
    ASSUME PagesInv, EditInv, NEW s, PushEnds(s)
    PROVE  EditInv'
  <1>1. view' = view /\ mine' = mine
    BY DEF PushEnds
  <1>2. CASE s = page
    BY <1>1, <1>2, SameForms DEF PushEnds
  <1>3. CASE s # page
    BY <1>1, <1>3, PagesFacts, CloseFormsIs, NoneShown DEF PushEnds
  <1> QED BY <1>2, <1>3

LEMMA StayEdits ==
    ASSUME SheetsAreKnown, PagesInv, EditInv, OwnWritesShown, Stay
    PROVE  EditInv'
  <1>1. ASSUME NEW f \in view.forms, FormStep(f)
        PROVE  EditInv'
    BY <1>1, OpenEdits, CloseEdits, SubmitEdits, ServerEdits, RefusedEdits,
       AnsweredEdits DEF FormStep
  <1>2. CASE ~\E f \in view.forms : FormStep(f)
    <2>1. UNCHANGED <<view, forms, mine>>
      BY <1>2 DEF Stay, Choose, Type, PauseEnds, ServerReads, Land, Fail,
                  Expire, Refetch
    <2> QED BY <2>1, SameForms
  <1> QED BY <1>1, <1>2

LEMMA EditsNext ==
    ASSUME SheetsAreKnown, ClientInv, OwnWritesShown, EditInv,
           [Next]_clientVars
    PROVE  EditInv'
  <1>0. PagesInv
    BY DEF ClientInv
  <1>1. CASE \E s \in Tour : Clicks(s) \/ PushedSearch(s) \/ Loading(s)
    BY <1>0, <1>1, LeftEdits, PushedEdits DEF Clicks, PushedSearch, Loading
  <1>2. CASE \E area \in PublicAreas : VisitsSignIn(area)
    BY <1>0, <1>2, LeftEdits DEF VisitsSignIn
  <1>3. CASE \E f \in view.forms : FormLeaves(f)
    BY <1>0, <1>3, LeftEdits DEF FormLeaves
  <1>4. CASE \E p \in People, set \in BOOLEAN :
             SignsIn(p, set) \/ SignsInByPin(p, set)
    BY <1>0, <1>4, LeftEdits DEF SignsIn, SignsInByPin
  <1>5. CASE GoesBack \/ \E reached \in BOOLEAN : SignsOut(reached)
    BY <1>0, <1>5, LeftEdits DEF GoesBack, SignsOut
  <1>6. CASE \/ Locks \/ TimePasses \/ UNCHANGED clientVars
             \/ \E set \in BOOLEAN : Unlocks(set)
    <2>1. UNCHANGED <<view, forms, mine>>
      BY <1>6 DEF Locks, Unlocks, TimePasses, clientVars, pageVars
    <2> QED BY <2>1, SameForms
  <1>7. CASE Stay
    BY <1>0, <1>7, StayEdits
  <1> QED BY <1>1, <1>2, <1>3, <1>4, <1>5, <1>6, <1>7 DEF Next

LEMMA EditsInit ==
    ASSUME Init
    PROVE  EditInv
  <1>1. \A i \in Ids : forms[i] = NoForm
    BY DEF Init
  <1>2. \A f \in view.forms : f.id \in Ids
    BY DEF Ids
  <1> QED BY <1>1, <1>2 DEF EditInv, ShownInv, BaseInv, NoForm

(***************************************************************************)
(* Theorems.                                                               *)
(***************************************************************************)
(* The session and the pages keep their types through sign-ins, refreshed  *)
(* tokens, navigations, requests and forms.                                *)
THEOREM ClientTyped == Spec => []TypeOK
  <1>1. ClientInv => TypeOK
    BY PagesAreTyped DEF ClientInv, SessionInv, TypeOK
  <1> QED BY <1>1, ClientInvAlways, PTL

(* The person the pages show is the one the cookies speak for, whatever    *)
(* order of sign-ins, PIN entries, failed sign-outs, refreshed and dropped *)
(* tokens led there (middleware.ts, authStore.ts, the store layout), as    *)
(* long as the tokens of the last PIN entered on the PIN page were stored: *)
(* PinEntryModal.tsx:60 goes on when they were not.                        *)
THEOREM IdentityIsOne == Spec => []OneIdentity
  <1>1. ClientInv => OneIdentity
    BY DEF ClientInv, SessionInv
  <1> QED BY <1>1, ClientInvAlways, PTL

(* A signed-in person's pages lack a token only after a PIN was entered.   *)
THEOREM TokenStays == Spec => []TokenKept
  <1>1. ClientInv => TokenKept
    BY DEF ClientInv, SessionInv
  <1> QED BY <1>1, ClientInvAlways, PTL

(* No page shows what was answered to another person, although the query   *)
(* cache is never cleared: unless the PIN page was used, only a full load  *)
(* changes the person, and every entry, request in flight and answer that  *)
(* a refused guess puts back is of that person.                            *)
THEOREM DataIsOfItsUser == Spec => []DataOfItsUser
  <1>1. ClientInv => DataOfItsUser
    BY DataFollows
  <1> QED BY <1>1, ClientInvAlways, PTL

(* For every table of pages and every set KnownStale that names its writes *)
(* of which a form does not tell a reader: a page at rest, whose answer is *)
(* not doubtful, shows every other write its user was told is saved,       *)
(* however requests, invalidations, guesses and moves were interleaved.    *)
THEOREM OwnWritesAreShown ==
    ASSUME WritesAreTold
    PROVE  Spec => []OwnWritesShown
  <1> DEFINE I == ClientInv /\ OwnWritesShown
  <1>1. Init => I
    BY ClientInvInit, OwnWritesInit
  <1>2. I /\ [Next]_clientVars => I'
    BY ClientInvNext, OwnWritesNext
  <1>3. I => OwnWritesShown
    OBVIOUS
  <1> QED BY <1>1, <1>2, <1>3, PTL DEF Spec

(* An edit that was not opened hastily is sent on an answer that holds     *)
(* every write its user made to that data before and that its form told,   *)
(* if moreover the sheets that stay open after saving their own data, and  *)
(* those that keep the values they were mounted with, are in               *)
(* KnownOverwrite.                                                         *)
THEOREM EditsAreBuiltOnOwnWrites ==
    ASSUME WritesAreTold, SheetsAreKnown
    PROVE  Spec => EditsBuildOnOwnWrites
  <1> DEFINE I == ClientInv /\ OwnWritesShown /\ EditInv
             Sent == \A f, g \in view.forms : \A r \in view.reads :
        /\ r.key = f.edits /\ Relates(g, r) /\ f.id \notin KnownOverwrite
        /\ forms[f.id].stage = "open" /\ forms'[f.id].stage = "sent"
        /\ ~forms[f.id].hasty
        => forms[f.id].base >= mine[g.id]
  <1>1. Init => I
    BY ClientInvInit, OwnWritesInit, EditsInit
  <1>2. I /\ [Next]_clientVars => I'
    BY ClientInvNext, OwnWritesNext, EditsNext
  <1>3. I => Sent
    <2> SUFFICES ASSUME I, NEW f \in view.forms, NEW g \in view.forms,
                        NEW r \in view.reads, r.key = f.edits, Relates(g, r),
                        f.id \notin KnownOverwrite,
                        forms[f.id].stage = "open", ~forms[f.id].hasty
                 PROVE  forms[f.id].base >= mine[g.id]
      OBVIOUS
    <2>1. forms[f.id].shown
      BY DEF EditInv, ShownInv, Ids
    <2> QED BY <2>1 DEF EditInv, BaseInv
  <1> QED BY <1>1, <1>2, <1>3, PTL DEF Spec, EditsBuildOnOwnWrites
=============================================================================
