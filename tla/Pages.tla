------------------------------- MODULE Pages -------------------------------
(***************************************************************************)
(* How the pages of Screens behave: the cache of server answers, requests  *)
(* in flight, filters that are typed, forms that write and invalidate.     *)
(*                                                                         *)
(* The server's data is a clock: the number of writes it has committed.    *)
(* An answer holds every write up to the clock at which the server read.   *)
(* The cache is TanStack Query's (external): an answer is fresh until it   *)
(* is invalidated or five minutes old; a page that mounts asks when there  *)
(* is no fresh answer and nobody is asking; invalidating a mounted entry   *)
(* that has data restarts its request, any other request in flight is left *)
(* alone, and its answer counts as fresh although the server may have read *)
(* before the write: such an entry is marked doubtful.                     *)
(*                                                                         *)
(* One behaviour uses one view: some forms, some readers, the pages the    *)
(* user walks through and what is on them (on), who is signed in and       *)
(* whether that changes (session), and a bound on the steps of the user    *)
(* and the refetches (moves).                                              *)
(***************************************************************************)
EXTENDS Screens, Session, SequencesExt

CONSTANTS
    Views,          \* bound: the views, one of which a behaviour uses
    MaxWrites,      \* bound: writes the server commits
    KnownStale,     \* <<form, key>>: writes the key is never told about
    KnownOverwrite  \* forms that are submitted on an older answer

VARIABLES
    view,       \* the view this behaviour uses
    page,       \* the page that is mounted, "none" for a public one
    filter,     \* the filter, search or page number the page asks for
    typed,      \* the value a debounce timer will apply, if one runs
    clock,      \* writes committed by the server
    cache,      \* what each slot of the cache holds
    asks,       \* the read requests in flight
    forms,      \* each form: its stage and the answer it was opened on
    mine,       \* the clock of each form's last acknowledged write
    moves       \* steps taken, for the bound

pageVars == <<view, page, filter, typed, clock, cache, asks, forms, mine,
              moves>>

Filters == {0, 1}
Tour == DOMAIN view.on
Ids == {f.id : f \in view.forms}

(* The slot of the cache a reader uses under a filter. *)
Slot(r, f) ==
    <<r.key, IF r.how = "query" /\ r.by # "none" THEN f ELSE 0>>
Slots == {Slot(r, f) : r \in view.reads, f \in Filters}

MountedOn(s) ==
    IF s \in Tour THEN view.on[s].reads ELSE {}
Mounted == MountedOn(page)
FormsOn(s) ==
    IF s \in Tour THEN view.on[s].forms ELSE {}

ASSUME ViewsAssumption ==
    /\ MaxWrites \in Nat
    /\ \A x \in Views :
        /\ x.moves \in Nat /\ x.person \in People
        /\ DOMAIN x.on \subseteq Screens
        /\ \A s \in DOMAIN x.on :
              x.on[s].reads \subseteq x.reads /\ x.on[s].forms \subseteq x.forms
        /\ \A f \in x.forms : f.leaves \in Screens \cup {""}

(* The forms of a view are told apart by their ids; readers with one key   *)
(* share the entry.                                                        *)
ASSUME KeysAssumption ==
    \A x \in Views :
        /\ \A f, g \in x.forms : f.id = g.id => f = g
        /\ \A f \in x.forms :
              f.guesses # NoKey => \E r \in x.reads : r.key = f.guesses
        /\ \A r \in x.reads : r.key # NoKey
        /\ \A q, r \in x.reads : q.key = r.key =>
              /\ q.of = r.of /\ q.how = r.how
              /\ q.by = "none" <=> r.by = "none"

NoEntry == [has |-> FALSE, got |-> 0, who |-> Nobody,
            fresh |-> FALSE, doubtful |-> FALSE, failed |-> FALSE]
Entry(r) == cache[Slot(r, filter)]

NoForm == [stage |-> "closed", shown |-> FALSE, base |-> 0, hasty |-> FALSE,
           at |-> 0, before |-> NoEntry]

PagesTypeOK ==
    /\ page \in Screens \cup {"none"}
    /\ filter \in Filters
    /\ typed \in SUBSET Filters
    /\ clock \in 0..MaxWrites
    /\ \A s \in Slots : /\ cache[s].got \in 0..clock
                        /\ cache[s].who \in People \cup {Nobody}
    /\ \A a \in asks : /\ a.slot \in Slots
                       /\ a.token \in 0..Len(owner)
                       /\ a.got \in 0..clock
    /\ \A i \in Ids : /\ forms[i].stage \in {"closed", "open", "sent",
                                             "saved", "refused"}
                      /\ {forms[i].base, forms[i].at, mine[i]} \subseteq
                            0..clock
    /\ moves \in 0..view.moves

(***************************************************************************)
(* Asking.  Requests of the browser carry the token of the auth store, or  *)
(* the one the server gave their page.                                     *)
(***************************************************************************)
Asking(a, r, f) == a.slot = Slot(r, f)
Unasked(r, f, A) == ~\E a \in A : Asking(a, r, f)

Ask(r, f) ==
    [slot |-> Slot(r, f), read |-> FALSE, got |-> 0, late |-> FALSE,
     token |-> IF r.fed THEN prop' ELSE memory']

(* What the readers of R ask when they mount, or their filter becomes f. *)
Wants(r, f, c, A) ==
    \/ r.how # "query"
    \/ /\ ~(c[Slot(r, f)].has /\ c[Slot(r, f)].fresh /\ r.keeps)
       /\ Unasked(r, f, A)
Asks(R, f, c, A) == A \cup {Ask(r, f) : r \in {q \in R : Wants(q, f, c, A)}}

(* An answer that is not kept in the cache goes when its component does.   *)
Kept(s) == \E r \in view.reads : r.how = "query" /\ r.key = s[1]
Dropped(c) == [s \in Slots |-> IF Kept(s) THEN c[s] ELSE NoEntry]

(***************************************************************************)
(* Moving between pages.  A timer of a search that is pushed into the URL  *)
(* is not cleared when its page goes.                                      *)
(***************************************************************************)
PushesTo(s) == \E r \in MountedOn(s) : r.by = "pushed"

Dismissed(f) ==
    IF f.stage = "open" THEN NoForm ELSE [f EXCEPT !.shown = FALSE]
CloseForms(F) == [i \in Ids |-> Dismissed(F[i])]

Arrive(s, f, c, A) ==
    /\ page' = s
    /\ filter' = f
    /\ cache' = Dropped(c)
    /\ asks' = Asks(MountedOn(s), f, cache', {a \in A : Kept(a.slot)})

GoTo(s) ==
    /\ Arrive(s, 0, cache, asks)
    /\ typed' = IF \E t \in Tour : PushesTo(t) THEN typed ELSE {}
    /\ forms' = CloseForms(forms)
    /\ UNCHANGED <<view, clock, mine>>

(* A full load: nothing in memory survives. *)
LoadAnew(s) ==
    /\ Arrive(s, 0, [x \in Slots |-> NoEntry], {})
    /\ typed' = {}
    /\ forms' = [i \in Ids |-> NoForm]
    /\ mine' = [i \in Ids |-> 0]
    /\ UNCHANGED <<view, clock>>

Moves == moves < view.moves /\ moves' = moves + 1
Present == page \in Screens /\ ~locked

(***************************************************************************)
(* Filters: applied with the click, or after a pause in typing.  On a page *)
(* with dates a click applies at once and leaves the timer of the dates    *)
(* running: it will put back the filters of the moment the date was typed. *)
(***************************************************************************)
Choose(f) ==
    /\ Present /\ f # filter /\ Moves
    /\ \E r \in Mounted : r.by \in {"now", "dates"}
    /\ filter' = f
    /\ asks' = Asks({r \in Mounted : r.by # "none"}, f, cache, asks)
    /\ UNCHANGED <<view, page, typed, clock, cache, forms, mine>>

Type(f) ==
    /\ Present /\ f # filter /\ typed # {f} /\ Moves
    /\ \E r \in Mounted : r.by \in {"typed", "dates", "pushed"}
    /\ typed' = {f}
    /\ UNCHANGED <<view, page, filter, clock, cache, asks, forms, mine>>

PauseEnds ==
    /\ \E r \in Mounted : r.by \in {"typed", "dates"}
    /\ filter' \in typed
    /\ typed' = {}
    /\ asks' = Asks({r \in Mounted : r.by # "none"}, filter', cache, asks)
    /\ UNCHANGED <<view, page, clock, cache, forms, mine, moves>>

(* A pushed search goes to its page s, wherever the user is by now. *)
PushEnds(s) ==
    /\ \E f \in typed : Arrive(s, f, cache, asks)
    /\ typed' = {}
    /\ forms' = IF s = page THEN forms ELSE CloseForms(forms)
    /\ UNCHANGED <<view, clock, mine, moves>>

(***************************************************************************)
(* Requests to read.                                                       *)
(***************************************************************************)
ServerReads(a) ==
    /\ ~a.read /\ a.token > dead
    /\ asks' = (asks \ {a}) \cup {[a EXCEPT !.read = TRUE, !.got = clock]}
    /\ UNCHANGED <<view, page, filter, typed, clock, cache, forms, mine,
                   moves>>

Land(a) ==
    /\ a.read
    /\ asks' = asks \ {a}
    /\ cache' = [cache EXCEPT ![a.slot] =
                    [has |-> TRUE, got |-> a.got, who |-> owner[a.token],
                     fresh |-> TRUE, doubtful |-> a.late, failed |-> FALSE]]
    /\ UNCHANGED <<view, page, filter, typed, clock, forms, mine, moves>>

(* No answer, or one that refuses: without a token, or with an old one,    *)
(* there is no other.                                                      *)
Fail(a) ==
    /\ asks' = asks \ {a}
    /\ cache' = [cache EXCEPT ![a.slot].failed = TRUE]
    /\ UNCHANGED <<view, page, filter, typed, clock, forms, mine, moves>>

(* Five minutes pass; the window gets the focus, or Retry is pressed. *)
Expire(s) ==
    /\ cache[s].fresh /\ Moves
    /\ cache' = [cache EXCEPT ![s].fresh = FALSE]
    /\ UNCHANGED <<view, page, filter, typed, clock, asks, forms, mine>>

Refetch(r) ==
    /\ r \in Mounted /\ r.how = "query" /\ Unasked(r, filter, asks) /\ Moves
    /\ Entry(r).failed \/ ~Entry(r).fresh \/ ~r.keeps
    /\ asks' = asks \cup {Ask(r, filter)}
    /\ UNCHANGED <<view, page, filter, typed, clock, cache, forms, mine>>

(***************************************************************************)
(* Forms.  One is shown at a time; dismissed while its request is under    *)
(* way, it is gone, the request is not.  A form with a row to edit is      *)
(* opened on the answer that is shown then, and submitted as it was        *)
(* opened.  It is hasty when that answer was already being replaced, or    *)
(* another write to it was under way.                                      *)
(***************************************************************************)
Overlap(f, r) == f.writes \cap r.of # {}
InFlight(f) == forms[f.id].stage \in {"sent", "saved", "refused"}

Settled(r) ==
    /\ Entry(r).has /\ ~Entry(r).failed /\ ~Entry(r).doubtful
    /\ Unasked(r, filter, asks)

Open(f) ==
    /\ Present /\ f \in FormsOn(page) /\ Moves
    /\ forms[f.id].stage = "closed"
    /\ \A i \in Ids : ~forms[i].shown
    /\ IF f.edits = NoKey
       THEN forms' = [forms EXCEPT ![f.id] = [NoForm EXCEPT !.stage = "open",
                                                            !.shown = TRUE]]
       ELSE \E r \in Mounted :
              /\ r.key = f.edits /\ Entry(r).has
              /\ forms' = [forms EXCEPT ![f.id] =
                    [NoForm EXCEPT
                        !.stage = "open", !.shown = TRUE,
                        !.base = Entry(r).got,
                        !.hasty = \/ ~Settled(r)
                                  \/ \E g \in view.forms :
                                        Overlap(g, r) /\ InFlight(g)]]
    /\ UNCHANGED <<view, page, filter, typed, clock, cache, asks, mine>>

Close(f) ==
    /\ Present /\ forms[f.id].shown
    /\ forms' = [forms EXCEPT ![f.id] = Dismissed(@)]
    /\ UNCHANGED <<view, page, filter, typed, clock, cache, asks, mine, moves>>

(* A guess cancels the reads in flight and changes the entry, which counts *)
(* as fresh from then on.                                                  *)
GuessSlot(f) == <<f.guesses, 0>>
Guessing(f) == f.guesses # NoKey /\ cache[GuessSlot(f)].has

Submit(f) ==
    /\ Present /\ forms[f.id].stage = "open"
    /\ IF Guessing(f)
       THEN /\ asks' = {a \in asks : a.slot # GuessSlot(f)}
            /\ cache' = [cache EXCEPT
                    ![GuessSlot(f)].fresh = TRUE,
                    ![GuessSlot(f)].doubtful = @ \/ ~cache[GuessSlot(f)].fresh]
            /\ forms' = [forms EXCEPT
                    ![f.id].stage = "sent",
                    ![f.id].before = cache[GuessSlot(f)]]
       ELSE /\ forms' = [forms EXCEPT ![f.id].stage = "sent"]
            /\ UNCHANGED <<asks, cache>>
    /\ UNCHANGED <<view, page, filter, typed, clock, mine, moves>>

ServerWrites(f) ==
    /\ forms[f.id].stage = "sent" /\ clock < MaxWrites
    /\ (IF f.fed THEN prop ELSE memory) > dead
    /\ clock' = clock + 1
    /\ forms' = [forms EXCEPT ![f.id].stage = "saved", ![f.id].at = clock']
    /\ UNCHANGED <<view, page, filter, typed, cache, asks, mine, moves>>

ServerRefuses(f) ==
    /\ forms[f.id].stage = "sent"
    /\ forms' = [forms EXCEPT ![f.id].stage = "refused"]
    /\ UNCHANGED <<view, page, filter, typed, clock, cache, asks, mine, moves>>

(* invalidateQueries, with the cache c after the form's own changes. *)
Told(f, key) == \E t \in f.tells : IsPrefix(t, key)
Restarts(f, s) ==
    /\ Told(f, s[1]) /\ (cache[s].has \/ ~\E a \in asks : a.slot = s)
    /\ \E r \in Mounted : r.how # "raced" /\ Slot(r, filter) = s
Invalidated(f) ==
    [s \in Slots |->
        IF Told(f, s[1]) THEN [cache[s] EXCEPT !.fresh = FALSE] ELSE cache[s]]
AfterInvalidation(f) ==
    {a \in asks : ~Told(f, a.slot[1])}
    \cup {[a EXCEPT !.late = TRUE] :
            a \in {b \in asks : Told(f, b.slot[1]) /\ ~Restarts(f, b.slot)}}
    \cup {Ask(r, filter) :
            r \in {q \in Mounted : Restarts(f, Slot(q, filter))}}

(* The answer of a write: the entries it tells are invalidated; then the   *)
(* form closes, stays open as it was, or takes the user to another page.   *)
Answered(f) ==
    /\ forms[f.id].stage = "saved"
    /\ mine' = [mine EXCEPT ![f.id] = forms[f.id].at]
    /\ cache' = Invalidated(f)
    /\ asks' = AfterInvalidation(f)
    /\ forms' = [forms EXCEPT ![f.id] =
                    IF f.stays /\ forms[f.id].shown
                    THEN [@ EXCEPT !.stage = "open"] ELSE NoForm]
    /\ UNCHANGED <<view, page, filter, typed, clock, moves>>

AnsweredAndLeaves(f, s) ==
    /\ forms[f.id].stage = "saved"
    /\ mine' = [mine EXCEPT ![f.id] = forms[f.id].at]
    /\ Arrive(s, 0, Invalidated(f), AfterInvalidation(f))
    /\ forms' = CloseForms([forms EXCEPT ![f.id] = NoForm])
    /\ typed' = {}
    /\ UNCHANGED <<view, clock, moves>>

(* The write was refused, or its answer never came: a guess is taken back  *)
(* by putting back the entry of the moment it was made.                    *)
Refused(f) ==
    /\ forms[f.id].stage \in {"refused", "saved"}
    /\ cache' = IF forms[f.id].before.has
                THEN [cache EXCEPT ![GuessSlot(f)] =
                        [forms[f.id].before EXCEPT !.fresh = TRUE,
                                                   !.doubtful = TRUE]]
                ELSE cache
    /\ forms' = [forms EXCEPT ![f.id] =
                    IF forms[f.id].shown
                    THEN [@ EXCEPT !.stage = "open"] ELSE NoForm]
    /\ UNCHANGED <<view, page, filter, typed, clock, asks, mine, moves>>

(***************************************************************************)
(* Properties.                                                             *)
(***************************************************************************)
(* Behind: a mounted reader holds an answer older than a write of this     *)
(* user that the server has acknowledged.                                  *)
Relates(f, r) == Overlap(f, r) /\ <<f.id, r.key>> \notin KnownStale
Behind(r) ==
    \E f \in view.forms : Relates(f, r) /\ Entry(r).got < mine[f.id]

(* A page at rest shows every write its user was told is saved, wherever   *)
(* the user has been since.  It does not rest while it waits for an answer *)
(* or shows an error; and there are answers that fall behind for good,     *)
(* until they expire (doubtful): the first of a page that was asked for    *)
(* before the write was acknowledged, an entry that was guessed while it   *)
(* was out of date, and one that a refused guess put back.  KnownStale     *)
(* lists the writes whose form does not tell the reader.                   *)
OwnWritesShown == \A r \in Mounted : Settled(r) => ~Behind(r)

(* An edit that is sent was opened on an answer that holds every write the *)
(* user made to that data before, unless the form was opened hastily, or   *)
(* is known (KnownOverwrite) to keep the answer it was mounted with.       *)
EditsBuildOnOwnWrites ==
    [][\A f, g \in view.forms : \A r \in view.reads :
        /\ r.key = f.edits /\ Relates(g, r) /\ f.id \notin KnownOverwrite
        /\ forms[f.id].stage = "open" /\ forms'[f.id].stage = "sent"
        /\ ~forms[f.id].hasty
        => forms[f.id].base >= mine[g.id]]_pageVars
=============================================================================
