# A verification project for LankaCommerce

TLA+ models, TLC runs and TLAPS proofs for LankaCommerce (Django backend, Next.js
frontend, one shop per tenant). Two kinds of places are modelled: those where
several requests meet on the same rows (stock, stock takes, sales, returns,
shifts, purchase orders), and those where one browser works with answers that
arrive late, in another order, or not at all (the terminal, the query cache
behind every page, forms, the session). Paths below are relative to
`src/backend/apps/` unless they start with `frontend/`, which stands for
`src/frontend/src/`.

    tlc -workers 2 -config stock_concurrent.cfg MCStockControl
    tlapm TillProofs.tla

## 1. Inventory of the system

| component | state it keeps | operations | who else touches it |
|---|---|---|---|
| inventory service (`catalog/services/inventory_service.py`) | `ProductVariant.stock_quantity`, `StockMovement` rows | `adjust_stock` | every component that moves goods |
| stock control and stock takes (`catalog/views.py`) | `StockTakeSession`, `StockTakeItem` | adjust, bulk adjust, start, count, complete, approve, reject | reads variants; posts through `adjust_stock` |
| variants and products (`catalog/services/product_service.py`) | product and variant rows, `deleted_at` | create, edit, soft delete | sales resolve variants, `adjust_stock` refuses deleted ones |
| sales (`pos/services/sale_service.py`) | `Sale`, `SaleLine`, `Payment` | create, hold, void | locks the shift, posts through `adjust_stock`, redeems credit |
| returns (`pos/services/return_service.py`) | `Return`, `ReturnLine` | initiate | reads the sale, restocks through `adjust_stock`, adds store credit |
| shifts (`pos/services/shift_service.py`) | `Shift`, `ShiftClosure` | open, close, Z report | voids held sales, sums completed ones |
| customers (`crm/services/customer_service.py`) | `credit_balance`, `total_spend` | redeem, add | sales and returns |
| purchase orders (`crm/services/purchase_order_service.py`) | order, lines, received quantities | create, status change, receive | posts through `adjust_stock` |
| billing (`billing/`) | `Subscription`, `Invoice`, payment events | pay (PayHere notification), nightly status job, cancel, invoice generation | tenant status |
| time clock, commission (`hr/services/`) | open session and flag; commission records, payouts | clock in/out; earn, pay out | sales create commission records |
| promotions (`promotions/services/`), cart (`frontend/stores/cartStore.ts`) | rules; cart lines and discounts | evaluate | the cart asks asynchronously |
| offline queue (`frontend/hooks/useOfflineSync.ts`) | one queued sale in IndexedDB, retry count | enqueue, sync, discard | posts to the sale endpoint |
| webhooks (`webhooks/`) | delivery rows | dispatch | sales, returns |
| terminal page (`frontend/components/pos/`) | cart store, open dialog, `isSubmitting`, the PIN dialog, an IndexedDB snapshot | scan, edit, discount, charge, hold, retrieve, undo, leave, reload | the sale, hold, promotion and PIN endpoints |
| pages and forms (`frontend/app/`, `frontend/components/`) | the TanStack Query cache, filters and typed text, open forms | read, filter, open, submit, invalidate, navigate | every endpoint; each other through the cache |
| session (`frontend/middleware.ts`, `stores/authStore.ts`, `app/api/auth/`) | two cookies, user and token in memory, the lock | sign in, PIN, lock, unlock, sign out, refresh | every page takes its token from it |
| accounts, tenants, audit, notifications, reports, hardware | rows of their own | CRUD, queries, device I/O | - |

Interaction. In the backend, components call each other as Python functions in
one request; the only thing requests share is the database. So its concurrency is
that of its transactions: which statements of a request commit together, which
rows it has locked when it reads, and what happens between an unlocked read and
the write it leads to. In the browser one callback runs at a time, and the
concurrency is between callbacks: what was read before an `await` and used after
it, what the user did meanwhile, and whether the component that asked is still
there. The two meet in requests, which may be refused, or done and their answer
lost.

What is hard here, by component, and what makes each correct:

- **inventory**: the read, check and write of a quantity in concurrent requests.
  Correct when the movement log of every variant is an unbroken chain ending at
  the quantity on hand and never passes below zero.
- **stock takes**: five-statement requests with no transaction around them, a
  snapshot compared with a shelf count much later, two people deciding one
  session. Correct when an approval applies exactly the discrepancies, once,
  and sessions follow their lifecycle.
- **sales, voids, returns**: multi-row transactions that lock in cart order, fail
  half way, or deadlock. Correct when stock always equals the initial stock less
  the sales that stand plus what returns put back.
- **shifts**: `close_shift` works without a lock beside requests that take one.
  Correct when no sale lands on a closed shift and a closure is final and counts
  exactly the completed sales.
- **purchase orders**: a status that is read and written without a lock beside
  receipts that lock the order, and pages that confirm what an older answer
  showed. Correct when the status agrees with the lines, receipts are whole and
  within what is due, and a cancelled order stays as it is.
- **the terminal**: a sale takes a moment, and the scanner, Escape and the browser's
  Back do not wait; what follows an `await` finds the page as it is then; IndexedDB is
  written by an effect that may lag or fail. Correct when one submission charges the
  cart that was confirmed, once, no credit pays twice, and a reload brings back the
  cart that was there, or the one before it.
- **pages and forms**: each mutation lists the cache keys it invalidates by hand.
  Correct when a page at rest shows what its user saved, and an edit does not start
  from something older.
- **the session**: user, token, cookies and cache are four copies of who is signed
  in. Correct when they speak of one person and a signed-in page has a token.
- **customers, billing, time clock, commission**: balances checked outside their
  transaction, duplicated notifications. The backend of these is not modelled yet
  (section 8).

The individual hazards, each at its line, are in `PROJECT.json`.

## 2. Which database

The code behaves differently on the two databases its settings name, so the
models say which one they are about.

- **StockControl** is about the *shipped* configuration: SQLite
  (`config/settings/base.py:105`). `select_for_update()` is ignored there. The
  stock-control views run in autocommit, so everything outside an `atomic()` block
  is a step per statement. Inside the approval's block every `adjust_stock` is a step:
  it writes to the worker's `draft`, which nobody else sees until `CommitApproval`, and
  which a refusal or a crash throws away. While the block is open it holds the one write
  lock of the database, so nobody else writes (`Writable`); reads go on. The approval
  view can only be modelled here: on
  PostgreSQL its `select_for_update()` outside a transaction raises
  `TransactionManagementError` and no approval succeeds at all.
- **StockRows and Till** are about PostgreSQL (the README's and the launch
  checklist's production database), at READ COMMITTED: row locks taken one by one
  and held to the end of the transaction, uncommitted writes invisible to others,
  foreign keys checked at COMMIT (Django declares them deferred; the check takes
  a share lock on the referenced row and so waits for a `FOR UPDATE` holder),
  deadlocks resolved by aborting one transaction of the cycle. On SQLite the same
  requests are serialised, which is the one-worker instance of the same module.

- **Purchasing** does not depend on it: statements of `update_po_status` and
  `create_po` commit one by one on both, and a receipt is one transaction that
  nothing observes from inside. It is one step.

## 3. Modules

| module | what it is |
|---|---|
| `StockBook` | the abstract specification: quantities, deleted variants and movement logs; one step posts chained movements or retires variants. It also owns `Movement`, `Entry` and the chain operators |
| `StockControl` | extends the book with stock-take sessions and server processes; one action per statement of each request |
| `StockRows` | the stock part of a PostgreSQL transaction: row locks, uncommitted movements, commit, rollback |
| `Till` | extends `StockRows` with shifts, closures, sales and returns; composes the sale, return and shift services |
| `Inbound` | the abstract specification of receipts: quantities due and arrived; one step brings some of what is due |
| `Purchasing` | one purchase order: its service, statement by statement, and the order page with its cached answer and receiving dialog |
| `Counter` | the abstract specification of the terminal: the cart in front of the cashier, charges taken of it, charges recorded |
| `Register` | the terminal page: cart store, dialogs, requests, snapshot |
| `Screens` | a table, not a behaviour: what every page reads, what every form writes and invalidates |
| `Pages` | the behaviour of the pages of `Screens`: cache, read requests, filters, forms |
| `Session` | who is signed in: cookies, memory, middleware, PIN, lock |
| `Client` | composes `Pages` and `Session` |
| `MCStockControl`, `MCTill`, `MCPurchasing`, `MCRegister`, `MCClient` | the finite instances |
| `SumProofs` | lemmas about the sums of the community modules: over a function, over a set, and what one changed value does to them |
| `StockBookProofs`, `StockControlProofs`, `TillProofs`, `TillBooksProofs`, `PurchasingProofs`, `RegisterProofs`, `ClientProofs` | lemmas and theorems; `TillBooksProofs` is about the documents of `Till` against its stock |

Both `StockControl` and `Till` implement `StockBook` with the identity mapping of
`stock`, `deleted` and `ledger`: `BookSpec` is a PROPERTY of their runs and a
theorem of each. `Purchasing` implements `Inbound` under
`InboundOf == INSTANCE Inbound WITH due <- Due, arrived <- stock`, where what is
due of a line is what was ordered less what was received (`InboundSpec`, checked
and proved). `Register` implements `Counter` with the mapping
`Till == INSTANCE Counter WITH ...`: the front cart is the payload the page would
build now, the charges are the payloads of its submissions (`CounterSpec`, checked and proved).

**State.** `stock[v]` and `ledger[v]` are the quantity and the movement rows of
variant `v`. A movement has the before, delta, after, reason and the loose
reference; `Routed` is the code's own choice of which reasons keep a reference
(voids and returns keep none). In `StockControl`, a worker's `pc` names the next
statement, `rows` the values it has read and will write, and `draft` the movements its
open transaction has written: an unlocked read followed by a write is visible as two
steps, and so is a correction that is refused after others were posted. In `Register`,
`posts`, `hold` and `swap` are the requests with their stage: "sent", "saved" or
"refused" by the server, "cleared" once the handler has emptied the cart and waits for
the held sales to be read again; `saving` is the write to IndexedDB that has not landed. In `Till`, `job[w]` is the request
worker `w` is in the middle of, with the `adjust_stock` calls it has left in
`todo`; `holder`, `shiftLock`, `saleLock` are the row locks; `writes` the
uncommitted movements. `CashierOf` fixes whose shift a shift identifier will be.

**Actions and code.**

| action | code |
|---|---|
| `AdjustStock` | `adjust_stock`: lock, read, check, write and movement under one row lock |
| `Adjust`, `BulkStart/BulkLine/BulkEnd` | `StockAdjustView`, `BulkStockAdjustView` (a loop with no transaction around it) |
| `ReadVariant/SaveVariant`, `DeleteVariant` | `update_product_variant` (`update_fields`), `VariantDetailView.delete` |
| `StartTake, CreateSession, SnapshotVariants, PopulateItems` | the four statements of starting a stock take |
| `ReadItem, SaveCount` | counting an item |
| `Complete, ListUncounted, FillUncounted, Submit` | completing a session |
| `ReadForApproval, BeginApproval, PostCorrection*, CommitApproval / ApprovalRefused` | approving a session: the status check, then the transaction |
| `ReadForRejection, Reject` | rejecting a session |
| `SellBegin, Deduct*, SellCommit` | `create_sale` |
| `HoldBegin, HoldCommit` | `hold_sale` |
| `VoidBegin, Restore*, VoidCommit` | `void_sale` |
| `ReturnBegin, Restock*, ReturnCommit` | `initiate_return` |
| `OpenCheck, OpenInsert` | `open_shift` |
| `CloseBegin, CloseList, CloseDiscard*, CloseTotals, CloseWrite / CloseFails` | `close_shift` |
| `AdjustFails` | an `adjust_stock` call that raises: the request's transaction is rolled back |
| `Crash`, `DeadlockAbort` | a process dies; PostgreSQL picks a victim |
| `CreateRow, CreateLines`, `UpdateChecks, UpdateWrites`, `Receive` | `create_po`, `update_po_status`, `receive_po_lines` |
| `SendChecks` | the status check of the send-whatsapp view, before the message |
| `Visit, Refetch, Lands, OpenDialog, UpdateQty, Confirm*` | the order page and `GoodsReceivingModal` |
| `Scan`, `Edit`, `*Discount`, `*Pin`, `HandleClearCart`, `Undo` | the mutators of `cartStore` as the components call them |
| `SubmitSale, ServerSaves / ServerRefuses, HandleSaleSuccess, SaleEnds / SaleFails / AnswerLost` | `handle*Confirm` of `CartPanel`: up to its `await`, after the answer up to the next `await` (the cart is empty), and after that (dialogs closed, `isSubmitting` freed) |
| `HoldSale, HoldAnswered, HoldEnds`; `HoldAndRetrieve, SwapAnswered, RestoreSaleToCart` | `HoldSaleButton`; `doRetrieve`, cut at the same awaits |
| `SetCart, SaveLands`, `Leave, Mount, Reload, Restore` | `usePersistCartEffect` as the cart changes, its write lands, and the page goes and comes |
| `Ask, ServerReads, Land, Fail, Refetch, Expire` | a `useQuery` with the defaults of `QueryProvider` |
| `Choose`; `Type, PauseEnds`; `PushEnds` | filters set at once; typed and debounced; pushed to the URL. On the sales history a typed date and clicks share one filter, and the timer puts back the filters of its moment |
| `Open, Submit, ServerWrites / ServerRefuses, Answered / AnsweredAndLeaves / Refused` | a `useMutation` (or handler) with its `onMutate`, `onSuccess`, `onError` |
| `SignIn, PinSignIn, PinUnlock, SignOut`, `Navigate, Visit` | the sign-in pages, `PinEntryModal`, `ScreenLockOverlay`; the middleware on a push and on a full load. `set` is whether the set-tokens route stored the tokens: neither page looks at its answer |

**Screens.** 162 definitions, most of them one line: a reader is the key of its query,
the server data it depends on, and how a filter reaches it; a form is the data it
writes and the keys it invalidates, with a note if it edits a row of a reader,
leaves for another page, stays open, or changes the cache before the answer.
Everything else of a page is layout. The table is what the properties of
`Client` are about: a forgotten key or a row that is edited from an old answer is a
wrong entry in it.

**The cache.** The server's data is a clock, the number of committed writes; an
answer carries the clock at which the server read, so "older than my write" is a
comparison. TanStack Query is external and modelled from how the code uses it
(version 5, `staleTime` five minutes, `cancelRefetch` only where there is data). An entry
is *doubtful* when it counts as fresh although the server may have read before the
user's own write: the first answer of a page that was asked for before the write was
acknowledged, a guess made on an out-of-date entry, and an entry that a refused guess
put back.

**Steps that are merged, and why that loses nothing.** Taking a row lock and the
reads that follow it are one step: while the lock is held nobody changes the
row. The variants of a cart are read one query at a time without locks; reading
them at once is harmless because a deletion is final and `adjust_stock` looks
again under the lock, and the instances with `AllowNegativeStock = TRUE` skip the
unlocked stock check altogether, so they contain every outcome of a check that
saw older quantities. A final commit, with the inserts and updates before it that
only this transaction can see, is one step. A request that is refused before it
wrote anything is no step.

**Abstractions.** In `Register` every variant costs the same and amounts are whole
cents; the linked customer and the receipt dialog are left out; one manager's PIN
is verified at a time (a dialog that was closed while its PIN was verified is not
opened again before the answer), and one request of the Hold button is under way at a
time (a page mounted anew waits for the one of the page before it). In `Purchasing` prices are left out, and besides
the clerks of the model `OthersSend` stands for every other client of the API. In
`Pages` the contents of rows are left out: two writes of the same data are two
ticks of the clock. In `Session` the tenant is only suspended or not, and there is
one tab. In the modules of the backend money is left out: no property of these
modules reads an amount, and a closure records *which* sales it counted instead of their sum.
`discrepancy` is always written with `counted_quantity` as the difference, so it
is derived. Identifiers (`Sale`, `Return`, `Shift`, `Session`) are used up once.
Every worker belongs to the same tenant: all queries filter by tenant.

## 4. Runs

| run | instance | question | distinct states |
|---|---|---|---|
| `stock_concurrent` | 2 workers, 2 variants, 1 session | do the log, the book and the all-or-nothing approval survive every interleaving, refusal and crash? | 345,000 |
| `stock_serial` | 1 worker, 2 sessions | does the stock-take lifecycle hold when requests do not overlap, crashes included? | 379,000 |
| `till_concurrent` | 2 workers, 2 variants, 2 sales, 1 return, 2 open shifts | do stock and documents reconcile under row locks, failures, deadlocks? | 219,000 |
| `till_progress` | 2 workers, 2 sales, 1 return, 1 shift | does every request end? | 95,000 |
| `till_serial` | 1 worker, 2 sales, 2 returns, 2 shifts of one cashier | are closures exact and returns bounded when requests do not overlap? | 325,000 |
| `purchasing` | 1 clerk and the other clients, 2 lines (of 1 and 2), 2 writes, 3 answers | do status, lines and dialog agree under stale pages, crossing requests, crashes, lost answers? | 1,020,000 |
| `register` | 1 variant, 2 units, 2 sales, 2 holds, 1 return credit, 1 visit elsewhere | is what is charged what was in front of the cashier, once, and is no cart lost half way? | 575,000 |
| `client` | every form with every reader of data it writes (240 pairs), 2 writes, 2 to 4 moves; 2 views with the whole session | does the user see, and edit, what was saved; are pages, cookies and cache one person's? | 274,000 |
| `two_approvals`, `closed_shift`, `over_return`, `discounted_sale` | small | see Findings | stops at the violation |

Properties that hold however requests interleave:

- `LedgerInv`, `BookSpec`: the log is a chain from the initial quantity to the
  quantity on hand, every step extends it, deleted variants are never moved.
- `ApprovalIsAtomic`: when a correction of a session becomes visible, all its
  discrepancies do, and the session is approved with them. The corrections are made one
  after the other, beside reads, late counts and crashes, and any of them may be refused
  after others were made.
- `Isolation`: uncommitted movements are on rows their writer has locked.
- `BooksReconcile`: stock = initial - sales that stand + restocked returns, in
  every state. A sale voided after a restocked return is counted twice, as the
  code does it (`void_sale` does not look at returns).
- `SaleIsPosted`: a sale's lines are in the log exactly once if it was ever
  completed, and not at all otherwise.
- `SaleOnOpenShift`, `ClosureIsFinal`: no sale is completed on a shift that is not
  open; closures never change.
- `RequestsEnd`: every request ends.
- `StatusMatchesLines`, `CancelledIsFinal`: the status of a purchase order agrees with
  its lines, and a cancelled one stays cancelled, until `update_po_status` writes
  over a status it did not check. The model records that (`crossed`) instead of
  excluding it, so the properties say what survives: `RECEIVED` is right always,
  and no receipt ever touches a cancelled order.
- `EntriesFit`: what is typed in the receiving dialog fits what the page says
  remains. It is the effect that empties the dialog when other lines arrive that
  makes it so, and that effect throws away what was typed.
- `InboundSpec`: a receipt is whole and within what is due, also when the answer was
  lost and the clerk confirms again. (It may be booked twice while it fits.)
- `SnapshotIsCart`: IndexedDB holds the cart on the screen, or the one write that has
  not landed is that cart. So a reload can bring back only the cart before the last
  change (which may be one that was just sold: the code has that gap).
  `OneSaleInFlight`: a page runs the handler of one submission at most and shows
  `isSubmitting` until it has ended, the wait after the answer included.
  `CreditSpentOnce`: an exchange credit pays for one sale. `SwapKeepsTheCart`: "Hold &
  Retrieve" clears a cart only when the server holds it, and while neither cart is on
  the page the server holds both. `CounterSpec`: a submission is a charge of the cart
  in front, recorded at most once, as charged. `SubmissionEnds`: the button comes back.
  An answer that is lost, or finds its page gone, is outside `CreditSpentOnce`
  (`orphaned`): the page cannot know of the sale.
- `OwnWritesShown`: a page at rest shows the writes its user was told of, wherever the
  user has been since. `EditsBuildOnOwnWrites`: an edit starts from an answer with the
  user's earlier writes.
- `OneIdentity`, `TokenKept`, `DataOfItsUser`: pages, cookies and cache are one
  person's, and a signed-in page has a token.

What the properties of `client` do not say, each because the code does otherwise (TLC
finds a violation when one of these exemptions is dropped, but for the one of
`DataOfItsUser`):

- `KnownStale`: of the 240 pairs of a form and a reader of data it writes, 180 are not
  told. The form invalidates other keys, or none, or a key that is not the reader's, or
  the reader keeps its answers outside the query cache. `Untold` in `MCClient` names
  them, by form and key: what moves stock tells hardly any page about stock
  (`StockKeys`), what changes a product only its own pages (`ProductKeys`). Such a page
  shows the old answer until it is five minutes old or mounted after that.
  `UntoldAssumption` checks that no told pair is among them, so `OwnWritesShown` speaks
  of each of the other 60, on whatever page the reader is.
- *Doubtful* entries (section 3): an answer that was overtaken by the user's own write.
  A page that shows an error, or waits for an answer, is not at rest either.
- `KnownOverwrite`: the expense sheet stays open on its old record, and the profile tab
  of a staff member takes its defaults when it is mounted and again only on Cancel, so a
  later edit starts from older values. An edit is *hasty*, and exempt, when its form was
  opened on an answer that was doubtful or being replaced, or while another write to the
  same data was under way.
- `TokenKept` and `DataOfItsUser` exclude a PIN since the last full load (the latter only
  one on the PIN page), `OneIdentity` a PIN whose tokens were not stored. So what goes
  wrong in those cases is not caught by them; what they catch is everything else that
  could mix two people. The exemption of `DataOfItsUser` is for a reload after the PIN,
  which brings the token, and the browser's Back across that reload to the PIN page,
  where another person enters a PIN. The model has Back only up to the last full load,
  and a page has no token between a PIN and that, so it does not reach this case.

There is no property about filters: on the sales history the timer of a date puts back
the filters of the moment it was typed, so the list is of other filters than the bar
above it, and three pages store answers in the order they arrive.

Properties that hold only when requests do not overlap (one worker), each of
which TLC violates at once with two workers: `PostedExactlyOnce`,
`CompletedIsFullyCounted`, `SessionLifecycle` (unlocked reads of the stock-take
views), `ClosureIsExact`, `NeverOverReturned` (two returns both read what was
returned before either commits). They are about crashes and sequences of requests, and
do not catch the races of the same statements. That two requests can start two stock
takes, or open two shifts of one cashier, is in the models; with one worker the opposite
would only restate a guard, so it is no property. `NeverOverReturned` holds also only for requests
that name no line twice; the runs choose the request bodies by name (`FirstLine`,
`DistinctLines`, `RepeatedLine`). With two workers the properties become findings
where a document promises them.

### Bounds, and why they are enough

- Two workers: every hazard listed is a race of two requests. Two variants and two
  carts that list them in opposite orders are the smallest deadlock; one unit of
  each is the smallest race for the last unit.
- Two sessions in the serial run, so that one can be decided while another
  starts; one in the concurrent run, where the races are inside a session.
- `MaxMovements = 2` stops manual adjustments of a variant once its log has two
  entries (stock-take corrections are bounded by the sessions); `MaxCount = 1`
  bounds a shelf count, so that a count can lie below, at or above the system
  quantity. Scopes are the whole catalogue and an empty category, which is the
  session that cannot be completed. The bulk batch has a first line that passes
  and a second that is refused when `v2` is empty.
- `purchasing`: two writes of the five kinds, in flight together, are every pair that
  can cross; a line of one and a line of two give receipts that complete a line,
  a part of it, or all. Three answers let the dialog be opened on one, the next arrive
  while it is typed in, and another after a receipt. A second clerk is `OthersSend`
  as far as the order is concerned, and the pages share nothing. Quantities in
  requests of others go up to `MaxTake = 1`.
- `register`: one behaviour uses the facilities of one habit of `MixedHabits`
  (`discount`; `line`; `again` or `undo` with `visit` and `storage`; `again` with `hold`;
  `promotion` with `edit`; `edit` with `hold`; `hold` with `visit`), the combinations
  that share state. `again` is a second submission, `visit` leaving, reloading and the
  history page, `storage` an IndexedDB whose writes land at any time; without it every
  write fails. Two units make a cart that changes after it was confirmed, two submissions
  a second sale with what is left over; `Rates = {5, 20}` is a discount within the
  cashier's limit and one above it. Two holds are a swap of two carts; one request of
  promotions is in flight, one visit elsewhere.
- `client`: one behaviour uses one *view*: every pair of a form and a reader of data it
  writes, with every page either is on (`PairViews`, 240), every reader alone that no form
  concerns (`LoneViews`, 13), the mixed views where forms meet on one entry (14), and two
  with sign-in, PIN, lock and sign-out of three people. A view bounds the moves of the
  user and refetches (`moves`); two writes are an edit and another one built on it.
  `MaxTokens = 2`: a token and the one that replaces it.
- Symmetry is declared for interchangeable workers, sales and shifts, in runs
  without liveness only.
- `CHECK_DEADLOCK FALSE` in the till's configurations: when every sale, return and
  shift identifier is used up and every variant deleted, nothing is left to do.
  That no request waits for ever is the liveness property `RequestsEnd`, not
  TLC's deadlock check. `StockControl` is checked for deadlock.

### Fairness

`till_progress` assumes strong fairness of each worker's next step: PostgreSQL
queues the waiters of a row lock in order of arrival, so a request whose next step
is possible again and again takes it. It assumes weak fairness of
`DeadlockAbort`, since a cycle of waiting transactions is examined after
`deadlock_timeout`. In `register` a sale that was sent is answered by the server, and
its answer or its failure reaches the page (weak fairness of `Server` and `Answer`:
`fetch` settles, the one that follows the answer as well); nothing the cashier may do is
fair, nor is IndexedDB. `client` has safety properties only and assumes no fairness. New
requests, deletions and crashes have none. The two carts in opposite orders make sure that the instance does reach deadlocks.

## 5. Findings

- `two_approvals`: `StockTakeApproveView` reads the session with a lock request
  outside any transaction and does not read it again inside the transaction that
  posts. Two approvers post every discrepancy twice.
- `closed_shift`: `close_shift` sums the completed sales without locking the shift;
  a sale that holds the shift commits before the final write, and the closure
  misses it.
- `over_return`: a return naming one sale line twice is validated entry by entry and
  takes back more than was sold.
- `discounted_sale`: a discount entered as a percentage is on the screen and in the cash
  asked for, but not in the request, which has the (zero) amount only. The sale is
  recorded at the full total.

Not findings, since no document promises otherwise, but visible in the models and
worth knowing:

- A PIN, at the lock or on the PIN page, stores the user without the token: every
  request is unauthenticated until the next full load (`frontend/components/auth/PinEntryModal.tsx:70`).
  The PIN page pushes, so the cache of the last person stays; and it sends a stock
  clerk to `/store/stock`, where there is no page.
- Neither sign-in page looks at the answer of the set-tokens route
  (`frontend/components/auth/PinEntryModal.tsx:60`). When it refuses, the PIN dialog goes
  on: the page shows the new person and the cookies speak for the last one.
- After a sign-out from the lock, the layout's effect puts user and token back before
  it unmounts. The access token in memory is never renewed after its 15 minutes; the
  cookie has the same age, so the refresh of the middleware is hardly ever reached.
- The operator's plan and revenue pages read the token from the auth store, which
  nothing fills there.
- Items scanned while a sale, a hold or a swap is in flight are dropped by `clearCart`.
  A page left while its sale is in flight brings the sold basket back, and so does a
  reload after the sale and before IndexedDB has deleted the snapshot. A held sale that
  was retrieved stays held, and paying it makes a second sale.
- A manager's PIN that is verified after its dialog was closed still authorises.
- Promotion answers are stored whatever the cart holds by then.
- A confirmed receipt whose answer is lost can be confirmed again and is booked twice
  if it still fits. `create_po` can leave an order without lines. The WhatsApp
  message can be out when the status update is refused. An `actual_cost_price` of 0
  is not recorded.
- A search that is typed just before the user leaves the page pulls the user back
  (`InventoryFilterBar`, the tenant filters), and a form that was left navigates when
  its answer comes.
- The filters of the sales history: a date is applied after a pause, together with the
  other filters *as they were when it was typed*
  (`frontend/app/(store)/store/pos/history/page.tsx:135`); what was clicked meanwhile is
  undone in the list and not in the bar.
- The profile tab of a staff member keeps the defaults of its mount: edited twice in one
  visit, it sends values that are older than the page's
  (`frontend/app/(store)/store/staff/[staffId]/components/ProfileTab.tsx:64`).
- Most forms do not tell the pages of other sections what they wrote (`Untold`): after a
  stock take is approved, stock levels, valuation and low-stock pages stay as they were.
  And a page that is still loading when a write is acknowledged keeps an answer from
  before it.
- The banner of the terminal says that sales are queued offline; nothing calls
  `enqueueOfflineSale`.

Two more disagreements were met outside the modelled parts: `receive_po_lines`
posts with the reason `PURCHASE_RECEIVED`
(`crm/services/purchase_order_service.py:176`), while `adjust_stock` keeps a
reference for `PURCHASE_RECEIPT` only; and `SaleListCreateView` reads
`django_settings` (`pos/views.py:137`), a name imported only inside another
function of that file.

## 6. Proofs

TLAPS proves, for all values of the constants under the named assumptions of the
modules (`StockBookAssumption`: quantities start natural, `NoRef` is no reference;
`StockControlAssumption`, `StockRowsAssumption`, `TillAssumption`,
`PurchasingAssumption`, `RegisterAssumption`, `SessionAssumption`, `NoneAssumption`: types
of the inputs, a finite catalogue, and sentinels outside the sets they are sentinels of;
`ViewsAssumption`, `KeysAssumption`: what a screen shows is part of its view, forms are
told apart by their ids, and readers with one key ask for the same data in the same way):

| theorem | states |
|---|---|
| `StockControlType`, `StockControlLedger` | `Spec => []TypeOK`, `Spec => []LedgerInv` |
| `StockControlRefinesBook` | `Spec => BookSpec` |
| `StockTakeAtomicity` | `Spec => ApprovalIsAtomic` |
| `SerialPostedOnce`, `SerialFullyCounted`, `SerialLifecycle` | `Spec => []PostedExactlyOnce`, `[]CompletedIsFullyCounted`, `SessionLifecycle`, if `Worker = {w}` |
| `TillType`, `TillLedger`, `TillIsolation` | `Spec => []TypeOK`, `[]LedgerInv`, `[]Isolation` |
| `TillRefinesBook` | `Spec => BookSpec` |
| `TillReconciles`, `TillPostsSales` | `Spec => []BooksReconcile`, `Spec => []SaleIsPosted` |
| `SalesAreOnOpenShifts`, `ClosuresAreFinal` | `Spec => SaleOnOpenShift`, `Spec => ClosureIsFinal` |
| `SerialClosureIsExact` | `Spec => []ClosureIsExact`, if `Worker = {w}` |
| `SerialNeverOverReturned` | `Spec => []NeverOverReturned`, if `Worker = {w}` and no request body names a line twice |
| `PurchasingType`, `StatusRight`, `EntriesRight` | `Spec => []TypeOK`, `[]StatusMatchesLines`, `[]EntriesFit` of `Purchasing` |
| `CancelledStays`, `ReceiptsAreWhole` | `Spec => CancelledIsFinal`, `Spec => InboundSpec` |
| `OneAtATime`, `NoCreditTwice`, `SnapshotIsTheCart` | `Spec => []OneSaleInFlight`, `[]CreditSpentOnce`, `[]SnapshotIsCart` of `Register` |
| `SwapIsSafe`, `RegisterType`, `RegisterIsCounter` | `Spec => SwapKeepsTheCart`, `Spec => []TypeOK`, `Spec => CounterSpec` |
| `ClientTyped`, `IdentityIsOne`, `TokenStays`, `DataIsOfItsUser` | `Spec => []TypeOK`, `[]OneIdentity`, `[]TokenKept`, `[]DataOfItsUser` of `Client` |
| `OwnWritesAreShown` | `Spec => []OwnWritesShown`, if `WritesAreTold` |
| `EditsAreBuiltOnOwnWrites` | `Spec => EditsBuildOnOwnWrites`, if `WritesAreTold` and `SheetsAreKnown` |

Every safety property of the passing runs is stated by one of these theorems.

*Stock control.* `TypeOK /\ LedgerInv` is not inductive: an approval commits movements it
computed in earlier steps. `OpenInv` says what an open transaction knows: it is the only
one, its drafts continue from the committed quantity and carry its session, and what is
drafted and what is left to post make up the discrepancies of its items. It holds because
nobody else writes meanwhile (`Writable`), neither stock nor counts.
`IInv == TypeOK /\ LedgerInv /\ OpenInv` is inductive. One lemma says that a commit of
chained movements is a `Post` of the book; each action then either is such a commit,
retires a variant, or leaves the book alone. Atomicity follows from `OpenInv` at
`CommitApproval`, the only step that writes a movement whose reference is a session:
manual movements lose theirs in `Routed`.

*Stock takes, serially.* The life cycle of a stock take is only checked, never
locked, so these theorems assume one server process; with two, TLC violates each of
them. `SerialInv(w)` joins the invariant above with `TakesInv` (what the
properties say, with the movement of a discrepancy named instead of counted) and
`JobInv(w)`: what the one request in progress has checked still holds, such as the
status of its session, and which uncounted items it is about to fill. A crash gives the
knowledge up and keeps what was written.

*Till.* `LedgerInv` alone is not inductive: a commit appends movements that were
computed earlier. `RowsInv` adds `Isolation`, which says those movements continue
from the quantity that is still committed because their writer holds the row.
`SaleOnOpenShift` needs that a worker in the middle of a sale still holds its
shift's lock and the shift is still open; `JobOK` states that for each kind of
request. `DeskInv` joins it with the types of the desk and with the fact that a
shift which has a closure is closed.
`TillInv == RowsInv /\ DeskInv` is inductive. Each action has a lemma that says it
is a `GoodStep`: it keeps `TillInv`, is a step of the book, and obeys the two
action properties; `NextIsGood` collects them, so each action is argued once.
Before them stand the lemmas on locks and commits, which are about `StockRows` alone.

*Books.* `BooksReconcile` and `SaleIsPosted` compare committed stock and movements with
documents, and say nothing while a request is under way, although its commit must make
them true again. `BooksInv` accounts for what is in flight. `Calls(w)` are the
`adjust_stock` calls the request of `w` came to make, `Done(w)` how many it has made:
`WritesOK` says the quantity `w` sees of a variant is the committed one plus what those
calls moved, and that its uncommitted movements carry exactly that for the sale being
made and nothing for any other. `DocsOK` keeps the document it will write (the sale is
still fresh, the voided sale still completed and locked by `w`, the returned lines still
those of the sale), `Apart` keeps two requests from creating the same document, and
`ReturnsOK` says a return names lines of a sale that was completed. At the commit all
calls are made, so what moved is the sum over the cart, and the sum over the documents
grows by the same. The sums are folds over finite sets. `SumProofs` proves what is
needed of them, by induction over a *set* (those prefixes or subsets for which the claim
holds) and the well-founded orders of the library, because its induction rules over a
predicate cannot be instantiated here.

*Returns, serially.* `initiate_return` adds up the returned quantities without a lock, so
two requests may both pass. With one, `ReturnsWithin` says that the returns of a sale
name its lines and take back no more of each line than was sold, and `ReturnKnows(w)` that
the request in progress still fits into what is left. A body that names a line twice
passes even then: each entry is compared with what was returned before. The run
`over_return` is that counterexample, so the hypothesis is stated and needed.

*Till, serially.* `close_shift` is statements without a transaction, and `void_sale` only
reads its shift: with two workers TLC violates the theorem. `SerialTill(w)` adds to
`TillInv` the property and `JobKnows(w)`: the sale to
commit is still fresh, the sale to void is on an open shift, the shift being closed is
open, the listed held sales are still held, and the total still counts the completed
sales.

*Purchasing.* `StatusMatchesLines` is not inductive: an update writes a status that it
checked in an earlier step. `OrderInv` adds `CheckOK` (an update that passed its check
may go from the remembered `seen` to its target; if `seen` is no longer the status,
the write marks `crossed`), `CreateOK` (only the first request creates the order, and
has not while it is "asked") and `WithinOrder` (nothing beyond what was ordered).
`UnbornOrder` and `UnbornPages` say that before the order exists nothing but its
creation is under way, so that the creation does not write over anything.
`DialogOnAnswer` says an open dialog has an answer under it, which `EntriesFit` speaks
of. `Inv == OrderInv /\ UnbornOrder /\ PageInv` is inductive, one lemma per group of
actions and part; the three step theorems use `Inv` in the state before the step.

*Register.* Two thirds of the steps are `Quiet`: they touch no submission, no hold of a
swap, keep or drop the credit and keep the snapshot in step; `NextIsQuietOrLoud`
sorts them out once. `PostInv` is the invariant of the submissions. `OneSaleInFlight` is `SubmitInv`, with the
submission named: the handler a page runs, from the request to the step after its last
wait, is one, and it is what `isSubmitting` stands for; `CreditSpentOnce` speaks of recorded
sales only and is not inductive, since a submission may be recorded later. `CreditInv`
counts a submission from the moment it is sent (`Spends`) and adds that a page all of
whose answers came back has only its own submissions in flight, and that a credit which
was spent is off the cart once its answer has been handled. `SwapInv` says the
server holds the sale a swap brings back and, from its answer on, the cart it took away,
until the restored cart is on the page; `DiskInv` is `SnapshotIsCart`, which every quiet
step keeps whether its write lands or not.
`RegisterType` uses `SumProofs` to see that the amounts of a cart are natural numbers, and
`TypeInv` adds that fewer than three failures of a PIN are remembered, since the third
closes the dialog. Lemmas per group of actions say which parts of the state a step leaves
well-typed; `RegisterIsCounter` rests on the theorem, and on `Carries`: a submission that
was sent has its payload.

*Client.* `SessionInv` ties cookies, memory and the shown person together: the refresh
token speaks for the owner of the cookie, and inside the store the tokens of the page
are of the person shown unless the PIN page was used. For the pages, every action is
shown once to be a `PageStep` (what may become of an entry of the cache, of a request
under way and of a form) and a `MountedStep` (what may become of a mounted reader that
is at rest); the invariants are then proved against these two and not against the
actions. `PagesInv` is about types and clocks, `AreaInv` says that no page is mounted
outside the areas behind the sign-in, `DataInv` that an entry or a request in flight is
of the person shown, `ToldInv` that an entry under a key that a form tells, fresh and
not doubtful, holds the acknowledged writes of that form. With `ClientInv == SessionInv
/\ PagesInv /\ AreaInv /\ DataInv /\ ToldInv`, the joint invariant, `OwnWritesShown` is
inductive; `EditInv == ShownInv /\ BaseInv` adds that one form is shown at a time, and
that one filled from a settled answer holds all own writes to it and has no other under
way.

What a form tells is an entry of `Screens`, so two of the theorems have a hypothesis about
the table, at the top of `ClientProofs`. `WritesAreTold`: every form and reader of data it
writes, outside `KnownStale`, are a form that invalidates the key of the reader and a
reader that asks through the query cache. `SheetsAreKnown`: a sheet that stays open after
saving is not edited from what it wrote, but for those of `KnownOverwrite`. These are facts
read off the code, not beliefs about it: both are true of the table the run `client` uses,
which TLC confirms when a module that extends `MCClient` and `ClientProofs` assumes them.

## 7. Model-checked only

- `RequestsEnd`, `SubmissionEnds`: liveness under fairness, which the prover cannot treat.
- The four findings: a counterexample is a behaviour of a small instance.
- The hypotheses of the theorems are conditions on the constants. `two_approvals`,
  `closed_shift` and `over_return` show that those of the serial theorems are needed.

## 8. Plan

Done in this order: `StockBook`, `StockControl` with its runs and proofs,
`StockRows`, `Till` with its runs and proofs, `Register` and `Counter`, `Screens`,
`Pages`, `Session` and `Client`, `Purchasing` and `Inbound`, with the proofs about
`Purchasing` and `Register`, those about serial stock takes and shifts, and those about
the books of the till, serial returns, the types of `Register` and the client. Next:

1. `CustomerCredit`: the balance check outside the transaction, redemption and
   store credit of returns; refund and payment arithmetic as operators checked
   against exact division over bounded inputs.
2. `Billing`: invoice, PayHere notification (duplicated, delayed), nightly job,
   cancellation, invoice generation.
3. `TimeClock`, `Commission`.
4. `Endpoints`: the data each view reads and writes, for `Screens` to name.

## 9. Not modelled, and why

- The backend of catalogue CRUD, accounts, tenants, audit, notifications, reports,
  hardware: single-row operations, queries and device I/O without invariants across
  rows. Their pages are in `Screens`, where such a write is committed or refused.
- Which rows an endpoint reads: `Screens` names the data a page shows and a form writes as
  the web client has them. Some endpoints it calls never answer as it expects: there is no
  route for `products/import/`, `products/bulk-price-update/`, `stock-movements/` and
  `variants/?q=` under `api/catalog/` (`catalog/urls.py`), and the valuation view sums a
  field `price` that a variant does not have (`catalog/views.py:689`). In the model their
  requests may be refused or succeed, so it has every behaviour of the program there and
  more. Splitting the data by endpoint is left to a module of its own.
- The offline queue (`useOfflineSync`, `idb-store`): no code puts anything in it.
- Layout, validation and formatting of the web client; the steps inside the product
  wizard; the public status page; the customer-facing display; receipts and printing.
- Split payments: arithmetic over one request.
- The low-stock notification and the unrouted bulk and stock-take functions of the
  inventory service (no view calls them).
- The backend of promotions, customer credit, billing, time clock, commission and
  webhooks waits for the plan above.

Each component is listed in `PROJECT.json` with its status and reason.
