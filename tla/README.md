# Codi-it in TLA+

This directory is the formal model of Codi-it: what the concurrent requests of
its back end (`src/`, Express and Prisma over PostgreSQL) do to the database,
and what the tabs of its front-end (`project-codiit-fe/`, Next.js with React
Query and Zustand) do with answers that come late. It is checked with TLC on small
instances and, for the safety properties, proved with TLAPS for all of them.
Paths below are relative to the repository, `modules/` to `src/`, and `components/`, `store/`,
`lib/`, `buyer/` to their place in the front-end.

## 1. The system

One Node process (restarted by PM2) serves a REST API over PostgreSQL. It keeps
no lock of its own: requests interleave at every `await`, and the only
coordination is the database's. Prisma leaves PostgreSQL at its default, READ
COMMITTED, where a statement sees committed rows and its own transaction's
writes, an UPDATE holds the row's lock to the end of the transaction, and a check
made by an earlier SELECT protects nothing. The hard behaviours of the back end
come from there: read, decide in the program, write; a transaction that may be
rolled back or deadlock; a crash between two writes that have no transaction;
a push to open connections after the commit. Those of the front-end come from
answers: a click sends a call and the buyer goes on, leaves the page, closes the
modal; what the answer does then, it does to whatever is there.

| Component | State | Operations that change it | What makes it correct |
|---|---|---|---|
| orders (`modules/orders`) | Order, OrderItem, ProductStock.quantity, User.points / lifetimeSpend / gradeId, Notification | createOrder (one transaction of about ten statements), cancelOrder, updateOrder | stock moves by what placed orders list; a failed order leaves nothing; sold-out sizes are announced; spend and grade do not lose an order; points come back once |
| payments (`modules/payments`) | Payment (unique orderId), Order.status | createPayment (two statements, no transaction), cancelPayment | one payment per order; payment and order agree; a payment is never undone |
| shipping (`modules/shipping`) | Shipping.status | auto-progress, set status | what has been delivered was delivered, though a slow call may set the status back |
| inquiries (`modules/inquiries`) | Inquiry.status, InquiryAnswer (unique inquiryId) | create, update, delete, reply create / update / delete | CompletedAnswer exactly when there is an answer; the answered buyer is notified |
| products (`modules/products`) | Product.isSoldOut, ProductStock rows | create, update (stock rows deleted and recreated), delete, createInquiry | the rows on sale are those of one form, of the last edit, less what orders took since; an ordered product stays |
| notifications (`modules/notifications`) | Notification rows; the hub's map from users to open responses | add, remove, emit, heartbeat, check | a push reaches the open connections of its user and no other; no closed response stays |
| reviews (`modules/reviews`) | Review (unique orderItemId) | create, update, delete | at most one review per item, of a paid order; none taken back twice |
| stores, purge job (`modules/stores`) | Store (unique sellerId), StoreFavorite, StoreAuditLog; a timer and a `running` flag | create, update, favourite; weekly erasure of business data | the log tells what the store has become; info is erased only after the retention and always after it |
| cart (`modules/cart`) | Cart (unique buyerId), CartItem | create, update by sizes, delete item | one cart per buyer, one item per size, through calls that overlap |
| dashboard (`modules/dashboard`) | none | reads and date arithmetic | every sale in one price range and in the right periods |
| auth, users | User (unique email, deletedAt), RefreshToken rows | sign up, log in, refresh, log out, delete | as far as streams, requests and the purge see them (section 8) |
| alert popover (front-end, `StockAlertPopover.tsx`) | EventSource, cached list, tokens of the user store | connect, reconnect after a 401, refetch, mark as read | what was pushed is shown; what is shown is the user's own, but for what a tab has cached of the one before |
| shopping (front-end: product page, cart, order page, payment modal) | cached cart, order store, modal | add, buy now, change, drop, pick, order, pay | an order is charged for what is in it; a taken payment is shown |
| purchases (front-end: my page, reviews, order details) | query cache, modals, timers | follow the shipping, review, cancel | lists show what is there when all has come to rest; a review is of something delivered |
| metadata, s3, middlewares, lib, other pages | constants, or none | none | not modelled (section 8) |

Interactions: an order writes stock, user and notification rows that products,
users and notifications read; payments and cancellations write Order.status, which
reviews check; shipping is read by cancellations and by the pages that offer a
review; the carts' items decide who hears of a sold-out size; orders, inquiries
and replies hand committed notifications to the hub, whose streams end in the
popover of a tab; the deletion of an account marks the row that the purge looks for.

## 2. Modules

| Module | What it is |
|---|---|
| `OrderRequests` | constants of the shop (catalogue, grades), order requests, and the pure functions of the order service: validation, price, quantity per stock row, grade, points earned |
| `OrderLedger` | abstract: an order is placed at most once, in one step that moves stock and points by what it lists, uses and earns |
| `Ordering` | createOrder, one action per statement another request can come between, with row locks, roll back and deadlock; `LedgerSpec` says it implements `OrderLedger` |
| `OrderAccount` | abstract: a payment is captured once, settled once by the call that captured it, a cancellation refunds the order's buyer |
| `OrderLifecycle` | createPayment, cancelOrder, cancelPayment and the two shipping operations, racing over orders, with crashes; `AccountSpec` says it implements `OrderAccount` |
| `Reviews` | `OrderLifecycle` composed with calls that write, rewrite and take back reviews of the items |
| `Purchases` | `Reviews` composed with a buyer's tab: lists, details, modals, fetches and timers |
| `Shelf` | abstract: a product on sale with one quantity per size of its form; a form is saved whole, a size taken, the product withdrawn unless ordered |
| `Market` | a product's edits, orders, deletion and inquiries, one action per statement, with locks, cascade and deadlock; `ShelfSpec` says it implements `Shelf` |
| `InquiryDesk` | abstract: an inquiry has at most one reply, given, reworded or taken back in one step, and shows as answered exactly while it is there |
| `Inquiries` | updateInquiry, deleteInquiry, replyCreate, replyUpdate, one action per statement, with row locks, cascade, deadlock, failures and crashes; `DeskSpec` says it implements `InquiryDesk` |
| `Notices` | notices from the committed row through the hub to the popovers of several tabs, through log-outs and logins of other users, with broken streams, expired tokens and crashes |
| `Stores` | stores with their audit log, deletion of accounts, the purge job, time, failures and restarts |
| `Shopping` | one tab that fills the cart, orders and pays, over the statements of the cart service |
| `Dashboard` | periods, periods before and price ranges, over sales that are made, paid and cancelled on passing days |
| `MC*` | small values for the constants |
| `OrderingProofs`, `MarketProofs`, `InquiriesProofs`, `NoticesProofs`, `ShoppingProofs` | theorems about the module each is named for |
| `PurchasesProofs` | theorems about `OrderLifecycle`, `Reviews` and `Purchases` |
| `SellerProofs` | theorems about `Stores` and `Dashboard` |
| `SumTheorems` | lemmas about `SumFunctionOnSet`, the sums the models and their properties use |

`OrderLifecycle`, `Reviews` and `Purchases` are one composition, each EXTENDing
the one before: steps of the inner modules are steps of the outer ones. `Ordering`
ends where `OrderLifecycle` begins, with the order `Commit` leaves, and no call can
name an order before that. Both add to User.points, but relatively, and no
operation decides anything on the balance. `Market` has the part of createOrder
that is about one product's rows and leaves the rest to `Ordering`, whose
catalogue is constant. `Shopping` has an order and its payment as one step each,
which either happens or does not. Notices in `Notices` come from anywhere: `Create` is the commit
of `Ordering`, `Inquiries` or `Market`.

### Ordering and the code

`pc[o]` walks through the code of one call:

| pc | action | code (`modules/orders`) |
|---|---|---|
| idle | `Submit` | checks on the body, `orders.service.ts:70-93` |
| check | `CheckItem`, `RefuseShort` | `validateAndCalculateOrderItems`, one SELECT per item, then `validatePointUsage` |
| take | `TakeStock` | `tx.productStock.update({ decrement })`, `orders.repository.ts:177-207` |
| soldout | `QueueSoldOut` | the branch on `quantity <= 0`, 209-254 |
| debit | `DebitPoints` | 273-282, only when points are used |
| read | `ReadUser` | `tx.user.findUnique`, 285-288 |
| credit | `CreditUser` | `tx.user.update`, 301-307: waits for and takes the row |
| commit | `Commit` | the remaining statements and COMMIT |
| any of these | `Rollback`, `AbortDeadlocked` | a failed statement, Prisma's 5 s limit on an interactive transaction, a lost connection; PostgreSQL's deadlock detector |

The uncommitted version of a stock row is `stock[k] - taken[o][k]`, and `taken[o][k] > 0`
is at once the lock. Who holds a user row follows from `pc` (`HoldsUser`). The
effects on the user row are applied at `Commit`; the lock is held from the first
UPDATE, so no other transaction can tell. Foreign-key checks take FOR KEY SHARE
locks, which do not conflict with these updates, and have no place in the model.
Rows no other transaction can see before the commit (order, items, shipping,
notifications) have no action of their own. Constant here: the catalogue, the
grades, who has what in the cart. The seed gives grades rates of whole percents
and distinct `minAmount`s, so `Math.floor(finalPrice * rate / 100)` is integer
division and the best grade is unique; with a tie both the code and the model
take one of them.

### OrderLifecycle and the code

A call is a process of at most four steps: `read` (the SELECT and the checks on
it), `check` (a second read where the code has one: the shipping in
`findOrderById`, which Prisma loads by a second query, and the SELECT inside
`cancelPaymentWithTransaction`), `write`, and `settle` for the second write of
`createPayment`. A transaction that writes last appears at its commit: it holds
its rows until then and no two of these lock two rows in opposite orders.
`Crash` loses every call in flight; nothing resumes them. `Init` leaves orders
as `createOrder` commits them; `SeededInit` as `scripts/seed-mock.js` leaves the
waiting ones, with a Payment row that waits. No call of the API ever makes such
a row, so only those payments can be cancelled.

### Reviews, Purchases and the code

A review call reads the order of the item and its payment in two queries, then
writes (`reviews.service.ts`, `reviews.repository.ts`); edit and deletion name a
review they have been shown. The server asks for a completed payment and never for the shipping.

`Purchases` is what runs in the tab (`components/item/`, `components/order/`,
`buyer/mypage`, `buyer/review`, `buyer/order-detail`). `cache` is the query
client's data for the two lists and the details of each order, `fetch` how far a
fetch of it is: asked, read on the server, arrived. `Reload` is
`invalidateQueries`: a fetch under way is given up for a new one, except the first
load of a query, which is joined. `modal` is the modal that is open with what it
shows and the call it waits for; `here` are the calls whose components are
mounted still, `timers` the timeouts that answers set (100 to 500 ms, in any
order here). `Go` mounts a page, `Arrive` brings data and remounts the cards whose items
changed, `Saved`, `Deleted` and `CancelDone` are the `onSuccess` handlers, which
run whether or not their page is there.

### Market and the code

| operation | places | code |
|---|---|---|
| edit | read, pin, clear, write | `ProductsService.update`; the transaction of `products.repository.ts`: `deleteMany` of the stock rows, UPDATE of the product with the rows of the form |
| take | read, pin, take, item | stock check, decrement and order item of `createOrder` |
| remove | read, drop, cascade | `deleteById`: one DELETE, stock rows and inquiries by cascade, refused by an order item |
| ask | read, insert, announce | `createInquiry`, its INSERT and the notification behind it |

A statement finds its rows when it begins (`pinned`) and waits for those that
are held; rows that are gone by then are left out. A row is named by the edit that created it, so that an
old row and a new one of the same size differ.

### Inquiries and the code

One inquiry, calls as processes. `read` and `look` are the two queries of
`findById` (Prisma loads the answer after the inquiry), so a call can see a status
and an answer of different moments; the checks of
`utils/inquiries.service.util.ts` are split between them.

| operation | places | code (`modules/inquiries`) |
|---|---|---|
| edit | read, look, write | `updateInquiry`; the UPDATE at the end looks at nothing |
| reply | read, look, mark, insert, announce | `createReply`: UPDATE of the inquiry, INSERT of the answer, COMMIT; then the notification, a statement of its own |
| delete, of a seller | read, look, remove, unmark | `deleteReplyByInquiryId`: DELETE of the answer, UPDATE of the inquiry, COMMIT |
| delete, of anybody else | read, look, drop, cascade | `deleteById`: DELETE of the inquiry, and of its answer by the foreign key |
| reword | read, write | `replyUpdate`: find and UPDATE the answer by its id |

Who holds which row follows from the places (`HoldsInquiry`, `HoldsAnswer`).
A reply and a removal hold one row each and wait for the other's: that takes a
third call, since the reply must have read before the answer was there.
`Abandon` is the end of a call without its commit: nothing is left, except of a
reply that is committed and not yet announced (`unannounced`). The question,
its `isSecret` and the wording of the reply are the identity of the call that wrote them.
`Init` is the row `createInquiry` makes; creation itself races with nothing.

### Notices and the code

On the server (`modules/notifications`) `clients` is the hub's map, `beating` the
responses whose interval runs, `hungUp` those whose connection is gone and whose
close event has still to come. In a tab (`StockAlertPopover.tsx`, `lib/api`)
`user` and `token` are the user store, `fetch`, `list` and `patching` the query client. The
popover mounts anew with each login, so `stream` (its EventSource), `header` (the token that was
created with) and `inbox` belong to one of the `Popovers` of a tab. A broken stream reconnects by itself with its old header; a
401 closes it for good and runs the popover's `onerror`, which asks for a new token and
connects with the one of the store, because the renewed one is not stored.
`Renew` is the axios interceptor, which does store it; when it cannot, the login page is loaded
and the tab starts with nothing (`RenewFails`). The list is fetched in two
steps, so that an answer may be older than the row. `Crash` empties the hub and
loses what was committed and not pushed.

`Logout` empties the user store and unmounts the popover (`LoggedInMenu.tsx:20-34`). It neither
loads a page nor clears the query client, a constant of the module (`app/providers.tsx:8`), and
the list is cached under a key without a user (`StockAlertPopover.tsx:36`): the next `Login` of
the tab shows it, asks for it anew, or joins a GET that was under way. A popover that awaits its own renewal
connects afterwards, mounted or not (114-118), and nothing closes that stream. `cookie` is the
refresh token of the browser, which its tabs share: `Elsewhere` is a login in another one of
them, after which `Renew` gets tokens of that user. The user store persists in the
browser too, but a tab reads it only when it is loaded, and reloading is not modelled. `since` and
`crossed` are history: the first token of the login, and whether the cookie has been another's since.

### Stores and the code

Time is counted in slots of the week, ages saturate at their retention, and
`timer` counts down to the slot of Monday 03:00, `getNextRunDate` modulo the week.
A run of the job is `JobRead`, `JobErase`, `JobClean` and `Finish`, the `finally` that
schedules the next. The write of a store and its entry in the audit log are two
statements without a transaction. A call and a run are over within their slot (each lasts
milliseconds, a slot hours); a timer may fire late. `targets` are the owners a run has read; `again` is history, those who were
due and left once more between that read and the write of the run. An entry of the log is the row it is
about; the code logs a snapshot in which the secret fields are masked, and the models tell
fields apart only by the call that wrote them.

### Shopping and the code

Each call of the tab is a process: its statements in `modules/cart` (cart, then
for each size find and update or insert), and then its `onSuccess`. `selected` is
`selectedItems` of the order store (`store/orderStore.ts`), which all pages share
and an answer may overwrite when its page has gone. `body` is what a call sends and, for
a payment, the quantities its price was summed up from.

### Dashboard and the code

`Start`, `End` and `PreviousStart` are `getDashboardDateRanges`; `Within` and
`InBucket` are the sums of `dashboard.util.ts`. Days are numbered from a Sunday
and the first days of months and years are given, so a short run meets months of
different length and the end of a year. A sale counts while its order and its payment are both
completed (`Records`): `Pay` is `createPayment`, which does not look at the order and so also pays one that was
cancelled, and `Cancel` is `cancelOrder`, which leaves the payment as it is.

## 3. Runs

| Run | Instance | Properties | Distinct states; what it shows |
|---|---|---|---|
| `ordering` | 3 orders, 2 buyers, 1 product in 2 sizes (stock 1 and 2), 2 grades, 7 requests, fairness | `TypeOK`, `StockConserved`, `SoldOutAnnounced`, `GradeCurrent`, `SpendAdds`, `EveryCallAnswered`, `LedgerSpec` | 233,044; nothing the interleavings, roll backs or deadlocks do breaks them, and every accepted call is answered |
| `lifecycle` | 3 calls, 2 orders of one buyer, a second buyer, 8 requests, fairness | `TypeOK`, `PaidOrderKnown`, `PaidOnce`, `CancellationSticks`, `PointsAccount`, `PaymentFinal`, `AccountSpec`, `PaidShows` | 85,564 |
| `seeded` | the same on orders as the seed leaves them, up to symmetry of the calls | `PaymentCancellationSticks` | 20,848; the payments that can be cancelled |
| `purchases` | 1 order of 1 item, 1 tab, up to 3 calls of 7 | `ReviewedWasDelivered`, `ReviewsCounted`, `ShownAtRest` | 627,608; stale pages, late answers and other tabs |
| `market` | 1 product in 2 sizes, 5 forms, 3 calls, fairness | `ProductAsSaved`, `EveryCallAnswered`, `ShelfSpec` | 12,163; two edits at once leave the rows of one |
| `inquiries` | 3 calls of asker, shop and a rival shop, 7 requests, fairness | `AnswerShown`, `RepliesCounted`, `EveryCallAnswered`, `ReplyAnnounced`, `DeskSpec` | 78,555; two rows written in opposite order never disagree |
| `notices` | 1 tab in which ann and then ben log in, other tabs of the browser, 1 notice of ann, 2 tokens, 3 streams, fairness | `HubExact`, `OwnNoticesShown`, `NoticeShown`, `StreamReopened` | 419,446; a list outlives its user in the cache, and not otherwise |
| `stores` | 2 sellers, 3 calls, 1 failure of a run or of the process, fairness | `TypeOK`, `StoreTraced`, `ErasedOnlyWhenDue`, `ErasedInTheEnd` | 208,434; weeks of time through a failed run or a restart |
| `shopping` | 1 product in 2 sizes, 3 calls, fairness | `ChargedAsOrdered`, `PaymentShown` | 581,342; edits of the cart that go on while an order is made and paid |
| `dashboard` | 2 sales, two weeks with months of 5 to 7 days and the end of a year | `ShownAddsUp`, `RolledOver` | 17,094; every day of sale, payment and cancellation |
| `oversell` | 2 orders, 5 requests | `StockNotNegative` violated | check outside, unconditional decrement inside; or one order listing a size twice |
| `refunded_twice` | 2 calls | `RefundedOnce` violated | status checked before the transaction only |

### Why the bounds are enough

*Ordering.* Three orders of seven kinds give every pair of conflicting lock orders, an
order that is overtaken twice, and a roll back under which another waits; a stock
of 1 and 2 against quantities of 1 and 2 meets every side of the test for 0, and
selling below 0. Thresholds of the grades (0 and 200) lie on both sides of the
totals. A size listed twice, points used and not used, and each early return of the
validation are among the requests.

*Lifecycle, seeded.* Three calls on one order are a payment, a second one and a
cancellation in every order, with one crash at any moment; the second order and the
second buyer show that nothing leaks.

*Purchases.* The constraint `Bounded` of `MCPurchases` lets three calls be made while
the tab is elsewhere (creation, edit and deletion of one review race, also with a
stranger), two while one list is looked at, from this tab or another (the shipping
progresses or is set back elsewhere), and one of the tab while both lists are. Any three of
`c1`, `c2`, `w1` to `w3` on one list were run once as well, 8.3 million states without an error,
which takes longer than a run should. One order of one item is enough for what
a list shows of an item, and lists that lose their only order are those that remount.

*Market, inquiries.* Three calls give the deadlocks (which need two holders, and in
`Inquiries` a third that made the second possible), an edit overtaken twice, a reply
after a removal. Forms share one size or none, and one sells out.

*Notices.* A notice of ann and a second user in her tab tell a wrong address and a stale list. Two tokens
are an expiry with its renewal under ann, or one for each login; three streams are a
reconnection of ann's and a stream of ben's. A second tab with a store of its own shares no
variable with the first but the hub and the cookie, and logins there are `Elsewhere`.

*Stores.* The retention is a few slots, so that a deletion, a run that fails or is lost
and a second run fit in. Ages saturate, so nothing else is bounded but failures.

*Shopping.* Of three calls the first edits, the second edits or orders, the third
orders or pays: an order has an edit under way before and beside it. One piece fills a line (`MaxQuantity`
1), so that the refusal of a quantity happens, after other sizes have been written.

*Dashboard.* Prices are 10000 and 99999, at a limit of ranges and next to one.

Every property is broken by a mutant of the code (operators commented `Mutant:`),
under the same bounds. Deadlock is checked where every behaviour ends in the explicit
`Finished` or goes on for ever; not in `notices`, `shopping` and `dashboard`, where a
user may stop, the bounds on streams, tokens and calls are spent, or the days are over.

### What the violated runs and the exceptions say

`StockNotNegative` is what a test promises (409 on short stock) and READ COMMITTED
does not give, `RefundedOnce` what a test checks in sequence. Several properties that hold carry an
exception that the code needs; each is a behaviour to know of:

- `GradeCurrent` and `SpendAdds` hold for orders that use points because the debit
  locks the buyer's row before it is read; orders without points read it unlocked,
  and their lost update is why both carry `PaysWithPoints`.
- `PaidShows` allows for a crash between the two writes of a payment: recorded,
  order still waiting, and a retry refused. `ReplyAnnounced` allows for a reply that
  is committed and whose notification failed.
- `ErasedOnlyWhenDue` allows for an owner who was due when a run read its targets and
  deletes the account once more before that run writes, which sets `deletedAt` anew.
- `OwnNoticesShown` excepts a list that was asked for before the login: the query client outlives a
  log-out and its key has no user, so whoever logs in to the tab next sees the notices of the one
  before until the refetch answers, and goes on seeing them if the popover has joined a GET that was
  under way (`StockAlertPopover.tsx:36`, `app/providers.tsx:8`, `LoggedInMenu.tsx:20-34`).
  It also excepts tabs that are `crossed`: a token is renewed for the user of the browser's cookie,
  who may have logged in in another tab, and requests then speak for one user under the
  name of the other (`axiosInstance.ts:54`).
- `NoticeShown` speaks of a tab with a list: a message that comes during the first load joins it.
- `ShownAtRest` excepts a list that was loading for the first time when a change was
  answered (`early`): React Query joins the load instead of restarting it, so the
  list may show what was before until it is fetched again.
- `ChargedAsOrdered` speaks of orders that are `settled`: a late answer of an edit or of
  a payment of an earlier page replaces `selectedItems` between the request of an
  order and its answer, and the modal then names another price (`buyer/order/page.tsx:74`).
- `StreamReopened` allows the popover to be refused again while the store's token is
  old: the token it has just been given is not stored (`StockAlertPopover.tsx:116`).

Behaviours that the models have and no property excludes:

- Two orders that empty different sizes of one product both miss that the product is sold out (write skew).
- An order is cancelled after it was shipped, when the shipping moves between check
  and write. `DELETE /orders/:id` documents that only a waiting order can be cancelled
  (`orders.module.ts:282`) while the code accepts a paid one (`orders.service.ts:174-178`).
- A slow auto-progress puts a delivered shipping back to InShipping; the shipping modal,
  closed while its call is under way, lets a second one race it and leaves the list stale.
- On seeded rows a payment that completes between check and write is overwritten as cancelled.
- An answered question can be edited by a call that read it before the answer
  (`inquiries.service.ts:75`, against the comment at `inquiries.service.util.ts:114`).
- An edit of a product gives it the quantities of the form, whatever was ordered since the form was
  filled in, and no order updates `isSoldOut`.
- Points are debited without a look at the balance (`orders.repository.ts:278`), which can go below 0.
- Of two first calls that both find no cart one fails at the unique key, which ends its handler (`cart.service.ts:21`).
- The first "add to cart" of a buyer without a cart sends no size and fails (`ProductInfo.tsx:230` expects otherwise);
  an "add" from an old view of the cart overwrites one that came between.
- The payment modal can be closed and the same items ordered once more; a payment of a page
  that was left resets the store of the page that is open.
- A log-out while the popover renews its token leaves a stream behind that no clean-up closes, with the
  token of the next user or none (`StockAlertPopover.tsx:114-118`); `HubExact` counts it as open.
- The success of a review call closes the modal of its kind 100 ms later, whichever item it shows by then;
  leaving the page during a cancellation lets a second one be sent.

Two disagreements were met outside the models: `isReviewed`, by which the review page
sorts its two tabs (`buyer/review/page.tsx:37-46`), is never in the server's answer, since
`toOrderDto` returns the items raw and `toOrderItemDto` has no caller
(`orders.mapper.ts:12-57`); and the labels of the price ranges ("이하") give a price at a limit to
the lower range where the code gives it to the upper one.

## 4. Fairness

Weak fairness only, and only of what the program or its platform continues by itself:

- `Ordering`, `Market`, `Inquiries`: every step of an accepted call, since Node runs the continuation
  of a finished query, and the deadlock detector, which PostgreSQL runs after `deadlock_timeout`.
  A waiting step is disabled until the holder ends, and each holder does end, by commit or as the victim.
- `OrderLifecycle`: every step of a call.
- `Notices`: the popover's and the server's steps about the stream, about the other
  requests, and the reading of each message. They may fail (`GiveUp`, `RenewFails`), and nothing has to break or expire.
- `Stores`: time, a timer that is due, the steps of a run and of a call, and the restart, which PM2 does.
- `Shopping`: some step of some call; a browser handles one answer at a time, and fairness to each call is not needed.

Clients need not call and nothing forces a roll back, a failure or a crash: `Submit`,
`Rollback`, `Abandon`, `Fail`, `JobFail`, `Crash` and clicks have none.

## 5. Proofs

The proof modules take the constants as they are declared, with only the named
assumptions of the modules: any number of buyers, sizes, orders, tabs and calls.

`OrderingProofs`. `TypeCorrect` is proved first, as `TypeOK` together with
`CallsWellFormed`: past the checks a request is one they accept. `LocksHold` is the inductive
invariant: with `TypeOK` it is a conjunction of five facts, none inductive without
the others. `RowLocks` and `TakenInTx` need that a row is taken only when free;
`UserLocks` needs `UserFree`; `SeenFresh` (the row read under the lock is still
as read) needs `UserLocks`, since only its holder commits to it; `NoticesQueued`
needs `RowLocks`, since only the holder of a stock row changes what it will be.
`SoldOutAnnounced` then follows at `Commit`, where queued notices and decrements
become visible together, and `SpendAdds` and `GradeCurrent` from `SeenFresh`.
`StockConserved` rests on `ItemsSummed`: item by item, `total` and `taken` are the sums of what
the items passed so far list, so that an order listing one size twice takes both; a
commit then adds one order to the set summed over. The same sums make the commit
the placing of one order in the ledger, and every other statement a stutter
(`OrderingImplementsLedger`).

`SumTheorems`. `SumFunctionOnSet` is a fold, which takes the elements in an order TLA+ leaves
open, and the induction theorems of the library cannot be used here. So the sum is shown to
be a count: each element x stands for f[x] units of its own (`Units`), and the sum is
`Cardinality` of their union (`SumIsCount`). If it were not, some smallest subset
would be a counterexample, and it is none by the equation of the fold. What sums do
when an element is added, a function changes or a set is split (`SumAdd`, `SumSame`,
`SumUnion`, `SumOfParts`) are facts about finite sets from there on.

`PurchasesProofs`, orders. The inductive invariant is `TypeOK`, `PaidOrderKnown` and
`PayersKnown` (a call about to write has seen no payment, one past its write is the one
the payment row names, and a cancellation of a payment never gets past its first read).
`PaidOnce` is its consequence: two payers would both be named. `PaymentFinal`
holds because a write of an existing completed row needs a call that has read an
uncompleted one, and `Init` has none. `CancellationSticks` needs in addition that
only settlement moves an order out of Canceled. `LifecycleImplementsAccount` maps
the transaction id of the payment to the capture and the finished payers to the
settlements; its step uses `OwnersCancel`, that a call about to write a
cancellation is the owner's. `PointsAccount` uses it too: a cancellation that commits adds one call
to those summed and its refund to their sum, of the same buyer. Of seeded orders the invariant is another one (`SeededInv`): a call that
is going to settle has its payment recorded, which is all that `PaymentCancellationSticks` needs.

`PurchasesProofs`, reviews and the tab. Steps of `Reviews` are steps of `OrderLifecycle` or leave it alone, so its
invariant carries over (`ReviewsKeepInv`). `ReviewedIsPaid` needs `WritersPaid`, that
a call past the look at the order knows of a recorded payment, and that a recorded
payment stays. `ReviewsCounted` is inductive with `OwnNamed` (what a call names was
created by its user) and the finiteness of the counted sets; the steps that keep it are those of any call that names any
review (`CallsKeepCount`), and so it holds beside the tab too, which names what it has shown
(`TabReviewsAreCounted`). `ReviewedHasArrived`, of
`Purchases`, rests on `PagesTruthful`: a page that shows an item as delivered, a fetch that brings it and
the form that is open are of an order that has been delivered at some time. What
moves the cache, the fetches, the modal and the calls is sorted out once each
(`CacheMoves`, `FetchMoves`, `ModalMoves`, `CallsMove`), and the step looks only at those.

`ShownAtRest` says something only when all is quiet, and is far from inductive.
`ListsFollow` says it of every state in which no change of the tab is unheard of (done and not answered, or
answered with a timeout to come): a list that is read and
not arrived, or shown and not asked for, is up to date, and no call runs that the tab does not wait for.
It is kept because each step of a change makes it unheard of, and what makes it
heard, the last timeout, asks for every list that has data (`RefetchAsks`); what else moves
a list (`Advances`) asks for it, reads it, or shows what was read.

`MarketProofs`. The inductive invariant adds to the types `LocksExclude` (a stock row is written by one
call at a time, which finds it there), `SizesOnce` (a size has one row at most), `DoneFirst` (rows are those of edits
that are done) and `TakesOne`. `ProductAsSaved` follows: a save leaves the rows
it pinned and its own, the unique key refuses any other, and the cascade waits for
every holder. `MarketImplementsShelf` maps the rows of a size to its quantity
and each commit to a step of the shelf.

`InquiriesProofs`. The inductive invariant is `TypeOK`, `AnswerShown`,
`RowsHeldOnce` and `PlacesOwned` (which kind of call is at a place that writes).
`AnswerShown` needs little beyond types, because each commit writes both rows; that the
commits never meet is `RowsHeldOnce`, and the count and the desk rest on it: a
reply inserts into an inquiry that is still there and has none, and a removal takes
an answer nobody else is taking, because a deletion has to wait for both.
`StepKinds` then sorts all steps into giving a reply, taking it
back, deleting, and doing none of these; from it follow `RepliesAreCounted`, with
the cardinality lemmas of the library and for any, even infinite, set of calls,
and `InquiriesImplementDesk`.

`NoticesProofs`. The types (`Typed`) need that an open stream was accepted, that a tab with a user has a
token and a login, and that no popover is there before its login (`NoneAhead`). `HubExact` needs `Numbered`: a new
response has a number that no beating one has, in popovers that are left over too. `OwnNoticesShown` rests on two
invariants. `Sessions` says of each token in a tab, in the store and in requests and answers under way, that
it is of the user who is logged in, or from before the login, or the tab is crossed; logging in
makes all the older ones tokens from before, because numbers only grow. `Shows` says that what is written to a stream is of the
user of its token, that answers under way bring what is so of their token's user, and that what waits to be pushed is a row.

`SellerProofs`, stores. Types need that a store once opened stays and that calls ask what they may. `StoreTraced` is
weaker than what is inductive: `LastKnown`, the call that wrote last still holds the row that the store has,
up to what was erased, or has logged it. `ErasedOnlyWhenDue` is about one step, whose
reason lies in an earlier one: `Gone` says of each target of a run that it has been gone for the retention since the read,
or is in `again`, and carries that to the write.

`SellerProofs`, dashboard. `RolledOver` is about the calendar: on a new day a period goes on, or it ends where
`End` said and is what `PreviousStart` names from then on (`Rolls`); for weeks by the remainder of the day,
for months and years since the first day after one start is the next start
(`CalendarMoves`). The assumption on the calendar is that years begin with a month and that two of them have begun and
one has yet to begin, which is so of every date. `ShownAddsUp` follows from `PricesPart`, that a price is in exactly
one range, with `SumOfParts`, and from `TodayWithin`, that today lies in every period.

`ShoppingProofs`. `Charged` says of each place that names the price of an order (an
answer, the modal, a payment under way, a payment taken) that it is what the order
lists; the one step that computes a price needs that while a settled order is pending
the order page stays, with what was sent still picked (`Pending` implies `Waits`), and that only one is pending.

Every safety property of the runs that pass is thus a theorem. Only model-checked is liveness
(`EveryCallAnswered`, `PaidShows`, `ReplyAnnounced`, `NoticeShown`, `StreamReopened`,
`ErasedInTheEnd`, `PaymentShown`): it needs `ENABLED` of fair actions, which the provers do not
have. The two runs that fail need no proof, the counterexample is one.
Only proved, and in no run of their own: `LocksHold`, `RowsHeldOnce`, `ReviewedIsPaid` and the types of
`Notices`, `Market` and `Inquiries`.

## 6. Hazards

The hazards of this code, with the line each bites at and the properties that
watch it, are listed in `PROJECT.json`; a hazard no property of the code excludes says so and names the
module that has it. Some of the behaviours at the end of section 3 are listed there alone. Not listed either, since nothing in the models tells them apart: a product form that drops a size
without quantity, does not send a discount that was switched off, takes size ids from a
static map, and is reset by a refetch while it is filled in.

## 7. Plan

Done: orders, payments, shipping, inquiries, products' rows, notices and their popover,
reviews, stores and the purge, the cart with the pages that use it, the dashboard's
periods, and the pages of past purchases. Next, in this order.

1. `Accounts`: refresh tokens (each login adds a row, log-out revokes one), deletion of the account while
   sessions live, and the email check before the unique key. Theorem: who is refreshed has logged in.
2. The inquiry page and the seller's product form over `Inquiries` and `Market`.

## 8. Not modelled

The front-end is about half of the source, and most of its lines lay out what was fetched: they
have no state of their own beyond a form or an open menu, and each sends one call that the
models of the server take as an arbitrary request. The same holds of the OpenAPI
descriptions in the `*.module.ts` files, the DTO and mapper classes, the seed
scripts' data, and the validation of formats. So the share of lines that the models stand
for stays small, while the operations that change shared state are nearly all there.

Left out of the modelled components: reads that only answer, with their filters, sorting and pages;
`updateOrder` and the modal that calls it (address fields nothing reads); shipping
history and timestamps; discounts, size guides, texts and images of products; favourites of stores;
the change rates, percentages and top five of the dashboard; fetches that fail.
Not modelled: registration, profile and the rows of refresh tokens (each call reads or
writes one row; section 7), metadata (constant tables), s3 (calls to AWS; a failed
upload is a failed call), the middlewares and `lib` of the back end (headers, error
format, encryption of fields), and the pages of login, search and lists.
