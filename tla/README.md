# Verification of the Evix store

TLA+ models of the store's backend (`src/app`, FastAPI + SQLAlchemy over
PostgreSQL, with Celery, Redis, the maib bank and the Nova Post carrier), the TLC
configurations that check them on small instances, and TLAPS proofs of the
properties that matter most for every size.

## 1. The system

| Part | State | Operations | What is hard about it |
|---|---|---|---|
| Checkout (`services/checkout_service.py`, `repositories/order_repo.py`) | stock rows, draft carts, orders | quote, checkout, quick buy | concurrent requests for the last units; a coupon counted and redeemed; row locks taken one by one; an HTTP call to the carrier while a coupon row is locked |
| Pricing (`checkout_service.py`, `promo_service.py`) | none | discount, delivery charge, total | rounding and thresholds at their boundaries |
| Promo codes (`promo_service.py`, `promo_repo.py`) | coupon rows; usage is *derived* by counting orders | validate, lock, create / edit / delete | limit races; the row disappearing between read and lock |
| Orders (`order_service.py`, `admin_order_service.py`) | two status axes, history rows | transition, the stock return after a cancel | racing transitions; a second transaction after the commit |
| Card payments (`services/payment`) | payment row, the bank's own record | open a payment, callback, refund | at-least-once callbacks, a refund whose record is lost |
| Waybills (`admin_order_service.py`, `services/delivery`, `tasks/novapost.py`) | carrier row, the carrier's own record | create, cancel, track by a periodic sweep | two different row locks for one order, answers lost in a timeout, a sweep without locks |
| Cart (`cart_service.py`) | draft carts of users and guests | add, update, remove, merge after login | the merge racing with edits, double creation |
| Admin catalogue (`admin_catalog_service.py`) | products, variants, translations, attributes, categories with denormalised paths, the card read model | save, publish, delete, move, generate variants | every save rebuilds cards from what it read; paths and combinations are tested and then written; no unique index knows either |
| Restock (`restock_service.py`, `tasks/restock.py`) | subscriptions | subscribe, unsubscribe, notify, sweep | the crossing from zero is read before it is written; a task enqueued before the commit; mails before the marking |
| Catalogue reading (`catalog_service.py`) | none | listing with a cursor, facets, related rail, product page, menu | pages turned while cards change; several readers of one denormalised row |
| Search (`search_service.py`, `search/es`, `tasks/es_sync.py`) | an index in Elasticsearch | reindex, query with fallback | the index lags behind the rows, tasks are lost or overtake each other, the engine fails between two pages |
| Reviews (`review_service.py`) | reviews, moderation state | submit, edit, delete, moderate | a judgement on a text that changed meanwhile |
| Support and Telegram (`support_service.py`, `tasks/support.py`) | conversations, messages, attachment files | webhook, open, reply, erase, purge, download | redelivered updates, a send before its commit, files erased while they are downloaded |
| Accounts (`auth_service.py`, `admin_settings_service.py`) | users, addresses, staff flags, revoked refresh tokens in Redis | register, login, refresh, logout, erase, manage staff | test-then-write revocation; erasure beside the account's own requests |
| Pages and banners (`content_page_service.py`, `banner_service.py`) | a row and one translation per language | create, update, reorder, delete | two saves of one document |
| Pictures (`core/storage.py`, `core/images.py`, the gallery) | objects, media rows, the cover on the cards | upload, remove, reorder, backfill | the store and the database fail separately |
| Consent, settings, dashboards, analytics, e-mail, scripts | rows written one at a time | inserts and reads | little: single-row writes and I/O |

How they interact: checkout takes units from the stock rows the catalogue
maintains, converts a cart, redeems a coupon and inserts an order; the same HTTP
request then opens a card payment in another transaction. From there the order
belongs to the state machine, driven by staff, by the bank's callbacks and by
refunds. Cancelling goes through the carrier first and returns the units last.
Celery beat runs the tracking sweep, the restock sweep, the purge of silent
conversations and the nightly reindex. Staff saves rebuild the cards the storefront
reads in the same transaction and enqueue a task for the search index after it;
stock that comes back, from staff or from a cancelled order, enqueues a restock task. All shared state is in PostgreSQL at READ
COMMITTED; the only mutual exclusion is `FOR UPDATE` and the row locks of
`UPDATE`. The hazards this gives rise to are listed, with the line where each
bites, in `PROJECT.json`.

What makes each modelled part correct: stock never goes below zero and an order
takes all of its units or none; a limited coupon is not on more orders than its
limit; statuses move along the tables and the audit trail replays; units and money
go back once; what the bank and the carrier did is what the shop's rows say, except
for as many cases as there were faults; whoever waits for a product, an answer or a
file gets it; what the storefront reads from denormalised copies (cards, paths, the
index, the cover) agrees with the rows they were made from once the writers are done;
nothing waits for ever.

## 2. Modules

| Module | Models |
|---|---|
| `Inventory` | the abstract promise about stock: take all or nothing, give back once; only the rows in `EditableSkus` may be overwritten, which is none of them where `OrderLifecycle` implements it |
| `Pricing` | the money arithmetic as operators (`_compute_discount`, `_quote_from_lines`, `_delivery_cost`) |
| `Checkout` | `checkout` and `quick_buy` as transactions, one action per statement that reads shared rows or may wait; cart edits, stock and coupon edits by staff; PostgreSQL's deadlock detector |
| `OrderLifecycle` | `OrderService.transition`, the callback, the refund, the post-commit stock return; the bank as an external actor |
| `Waybill` | `create_waybill`, `cancel_waybill`, the cancel of an order with a waybill, the declined callback, `novapost._sync`; the carrier as an external actor |
| `Cart` | the requests on a draft cart (`add_item`, `update_item`, `remove_item`, `merge_guest_into_user`) as transactions, and the checkout that converts a cart |
| `Restock` | subscriptions, staff saves and returns that bring units back, the notify task and the sweep, mails one by one, crashes |
| `Support` | one chat: Telegram's delivery, webhook requests, operators' requests, the purge, download workers, the object store |
| `Catalog` | one product: the saves of the back office, cards, search tasks, the nightly reindex |
| `Categories` | the tree: create, move, delete, switch off; menu, counts and pages read from it |
| `Variations` | attributes, values, axes and combinations of one product; the choices its page offers |
| `Listing` | the cursor over the cards, filters and facets, the related rail |
| `Search` | a search over several pages, both backends, the fallback |
| `Reviews` | submit, edit, delete, moderate, the public pages |
| `Accounts` | registration, addresses, erasure, staff flags |
| `Sessions` | login, refresh, logout and the blacklist |
| `Coupons` | creating, partially changing and deleting coupons |
| `Content` | banners and pages with their translations, home page and footer |
| `Pictures` | gallery, uploads, the object store, the backfill script |
| `Carrier` | the calls to Nova Post: lookups with their cache, the shared token, the quote, the names kept on an order |
| `Ordered` | what `ORDER BY`, `LIMIT` and a comprehension with a condition return, stated by counting the rows before a row, so that it can be reasoned about |
| `MC*` | instances for TLC |
| `MCStorefront` | the composition of the parts of the catalogue: `Listing`, `Categories`, `Variations`, `Reviews`, `Search` and `Pictures` |
| `MCOffice` | the composition of the parts around it: `MCPricing`, `Coupons`, `Accounts`, `Sessions`, `Content`, `Carrier` and `Restock` |
| `CheckoutProofs`, `CartProofs`, `OrderLifecycleProofs`, `WaybillProofs`, `SupportProofs`, `CatalogProofs`, `StorefrontProofs`, `OfficeProofs` | the theorems about the module of that name; the last two hold those about the parts of the two compositions |

**Transactions.** A request's steps are separate actions, so any interleaving
of statements of different requests is explored. What a transaction writes becomes
visible at its commit; until then the row is locked and readers see the committed
value. An `UPDATE ... WHERE qty >= n` on a locked row waits and then decides on the
value committed by then; on a free or held row whose committed value is too small it
matches nothing and the request rolls back. A rollback releases everything at once.

**Checkout.** `pc[r]` is the statement a request is at: `loaded` after the unlocked
read of the cart, `lock` before the coupon's `FOR UPDATE`, `count` before the count,
`priced` (delivery, order row), `convert` (the cart's `UPDATE`), `decrement` (one
stock row at a time in product order, `todo` and `line`), `placed` or `failed`.
`Abort` stands for everything that ends a transaction early: a refused delivery
choice, a carrier without a price, a lost connection. Renaming a coupon is the same
as deleting it for a request that has read it. A coupon outside its validity window
is an unusable one; `usage_limit` does not change while checkouts run.

**OrderLifecycle.** A worker is one HTTP request. It waits for the order's row, keeps
what it read then (`seen`, the SQLAlchemy object) and decides on that. `refund`
calls the bank with the row locked; a fault may strike after the bank acted.
`ReturnStock` is the side effect that runs after the commit. `maib` and `refunds`
are the bank's own truth, against which the shop's rows are compared. `apart` holds the
orders whose two rows may differ about a refund: staff declared it by a move of their own, or a
callback that had read the payment was under way when it was recorded. A callback
in the model is one whose signature is valid. `ReturnStock` gives every unit back: lines whose
goods were deleted meanwhile, which the code skips, do not occur.

**Waybill.** Staff lock the carrier's row, a cancel locks the order's row; the sweep
locks nothing until it writes. `parcel` is the carrier's own truth. Statuses are
reduced to *moving* and *finished*, which is all the sweep distinguishes. The carrier's answer
to a creation may hold no number, which counts as one of its faults.

**Cart.** A request takes the owner's draft cart `FOR UPDATE` (`Resolve`), reads the
lines it needs without locks (`seen`, the SQLAlchemy objects) and writes rows by key
(`pend`, private and locked until the commit). A cart or a line being inserted is
invisible to others. A flush that finds its row gone fails the request; so does a cart
deletion that the foreign key of a line forbids. A deleted line keeps its product, without
a cart (`Deleted`): its id is not given out again (`Free`, `FreeLines`). `Abort` covers a product that is not
for sale and a lost connection. A statement that waits for a cart decides on the rows
committed when it stops waiting.

**Restock.** `qty` is changed by staff (`StaffWrites`, then the message in
`StaffNotifies`), by returns (`ReadStock`, `CreditReturn`, `CommitReturn`: the zero test, the
update, the commit after the message) and by sales. A worker loads the waiters, mails them in any order and
marks those it mailed in one statement. `readable` is what `_load_slugs` finds: a waiter
whose language has no text is skipped. A subscription made anew has a new id.

**Support.** Telegram's view of an update (`tg`) is *due* until an answer of 200 reaches
it, so one update may be handled by two requests. A webhook request locks the
conversation's row when it writes it, not when it reads it. An operator's request opens
(clears the counter, then reads), replies (sends, then commits) or erases
(reads the keys, deletes, removes the objects one by one); the purge is an erasure
of a conversation that is not `recent`. Chats share no row, so one is modelled.

**Catalog.** A save is `Load` (its guards, on rows read once), `Write` (flush), `Clear`
(the cards' delete, which waits for another's), `Build` and `Commit`. A variant is enabled or disabled
by the value sent, whatever it was. What it loaded it
keeps, which is how a stale card comes about. A task reads its documents and writes them later; the
nightly one drops the index first. `index` holds the number of the save a document
shows, so older and newer can be told apart.

**Parts.** `MCStorefront` starts in one of six parts and `MCOffice` in one of seven, and stays
there, the variables of the others idle: these components share no row, so their interleavings
would only multiply states. `Restock` is a part for its safety; its liveness has a
run of its own, `MCRestock`. `Categories` spells paths as sequences, which the trees to start
with are given by, and lets a request work with the subtree it read; the menu is the least set that the
roots are in and that contains the children of what is in it; `Variations` and `Accounts`
split every request in a read and a write, SQLAlchemy
writing only attributes that changed. In `Accounts` a request about staff (`StaffChanges`) sets or clears
either flag or both, as `StaffUpdate` allows, or restores an account by its e-mail; `Hire` makes a new one.
`granted` holds the erased accounts staff gave the staff flag since. `Sessions` has the blacklist's test and its write
as two calls; `Coupons` and `Content` keep the loaded row and write the columns that
differ. A coupon's value is in thousandths, sent with any of them and kept to the cent (`Stored`). In `Listing` and `Search` relevance and attribute assignments are constants, and a page is one
step (a search two: the ranking, then the cards). For the related rail the search engine is asked for
`Limit * Factor` products and no more than `MaxCandidates`; the rail is as full as
those allow. In `Pictures` an object's name is a number,
`pixels` its real width, and each call to the store may be the last of its request.
The carrier is asked with the text as it was typed, and what it answers is cached under the folded one;
in `Carrier` each call to Redis and to Nova Post is a step that may fail; the clock's unit is
the token's 50 minutes, and no request lasts two of them. A request ends *answered*,
*unavailable* (502) or *broken* (an exception nobody caught).
History variables (`clashed`, `raced`, `overlapped`, `mixed`, `stale`, `crossed`, `blind`,
`twice`) say that two requests met on the same rows: the code has no lock there, and the
properties say what holds when they did not.

## 3. Runs

A property that joins several promises of one part is named for the part; its conjuncts,
defined and explained one by one in the module, stand in brackets.  The parts of
`MCStorefront` and `MCOffice` include the type invariants of the tree, the variants, the accounts
and the sessions, with the foreign keys of their rows.

| Run | Checks | Shows |
|---|---|---|
| `checkout_stock` | `NoOversell`, `AllOrNothing`, `EveryRequestEnds` | two carts and a quick buy over two variants of one product with 2 and 1 units, taken in opposite orders, while staff write quantities, switch a variant off and delete a coupon; deadlocks do form and are resolved |
| `checkout_promo` | `TypeOK`, `PromoLimit`, `NoWaitCycle` | two submits of one cart and a second cart over two products, a coupon limited to one order, an unlimited one with a minimum; coupons and a product switched on and off, carts edited |
| `lifecycle_races` | `TypeOK`, `RecordsAgree` (`HistoryReplays`, `PaymentMatchesOrder`, `RefundIsOnPayment`), `RefundedOncePerFault`, `LostReturnsAreFaults`, `LegalMoves`, `StockComesBackOnce` | three requests at once on one card order, moves on one and on both axes, one fault |
| `lifecycle_settles` | `OrdersSettle` (`CapturedIsRecorded`, `DeclinedCloses`, `CanceledReturns`) | liveness with two requests and one fault |
| `waybill_races` | `RowsAreSound` (`TypeOK`, `NoDeadReference`), `OrphansAreFaults`, `DeliveredIsShown` | two requests, two shipments, one fault, the sweep and a declined payment |
| `cart_merge` | `LinesAreSound` (`TypeOK`, `OneLinePerProduct`, `NoOrphanLines`), `AddCounts`, `MergedOnce`, `EveryRequestEnds` | a merge, possibly sent twice, against edits of the user's cart and of the guest's cart from another tab, and checkouts; the user has a cart with one of the guest's products, or none |
| `restock_alerts` | `WaitersAreTold` | liveness of the same instance as in `office`: whoever still waits when units are back is told |
| `support_desk` | `InboxIsSound` (`TypeOK`, `NothingHides`, `DoublesAreOverlaps`, `SentIsRecorded`), `FilesAreSound` (`FilesAreKnown`, `KeysLead`), `MessagesArrive` (`UpdatesAreKept`, `FilesArrive`) | one update that is a text, a file or a start, delivered to two requests at once, an operator or the purge, two downloads of two tries, two conversations in a row, one failure |
| `catalog_saves` | `PublicationIsSound` (`TypeOK`, `PublishedInBothLanguages`), `SavesAreSafe` (`LastVariantStays`, `LoneSaveHeals`), `IndexReturns` | two languages, two variants of different prices, two staff requests and two workers, three saves |
| `storefront` | `ListingTellsAll` (`UntouchedShownOnce`, `RailIsFull`, `FacetsPredict`) | three products, one per page, two cards rebuilt on the way, every sort and filter; every choice of cards for the rail and the facets |
| | `TreeIsSound` (with `CountMatchesPage`) | four categories in a chain or two trees, two requests, two commits |
| | `VariantsAreFound` (`VariantsAreTold`, `PageLeadsToVariants`), `GenerationCompletes` | two attributes, three values, three variants, three changes by two clerks |
| | `ReviewsAreSound` (`PublicWasRead`, `NewestShowsAll`) | two authors, two requests at once, three in all, pages of one |
| | `ResultsAreComplete` | five products, pages of two, two changes of catalogue, index or engine |
| | `PicturesAreWhole` (`ShownIsWhole`, `CoverIsFirst`, `PositionsDiffer`, `LeftoversAreFaults`) | two old pictures and two new, two requests at once, the backfill |
| `office` | `PricesAreFair` (`DiscountIsNearest`, `TotalIsFair`, `MoreGoodsNoDearerDelivery`) | discount, charge and total against reference definitions for amounts around every rounding and threshold boundary |
| | `CouponsAreSound` | two coupons, two officers, partial changes of type, value, window and code; values with thousandths, above a hundred and below half a cent |
| | `AccountsAreSafe` (`ErasedStaysErased`, `OneDefault`, `AWayIn`, `UsedRefreshStops`) | two users with two rows, two requests at once, each of every change of the two staff flags; three tokens of one user |
| | `PagesAreWhole` (`AsSaved`, `SameInEveryLanguage`, `FooterLinksOpen`) | two banners and two pages, two editors, three saves |
| | `CarrierIsBridged` (`FailuresAreFaults`, `AnswersFit`) | two requests at once, pickup points in two languages, a quote, an order's names; two events among failing calls, lost keys, dying tokens and time that passes |
| | `AlertsAreSound` (`TypeOK`, `SpentMeansTold`) | one customer and product; two workers, so that the task and the sweep overlap; a queue of one message, lost when the broker fails; two rows, so that a subscription is made anew; one crash |

One run shows that the code does not do what one of its own comments says; it is a
finding in `PROJECT.json` with the quoted line:

| Run | Counterexample |
|---|---|
| `lifecycle_terminal` | a duplicate OK callback that read *pending* before it waited commits after a refund; the payment goes from *refunded* back to *ok* |

**Bounds.** Three requests are enough for one to act between two steps of another
while a third waits; with two stock rows a request can hold one and wait for the
other, the smallest case of partial taking and of a circle. Scarce quantities (2 and
1) make the second and third request fail on different lines. Two shipments let a
row be re-used for another shipment. `MaxFaults` bounds crashes and lost answers
to one: the properties count faults, so one is where "at most as many as faults" can
first fail. `StockLevels`, `CartLevels`, `PromoEdits` and `Moves` bound what staff
and shoppers write. Workers are interchangeable in `lifecycle_races`, which uses
symmetry, and so are officers and requests in `office`; the runs with liveness do not. Deadlock checking is off throughout:
the system may come to rest when every request has been answered.

In `cart_merge` each of the three requests has its own small set of jobs (`Shopping`)
instead of symmetry, because the run checks liveness; there is a cart and a line row
for everything the requests can create.

In `restock_alerts`, `support_desk` and `catalog_saves` one product or chat is enough
because products and chats share no row. Three saves let one be wrong, one overlap it and
one heal it. In `MCStorefront` and `MCOffice` two requests overlap and a further one comes
after them in every part; the pages hold one or two rows, so that a walk has at least
three pages or a cursor in the middle of equal keys.

**Fairness.** A request that has begun goes on (WF): the event loop schedules it and
its HTTP calls have timeouts. PostgreSQL queues lock waiters, so a worker whose row is
free again and again gets it (SF on taking the lock). The deadlock detector runs
(WF). The bank repeats a callback until it is answered with a 200 (SF on a callback
being served). Beat runs the sweep every 30 minutes, and the carrier is not down at
every one of them (WF on reading, SF on asking and writing). The restock
sweep starts again and again (SF), a worker goes on with its task (WF) and a mail
that is tried for ever is not refused for ever (SF). Telegram repeats an update until it is
answered and some repetition is processed (SF); requests, operators' requests and
downloads that began go on (WF). In the catalogue a search task goes on (WF) and some
nightly reindex is written to its end (SF), because Elasticsearch is not down
every night. Nobody has to submit, edit, cancel, subscribe or fail.

## 4. Proofs

For every value of the constants (any number of requests, orders, products, codes):

| Theorem | States | Rests on |
|---|---|---|
| `CheckoutProofs!TypeCorrect` | `Spec => []TypeOK` | one step per action |
| `CheckoutProofs!StockInvariant`, `NeverOversold` | `[]StockInv`, `[]NoOversell` | `StockInv` |
| `CheckoutProofs!LimitHolds` | `[]PromoLimit`, if no coupon row is deleted | `PromoInv` |
| `CheckoutProofs!ImplementsInventory` | `Spec => AllOrNothing` | `StockInv` |
| `CheckoutProofs!NoCircularWait` | `[]NoWaitCycle`, if no two stock rows share a product | `LockOrder` |
| `CartProofs!LinesStaySound` | `[]LinesAreSound` | `CartInv` |
| `CartProofs!AdditionsCount` | `AddCounts`, an action property, if a token is merged into one user | `CartInv`, `UnitsInv` |
| `CartProofs!MergesHandOver` | `MergedOnce`, an action property, under the same hypothesis | `CartInv`, `UnitsInv` |
| `OrderLifecycleProofs!TypeCorrect` | `[](TypeOK /\ LockInv)` | `PlacedInv` |
| `OrderLifecycleProofs!MovesAreLegal` | `LegalMoves` | `LockInv` |
| `OrderLifecycleProofs!UnitsReturnOnce` | `[]ReturnedOnce` | `LockInv` |
| `OrderLifecycleProofs!RefundsAreAccounted` | `[]RefundedOncePerFault` | `RefundInv` |
| `OrderLifecycleProofs!ImplementsInventory` | `Spec => StockComesBackOnce` | `ReturnedOnce` |
| `OrderLifecycleProofs!RecordsStayInAgreement` | `[]RecordsAgree` | `RecordedInv`, `RefundedInv` |
| `OrderLifecycleProofs!LossesAreAccounted` | `[]LostReturnsAreFaults` | `LostInv` |
| `WaybillProofs!WaybillInvariant`, `RowsStaySound` | `[]RowsAreSound` | `WaybillInv` |
| `WaybillProofs!OrphansAccounted` | `[]OrphansAreFaults` | `WaybillInv`, `OrphanInv` |
| `SupportProofs!SupportInvariant`, `InboxStaysSound`, `FilesStaySound` | `[]InboxIsSound`, `[]FilesAreSound` | `SupportInv`, `FilesBorn` |
| `CatalogProofs!CatalogInvariant`, `PublicationStaysSound` | `[]PublicationIsSound` | `CatalogInv` |
| `CatalogProofs!SavesStaySafe` | `SavesAreSafe`, an action property | `CatalogInv` |
| `OfficeProofs!PricesStayFair` | `[]PricesAreFair` | arithmetic alone |
| `OfficeProofs!CouponsStaySound` | `[]CouponsAreSound` | `CouponInv` |
| `OfficeProofs!AccountsStaySafe` | `[]AccountsAreSafe` | `AccountInv`, `SessionInv` |
| `OfficeProofs!CarrierStaysBridged` | `[]CarrierIsBridged` | `CarrierInv` |
| `OfficeProofs!PagesStayWhole` | `[]PagesAreWhole` | `ContentInv` |
| `OfficeProofs!RestockInvariant`, `AlertsStaySound` | `[]AlertsAreSound` | `RestockInv` |
| `StorefrontProofs!ReviewsStaySound` | `[]ReviewsAreSound` | `ReviewInv` |
| `StorefrontProofs!PicturesStayWhole` | `[]PicturesAreWhole` | `PictureInv` |
| `StorefrontProofs!VariantsStayFound` | `[]VariantsAreFound` | `VaryInv` |
| `StorefrontProofs!GenerationIsComplete` | `GenerationCompletes`, an action property | `VaryInv` |
| `StorefrontProofs!TreeStaysSound` | `[]TreeIsSound` | `TreeInv` |
| `StorefrontProofs!ListingStaysComplete` | `[]ListingTellsAll` | `ListingInv` |
| `StorefrontProofs!ResultsStayComplete` | `[]ResultsAreComplete` | `HuntInv` |

* `NoOversell` alone is not inductive: the commit subtracts quantities checked
  several steps earlier. `StockInv` adds `TakenStockStays` (a taken row is locked by
  its taker and still covers the line) and that a transaction about to commit has
  taken every line. With it the commit is `Inventory`'s `Reserve` and every other
  step a stutter or a `SetQty`.
* `PromoLimit` needs `RedeemersSerialized`: from the count to the commit the request
  holds the coupon's row, and there is still room. It needs that the row exists,
  hence the theorem's hypothesis `"delete" \notin PromoEdits`; without it two
  checkouts that read the row before it went lock nothing and both redeem the last
  use. Counting uses that a commit adds at
  most one element to the finite set of redemptions.
* `NoWaitCycle` follows from the order in which rows are locked: the coupon, the cart, then
  stock by product id (`LockOrder`). In a circle everyone has somebody waiting behind it, and
  whoever waits for a holder of stock wants a smaller product than the holder does: the member that
  wants the smallest has nobody behind it
  (`OrderHasNoCycle`, by the least element of a set of naturals). Its hypothesis
  `OneRowPerProduct`, a shop of products without variants, is what the code's order needs: it
  sorts by product alone, and `checkout_stock` has the deadlocks of two variants taken in
  either order.
* `CartInv`: a line is inserted after a read that locks nothing, so that no cart gets two lines
  for a product is a matter of who may change it. The cart a request works on is locked, or
  not committed yet, and is no other request's (`MineInv`); a written row is one request's
  until its commit (`PendInv`); rows stay apart in whichever order the requests commit
  (`ApartInv`); and what the request read is still all there is in its cart (`SeenInv`).
  A merge enters lines in one cart, the user's, and that is no other merge's guest because
  no session token is a user id. It locks the guest's row last, when every line there
  is among those it wrote (`GuestInv`), so no line stays behind without a cart.
* `UnitsInv`: a row a request read without a lock still has the quantity it read when the request
  writes (`OwnInv`): whoever else would write it works on another cart of the same user, and
  can only move it there. Of the guest's lines a merge read, each is one it has still to fold,
  or moved, or gone with its units added to the user's line for the same thing (`FoldInv`). Once another
  merge has the guest's cart, none of its lines is left to be written (`TheirsInv`). A sum over the rows is the number of elements of a finite
  set of units, so that it grows by what one row grows (`UnitsGrow`). The hypothesis
  `OneUserPerToken` is what a browser does with its session cookie: logins of two accounts with one
  token at once could carry a line from one user's cart to the other's under the request that read it.
* `LegalMoves` needs `LockInv`: a worker past the lock holds it, and what it saw is
  what is stored. `PlacedInv` says that a payment the bank knows belongs to a placed order.
* `ReturnedOnce` is inductive given `LockInv`: only a legal move leads to `canceled`,
  nothing leads out of it, so at most one request owes the return.
* `RefundInv` ties the bank's count to the faults and to the one request that may be
  recording a refund.
* `RecordsAgree` needs that an order's history ends in the statuses of its row and that
  the payment row follows the bank's only through the callback and the refund (`RecordedInv`). `RefundedInv` adds that an order refunded
  and not `apart` has no callback under way that read its payment before: such a one
  would write *ok* over *refunded*, as in `lifecycle_terminal`.
  `LostInv` counts the units that no request owes any more: only a fault between the
  commit and the return makes one more.
* `WaybillInv`: an order's cancel and a waybill's creation take different locks, so what
  holds the rows together is what each request knows of its shipment once past its lock
  (`CallersKnow`, `CreatorsKnow`, `CancellersKnow`) and that two of them are never about to
  commit for one order (`CommittersApart`). `OrphanInv` counts shipments against lost answers.
* `RestockInv`: a task marks rows long after it mailed them. What it counts as mailed was
  mailed for the subscription with that id, and an id is never given twice.
* `SupportInv`: a message is on record once, unless two requests handle it at once, because
  a webhook request that has stored it holds the row until it commits; the counter is at
  least the messages nobody read. `FilesBorn` says that a stored file has a row, or a
  request or a download under way that will give it one or remove it, or a fault behind it.
* `CatalogInv`: a save decides on what it has read. The rule survives because texts only
  grow while a product is there, and because a save that commits cards holds them: two that
  each take the other's last variant would both hold the cards. `AloneFits` says that what
  a save knows is still so as long as it met no other. Tracking whom a save met
  (`met`) is what makes `LoneSaveHeals` an invariant's consequence.
* `CouponInv` speaks of the changes under way as well as of the rows; `AccountInv` sets apart
  requests that overlapped (`ApartInv`, `AloneInv`) and `StaffInv` keeps one active member
  of staff; `SessionInv` counts the pairs made of a token; `CarrierInv` says which answer each cache
  entry and each request holds and how old it is.
* `ContentInv`: a document in use has the texts of one save, in every language, and a save not
  stale wrote its columns too; a slug is tested under the unique index. So what the home page shows in one
  language it shows in all, and the page a footer link names is the one it was read from.
* `ReviewInv` says of every visit under way what it read, and of the reader that newest first
  it is past exactly the approved reviews above its cursor: new ids are larger than all the old ones, so
  what is written meanwhile falls behind the cursor and never between two pages.
* `PictureInv` keeps apart what each request works on (`GalleryInv`), says which objects an upload
  has put and that the copies come of the original (`StoreInv`, `WholeInv`), that positions
  stay apart while gallery requests do not overlap (`OrderInv`), and counts the originals nobody shows or works on
  against the faults (`LeftInv`): only a failing call makes one more.
* `VaryInv` needs, beside the foreign keys, that a lone request's reading is still so when it
  writes. A combination with one value of each axis differs from every other in some attribute, so one choice
  on the product's page leads to it alone. `GenerationCompletes` adds that the product of the
  values is not empty on any axis, by extending one value to a whole combination (`SomeCombination`).
* `TreeInv`: the paths are those of a tree (`Rooted`) and what a request has read of its
  branch is still so (`Knows`), as long as no two requests worked on related categories.
  A move puts a new beginning before what follows the old one (`Graft`) in exactly the
  paths that lead through the moved category; that the menu reaches each category shown is
  shown of a path's first step it does not reach.
* `ListingInv`: the order of a listing is total, because it ends with the id. Of the cards nobody
  touched those wanted are on the pages just when the walk is past their place (`ShownSoFar`), and the cursor
  stands at the last row shown. A page is the first rows behind the cursor; what is shown after it
  and was not before is what lies between the two cursors (`CursorStands`, `FurtherOn`, `PageKeeps`). The rail
  is full by cases on whether the engine's picks or the siblings are enough (`RailFull`); a facet's
  number counts the images of the cards the filter lets through.
* `HuntInv`: what a search has shown is what is on sale among the ranking's rows on
  the pages turned, and the backend of the first page is the one of the last. A code
  match comes first because no text ranks as high.
* `PricesAreFair` speaks of no step: rounding is shown to be the nearest whole number by
  division, and the delivery by the two sides of the threshold.

The assumptions on constants are named next to their declarations: finite sets of
requests and variants, `None` distinct from everything else, natural quantities and prices, finitely many carts and lines,
positive limits, at least one unit per order and one run per task, what staff may send
has the columns of a coupon, what the carrier is asked for has a known kind, carts are merged
from session tokens into user ids, and the carts to start with obey the foreign key and the
unique indexes. Of the compositions: authors, products and goods are numbers and finitely many; a
card's lowest price is not above its highest; a text's rank is below that of a code
match and the engine names a product once; a category tree to start with is one, each path leading
to its category; finitely many attributes have values; copies of a picture have a positive width;
banners and pages are different rows, and pages to start with differ in their slugs; what
staff may save has the columns of its table. TLC evaluates them in every run.

Where a proof found a definition that could not be reasoned about, the model was
restated and says the same of every state TLC sees: overlapping `CASE` guards
became `IF` (`Accounts`, `Pictures`), a merge of columns an operator of its own (`Coupons`),
the replay of a history a statement about its indices (`OrderLifecycle`), new carts and lines
chosen among those never used and a sum over rows the size of a set of units (`Cart`), an order a count of the rows before a row (`Ordered`, in `Listing` and
`Search`), the menu and the trees to start with without recursion (`Categories`),
the columns a save overlays a function over the documents (`Content`).

`TakenStockStays`, `RedeemersSerialized` and `ReturnedOnce` are proved and in no run of their own:
TLC sees what follows from them, `NoOversell`, `PromoLimit` and `StockComesBackOnce`.

Only model-checked: everything under fairness (`EveryRequestEnds`, `OrdersSettle`, `DeliveredIsShown`,
`WaitersAreTold`, `MessagesArrive`, `IndexReturns`), for liveness and `ENABLED` are beyond the
prover.

## 5. Assumed and left out

PostgreSQL at READ COMMITTED as described above. The bank settles a payment once and
refunds only money it captured; the carrier cancels only shipments under way.

Partly modelled: what each part leaves out is in its note in `PROJECT.json`. Not modelled
at all: consent and analytics (one insert each, no protocol), Celery, e-mail and configuration
(plumbing), the dashboards and lists (they read), the HTTP clients' signatures and maib's
token, which each request fetches for itself, migrations and the scripts other than the picture backfill.

Six things the code does were met while modelling and are behaviour of the models, without a property
that would state the opposite:

* Two first additions at once each create a draft cart, and two merges of a user
  without a cart do the same (`cart_service.py:91`): with no draft there is no row to
  lock, and no unique index. From then on every cart request of that owner raises.
  Until then nothing is lost: `LinesAreSound`, `AddCounts` and `MergedOnce` hold with two drafts too.
* The sweep stores the answer for a cancelled shipment on the row of its replacement
  (`tasks/novapost.py:98`), which leaves the sweep while it is under way.
* A Redis that fails breaks the carrier's lookups and quotes: `_token` reads and writes the token
  there without catching anything (`novapost_client.py:200`, `:217`), although docs/DELIVERY.md:142-143
  and `novapost_service.py:11-12` say that an outage of Redis costs only the cache. In
  `Carrier` such a request ends *broken*.
* A declined payment on an order with a waybill raises at every repetition of the callback
  (`order_service.py:362`, no carrier client); the order is never canceled.
* A coupon of 0.001 passes `gt=0` (`schemas/admin_promo.py:33`, `:61`) and is kept as 0.00 in a column of two
  decimals (`models/promo.py:41`), although the field's description asks for more than zero.
* A `PATCH` of `is_staff` alone gives an erased account the staff flag back
  (`admin_settings_service.py:187`) and leaves the account off; nobody can act for it.

Others of the kind, where a property is stated with the exception the code calls for: two
uses of one refresh token at once both succeed; two partial changes of a coupon can leave
a percentage of 150; two moves can tie the category tree into a knot; a text
edited while it is judged may become public unread; a staff member who erases the
own account may be the last one; reviews sorted by rating skip rows between pages, because the
cursor is an id; a card says *in stock* until the next save; copies of a removed picture stay in the
store; an index that answers and is empty finds nothing.

Two submits of one cart give two orders: the code does not promise
otherwise, so the model allows it and the run shows that both orders take their units.
A payment captured for an order that staff had canceled makes it *canceled* and *paid*;
staff refund it by hand. `create_waybill` never looks at the order's status, so a canceled
order can get a shipment; the model has that step and no property forbids it. What a
guest's line gains between the merge's read and its write goes with the line. A card order whose buyer never returns keeps its units until
staff cancel it.

## 6. Plan

Done: every module of section 2, and the proofs of section 4. Next, in order of importance:

1. The composition of `Restock` with the stock of `OrderLifecycle`, and of `Carrier` with
   `Checkout` and `Waybill`.
2. The rate limit of the lookups.
