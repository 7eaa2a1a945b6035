------------------------------ MODULE Checkout ------------------------------
(***************************************************************************)
(* POST /checkout and POST /orders/quick against PostgreSQL at READ         *)
(* COMMITTED.  Every request is one transaction: it reads its lines without *)
(* a lock, takes the coupon row as a mutex, prices delivery (an HTTP call   *)
(* made while that mutex is held), converts the cart, and takes the stock   *)
(* rows one conditional UPDATE at a time.  A row written by an open         *)
(* transaction is locked and keeps its committed value for every reader     *)
(* until Commit, so the writes appear only there.                           *)
(***************************************************************************)
EXTENDS Pricing, FiniteSets, FiniteSetsExt, Functions

CONSTANTS
  Requests,    \* the requests; a request creates at most one order
  Skus,        \* stock rows: simple products and variants
  ProductId,   \* the product id of each stock row, the lines' sort key
  Price,       \* unit price of each stock row, in bani
  Carts,
  CartOf,      \* the cart a request checks out, None for quick buy
  QuickLines,  \* what a quick buy asks for
  Codes,
  CodeOf,      \* the coupon a request carries, or None
  Promo,       \* [type, value, minOrder, limit] of each coupon
  StartQty, StartCart,
  EditableSkus, \* the stock rows the back office edits
  StockLevels,  \* quantities it may write into them
  CartLevels,   \* quantities a shopper may write into a cart line, 0 removes it
  PromoEdits    \* the coupon edits the back office may make: "toggle", "delete"

ASSUME NoneAssumption == None \notin Requests \cup Carts \cup Codes \cup Skus
ASSUME RequestsAssumption == IsFiniteSet(Requests)
ASSUME BindingAssumption ==
  /\ CartOf \in [Requests -> Carts \cup {None}]
  /\ CodeOf \in [Requests -> Codes \cup {None}]
  /\ QuickLines \in [Requests -> [Skus -> Nat]]
ASSUME CatalogAssumption ==
  /\ ProductId \in [Skus -> Nat]
  /\ Price \in [Skus -> Nat]
  /\ StartQty \in [Skus -> Nat]
  /\ StartCart \in [Carts -> [Skus -> Nat]]
  /\ EditableSkus \subseteq Skus
  /\ StockLevels \subseteq Nat
  /\ CartLevels \subseteq Nat
ASSUME PromoAssumption ==
  \A c \in Codes : /\ Promo[c].type \in {"percent", "fixed"}
                   /\ Promo[c].value \in Nat \ {0}
                   /\ Promo[c].minOrder \in Nat \cup {None}
                   /\ Promo[c].limit # None => Promo[c].limit \in Nat \ {0}

VARIABLES
  qty,          \* committed stock rows
  active,       \* is_active of each stock row (product and variant)
  cartStatus,   \* "draft" | "converted"
  cartLines,    \* quantity of each stock row in each cart
  promo,        \* [exists, usable] of each coupon row
  promoLock, cartLock, stockLock,   \* who holds each row lock, or None
  pc,           \* where each request is
  lines,        \* the lines a request loaded; the order's lines once placed
  applied,      \* the coupon stored on the request's order, or None
  todo,         \* lines whose stock is still to be taken
  line          \* the line being taken

dbVars == <<qty, active, cartStatus, cartLines, promo>>
lockVars == <<promoLock, cartLock, stockLock>>
reqVars == <<pc, lines, applied, todo, line>>
vars == <<qty, active, cartStatus, cartLines, promo,
          promoLock, cartLock, stockLock, pc, lines, applied, todo, line>>

NoUnits == [s \in Skus |-> 0]
Steps == {"idle", "loaded", "lock", "count", "priced", "convert", "decrement",
          "placed", "failed"}
InTransaction == {"loaded", "lock", "count", "priced", "convert", "decrement"}

Init ==
  /\ qty = StartQty
  /\ active = [s \in Skus |-> TRUE]
  /\ cartStatus = [c \in Carts |-> "draft"]
  /\ cartLines = StartCart
  /\ promo = [c \in Codes |-> [exists |-> TRUE, usable |-> TRUE]]
  /\ promoLock = [c \in Codes |-> None]
  /\ cartLock = [c \in Carts |-> None]
  /\ stockLock = [s \in Skus |-> None]
  /\ pc = [r \in Requests |-> "idle"]
  /\ lines = [r \in Requests |-> NoUnits]
  /\ applied = [r \in Requests |-> None]
  /\ todo = [r \in Requests |-> {}]
  /\ line = [r \in Requests |-> None]

-----------------------------------------------------------------------------
\* Helpers

Released(locks, r) == [k \in DOMAIN locks |-> IF locks[k] = r THEN None ELSE locks[k]]

\* Fault: stock rows stay locked after the transaction.
ReleaseLocksButStock(r) ==
  /\ promoLock' = Released(promoLock, r)
  /\ cartLock' = Released(cartLock, r)
  /\ UNCHANGED stockLock

\* The end of the transaction frees every row it locked.
ReleaseLocks(r) ==
  /\ promoLock' = Released(promoLock, r)
  /\ cartLock' = Released(cartLock, r)
  /\ stockLock' = Released(stockLock, r)

\* A refused request rolls back: nothing it wrote remains.
Rollback(r) ==
  /\ pc' = [pc EXCEPT ![r] = "failed"]
  /\ lines' = [lines EXCEPT ![r] = NoUnits]
  /\ applied' = [applied EXCEPT ![r] = None]
  /\ todo' = [todo EXCEPT ![r] = {}]
  /\ line' = [line EXCEPT ![r] = None]
  /\ ReleaseLocks(r)
  /\ UNCHANGED dbVars

Goto(r, step) == pc' = [pc EXCEPT ![r] = step]

\* What the request asks for, less the lines whose product or variant is off.
Wanted(r) == IF CartOf[r] = None THEN QuickLines[r] ELSE cartLines[CartOf[r]]
Purchasable(r) == [s \in Skus |-> IF active[s] THEN Wanted(r)[s] ELSE 0]

Subtotal(ls) == SumFunction([s \in Skus |-> Price[s] * ls[s]])

DiscountOf(r) == ComputeDiscount(Promo[CodeOf[r]], Subtotal(lines[r]))

\* A coupon that takes nothing off is not stored on the order.
AppliedCode(r) == IF DiscountOf(r) > 0 THEN CodeOf[r] ELSE None

\* Orders that carry the coupon's text.  Cancelled orders keep counting.
Redemptions(c) == {r \in Requests : pc[r] = "placed" /\ applied[r] = c}

\* Fault: lines are taken in any order.
NextLinesUnordered(todos) == todos

\* Lines are taken in product order; variants of one product come in any order.
NextLines(todos) == {s \in todos : \A t \in todos : ProductId[s] =< ProductId[t]}

-----------------------------------------------------------------------------
\* The transaction, one action per statement that reads shared rows or waits

\* Read the cart and its lines: no cart, nothing purchasable or a line above
\* the shelf refuses.
LoadLines(r) ==
  /\ pc[r] = "idle"
  /\ IF \/ CartOf[r] # None /\ cartStatus[CartOf[r]] # "draft"
        \/ Purchasable(r) = NoUnits
        \/ \E s \in Skus : Purchasable(r)[s] > qty[s]
     THEN Rollback(r)
     ELSE /\ lines' = [lines EXCEPT ![r] = Purchasable(r)]
          /\ Goto(r, "loaded")
          /\ UNCHANGED <<dbVars, lockVars, applied, todo, line>>

\* A coupon unusable as read: unknown, off or out of its window, or the cart is
\* below its minimum.
PromoRefused(r) ==
  LET c == CodeOf[r]
  IN  \/ ~ promo[c].exists
      \/ ~ promo[c].usable
      \/ Promo[c].minOrder # None /\ Subtotal(lines[r]) < Promo[c].minOrder

\* The delivery choice is valid and the coupon row is read, without a lock.
ValidatePromo(r) ==
  /\ pc[r] = "loaded"
  /\ IF CodeOf[r] = None
     THEN Goto(r, "priced") /\ UNCHANGED <<dbVars, lockVars, lines, applied, todo, line>>
     ELSE IF PromoRefused(r) THEN Rollback(r)
     ELSE IF Promo[CodeOf[r]].limit # None
     THEN Goto(r, "lock") /\ UNCHANGED <<dbVars, lockVars, lines, applied, todo, line>>
     ELSE /\ applied' = [applied EXCEPT ![r] = AppliedCode(r)]
          /\ Goto(r, "priced")
          /\ UNCHANGED <<dbVars, lockVars, lines, todo, line>>

\* SELECT ... FOR UPDATE on the coupon row; a row that is gone locks nothing.
LockPromo(r) ==
  LET c == CodeOf[r]
  IN  /\ pc[r] = "lock"
      /\ promoLock[c] = None
      /\ promoLock' = IF promo[c].exists THEN [promoLock EXCEPT ![c] = r] ELSE promoLock
      /\ Goto(r, "count")
      /\ UNCHANGED <<dbVars, cartLock, stockLock, lines, applied, todo, line>>

\* Fault: the limit is off by one.
CountRedemptionsOneTooMany(r) ==
  /\ pc[r] = "count"
  /\ IF Cardinality(Redemptions(CodeOf[r])) > Promo[CodeOf[r]].limit
     THEN Rollback(r)
     ELSE /\ applied' = [applied EXCEPT ![r] = AppliedCode(r)]
          /\ Goto(r, "priced")
          /\ UNCHANGED <<dbVars, lockVars, lines, todo, line>>

\* Count the committed orders that redeemed the coupon.
CountRedemptions(r) ==
  LET c == CodeOf[r]
  IN  /\ pc[r] = "count"
      /\ IF Cardinality(Redemptions(c)) >= Promo[c].limit
         THEN Rollback(r)
         ELSE /\ applied' = [applied EXCEPT ![r] = AppliedCode(r)]
              /\ Goto(r, "priced")
              /\ UNCHANGED <<dbVars, lockVars, lines, todo, line>>

\* Delivery is priced (the carrier may have to be asked), the order row inserted.
PriceAndInsert(r) ==
  /\ pc[r] = "priced"
  /\ Goto(r, "convert")
  /\ UNCHANGED <<dbVars, lockVars, lines, applied, todo, line>>

\* UPDATE cart SET status = 'converted' WHERE id = ...: waits for the row, asks
\* nothing about its status.  A quick buy has no cart.
ConvertCart(r) ==
  /\ pc[r] = "convert"
  /\ CartOf[r] # None => cartLock[CartOf[r]] = None
  /\ cartLock' = [c \in Carts |-> IF c = CartOf[r] THEN r ELSE cartLock[c]]
  /\ todo' = [todo EXCEPT ![r] = {s \in Skus : lines[r][s] > 0}]
  /\ \E s \in NextLines(todo'[r]) : line' = [line EXCEPT ![r] = s]
  /\ Goto(r, "decrement")
  /\ UNCHANGED <<dbVars, promoLock, stockLock, lines, applied>>

\* Fault: the UPDATE has no WHERE qty >= n.
DecrementStockUnguarded(r) ==
  /\ pc[r] = "decrement"
  /\ line[r] # None
  /\ stockLock[line[r]] = None
  /\ stockLock' = [stockLock EXCEPT ![line[r]] = r]
  /\ todo' = [todo EXCEPT ![r] = @ \ {line[r]}]
  /\ \/ /\ todo'[r] = {}
        /\ line' = [line EXCEPT ![r] = None]
     \/ \E t \in NextLines(todo'[r]) : line' = [line EXCEPT ![r] = t]
  /\ UNCHANGED <<dbVars, promoLock, cartLock, pc, lines, applied>>

\* UPDATE ... SET qty = qty - n WHERE qty >= n: takes the row when free and
\* sufficient; the committed value decides, a row another request holds waits.
DecrementStock(r) ==
  LET s == line[r]
  IN  /\ pc[r] = "decrement"
      /\ s # None
      /\ \/ /\ qty[s] < lines[r][s]
            /\ Rollback(r)
         \/ /\ qty[s] >= lines[r][s]
            /\ stockLock[s] = None
            /\ stockLock' = [stockLock EXCEPT ![s] = r]
            /\ todo' = [todo EXCEPT ![r] = @ \ {s}]
            /\ \/ /\ todo'[r] = {}
                  /\ line' = [line EXCEPT ![r] = None]
               \/ \E t \in NextLines(todo'[r]) : line' = [line EXCEPT ![r] = t]
            /\ UNCHANGED <<dbVars, promoLock, cartLock, pc, lines, applied>>

\* Fault: every line takes one unit whatever its quantity.
CommitOneUnit(r) ==
  /\ pc[r] = "decrement"
  /\ line[r] = None
  /\ Goto(r, "placed")
  /\ qty' = [s \in Skus |-> IF lines[r][s] > 0 THEN qty[s] - 1 ELSE qty[s]]
  /\ cartStatus' = [c \in Carts |-> IF c = CartOf[r] THEN "converted" ELSE cartStatus[c]]
  /\ ReleaseLocks(r)
  /\ UNCHANGED <<active, cartLines, promo, lines, applied, todo, line>>

\* The order, its lines, the converted cart and the taken stock become visible.
Commit(r) ==
  /\ pc[r] = "decrement"
  /\ line[r] = None
  /\ Goto(r, "placed")
  /\ qty' = [s \in Skus |-> qty[s] - lines[r][s]]
  /\ cartStatus' = [c \in Carts |-> IF c = CartOf[r] THEN "converted" ELSE cartStatus[c]]
  /\ ReleaseLocks(r)
  /\ UNCHANGED <<active, cartLines, promo, lines, applied, todo, line>>

\* Whatever ends an open transaction early: a refused delivery choice, a carrier
\* that gives no price, a lost connection, a killed worker.
Abort(r) ==
  /\ pc[r] \in InTransaction
  /\ Rollback(r)

-----------------------------------------------------------------------------
\* Waiting and the deadlock detector of the database

\* Whose lock keeps r from its next statement, or None.
Blocker(r) ==
  CASE pc[r] = "lock" -> promoLock[CodeOf[r]]
    [] pc[r] = "convert" /\ CartOf[r] # None -> cartLock[CartOf[r]]
    [] pc[r] = "decrement" /\ line[r] # None ->
         IF qty[line[r]] >= lines[r][line[r]] THEN stockLock[line[r]] ELSE None
    [] OTHER -> None

WaitCycles == {S \in SUBSET Requests : S # {} /\ {Blocker(r) : r \in S} = S}

\* PostgreSQL aborts a transaction that waits for itself.
DeadlockAbort(r) ==
  /\ \E S \in WaitCycles : r \in S
  /\ Rollback(r)

-----------------------------------------------------------------------------
\* Other writers of the same rows, each a short transaction of its own

\* PATCH /admin/products, /admin/variants: an absolute quantity.
AdminSetQty(s, n) ==
  /\ stockLock[s] = None
  /\ qty' = [qty EXCEPT ![s] = n]
  /\ UNCHANGED <<active, cartStatus, cartLines, promo, lockVars, reqVars>>

AdminToggleActive(s) ==
  /\ stockLock[s] = None
  /\ active' = [active EXCEPT ![s] = ~ @]
  /\ UNCHANGED <<qty, cartStatus, cartLines, promo, lockVars, reqVars>>

\* PATCH /admin/promos (is_active, window) and the window opening or closing.
AdminTogglePromo(c) ==
  /\ "toggle" \in PromoEdits
  /\ promo[c].exists
  /\ promoLock[c] = None
  /\ promo' = [promo EXCEPT ![c].usable = ~ @]
  /\ UNCHANGED <<qty, active, cartStatus, cartLines, lockVars, reqVars>>

\* DELETE /admin/promos; a rename is the same to a request that has read the row.
AdminDeletePromo(c) ==
  /\ "delete" \in PromoEdits
  /\ promo[c].exists
  /\ promoLock[c] = None
  /\ promo' = [promo EXCEPT ![c].exists = FALSE]
  /\ UNCHANGED <<qty, active, cartStatus, cartLines, lockVars, reqVars>>

EditCartSubtract(c, s, n) ==
  /\ cartStatus[c] = "draft"
  /\ cartLock[c] = None
  /\ cartLines' = [cartLines EXCEPT ![c][s] = @ - n]
  /\ UNCHANGED <<qty, active, cartStatus, promo, lockVars, reqVars>>

\* POST, PATCH and DELETE /cart/items: lock the draft cart, write one line.
EditCart(c, s, n) ==
  /\ cartStatus[c] = "draft"
  /\ cartLock[c] = None
  /\ cartLines' = [cartLines EXCEPT ![c][s] = n]
  /\ UNCHANGED <<qty, active, cartStatus, promo, lockVars, reqVars>>

-----------------------------------------------------------------------------
Advance(r) ==
  \/ LoadLines(r)
  \/ ValidatePromo(r)
  \/ LockPromo(r)
  \/ CountRedemptions(r)
  \/ PriceAndInsert(r)
  \/ ConvertCart(r)
  \/ DecrementStock(r)
  \/ Commit(r)

Next ==
  \/ \E r \in Requests : Advance(r) \/ Abort(r) \/ DeadlockAbort(r)
  \/ \E s \in EditableSkus : \/ AdminToggleActive(s)
                            \/ \E n \in StockLevels : AdminSetQty(s, n)
  \/ \E c \in Codes : AdminTogglePromo(c) \/ AdminDeletePromo(c)
  \/ \E c \in Carts, s \in Skus, n \in CartLevels : EditCart(c, s, n)

Spec == Init /\ [][Next]_vars

\* A running request is scheduled, its external calls time out, and the database
\* resolves deadlocks; nobody has to submit, edit or fail.
FairSpec ==
  /\ Spec
  /\ \A r \in Requests : /\ WF_vars(pc[r] # "idle" /\ Advance(r))
                         /\ WF_vars(DeadlockAbort(r))

-----------------------------------------------------------------------------
\* Properties

\* Every variable has its type; the taken stock is an integer, not yet a natural.
TypeOK ==
  /\ qty \in [Skus -> Int]
  /\ active \in [Skus -> BOOLEAN]
  /\ cartStatus \in [Carts -> {"draft", "converted"}]
  /\ cartLines \in [Carts -> [Skus -> Nat]]
  /\ promo \in [Codes -> [exists : BOOLEAN, usable : BOOLEAN]]
  /\ promoLock \in [Codes -> Requests \cup {None}]
  /\ cartLock \in [Carts -> Requests \cup {None}]
  /\ stockLock \in [Skus -> Requests \cup {None}]
  /\ pc \in [Requests -> Steps]
  /\ lines \in [Requests -> [Skus -> Nat]]
  /\ applied \in [Requests -> Codes \cup {None}]
  /\ todo \in [Requests -> SUBSET Skus]
  /\ line \in [Requests -> Skus \cup {None}]

\* No stock row ever goes below zero, whatever requests overlap and whatever the
\* back office writes meanwhile (the conditional UPDATE of decrement_stock; the
\* schema has no CHECK that would stop it).
NoOversell == \A s \in Skus : qty[s] >= 0

\* A usage-limited coupon is on at most usage_limit orders, however many
\* checkouts redeem it at once (lock_by_code taken before count_orders_using).
PromoLimit ==
  \A c \in Codes : Promo[c].limit # None => Cardinality(Redemptions(c)) =< Promo[c].limit

\* A stock row a request has taken is its own until the transaction ends: the row
\* stays locked and still covers the line, so the commit can subtract it.
TakenStockStays ==
  \A r \in Requests : pc[r] = "decrement" =>
    \A s \in Skus \ todo[r] :
      lines[r][s] > 0 => stockLock[s] = r /\ qty[s] >= lines[r][s]

\* From the count to the commit a redeemer of a limited coupon is alone, and the
\* redemption it counted room for is still free when it commits.
RedeemersSerialized ==
  \A r \in Requests :
    /\ CodeOf[r] # None
    /\ Promo[CodeOf[r]].limit # None
    /\ pc[r] \in {"count", "priced", "convert", "decrement"}
    => /\ promoLock[CodeOf[r]] = r
       /\ pc[r] = "count" \/ Cardinality(Redemptions(CodeOf[r])) < Promo[CodeOf[r]].limit

\* Overlapping checkouts never wait for each other in a circle: coupon, cart and
\* stock rows are taken in one order, the stock rows by product id.
NoWaitCycle == WaitCycles = {}

\* A request that has begun ends: it is never stuck behind locks, also when the
\* variants of one product are taken in opposite orders.
EveryRequestEnds ==
  \A r \in Requests : pc[r] # "idle" ~> pc[r] \in {"placed", "failed"}

\* Seen from outside, an order takes all its units in one step or none of them:
\* Checkout implements Inventory.
Stock == INSTANCE Inventory WITH
  Orders <- Requests,
  held <- [r \in Requests |-> IF pc[r] = "placed" THEN lines[r] ELSE NoUnits],
  phase <- [r \in Requests |-> IF pc[r] = "placed" THEN "held" ELSE "none"]

AllOrNothing == Stock!Spec
=============================================================================
