-------------------------------- MODULE Cart --------------------------------
(***************************************************************************)
(* The draft carts of shoppers and guests: adding, setting and removing a  *)
(* line, and folding a guest's cart into the user's after login.  Every    *)
(* request is one transaction.  It takes the owner's draft cart FOR UPDATE *)
(* (or creates one, which nobody else sees before the commit), reads the   *)
(* lines it needs, and writes them by primary key: a written row is locked *)
(* until the commit, and other readers still see its committed value.      *)
(***************************************************************************)
EXTENDS Naturals, FiniteSets

CONSTANTS
  Requests,
  Jobs,      \* what each request may ask for: sets of [kind, owner, sku, n, token]
  Owners,    \* user ids and session tokens
  Skus,      \* what a line is for: a simple product or a variant
  Carts,     \* cart rows; bounds the carts ever created
  Lines,     \* cart_item rows; bounds the lines ever created
  Starts,    \* the committed states to start from: [cart, lines]
  None

ASSUME TablesAssumption == IsFiniteSet(Carts) /\ IsFiniteSet(Lines)
ASSUME NoneAssumption == None \notin Requests \cup Owners \cup Carts \cup Lines \cup Skus
ASSUME JobsAssumption ==
  \A r \in Requests : \A j \in Jobs[r] :
                  /\ j.kind \in {"add", "set", "remove", "merge"}
                  /\ j.owner \in Owners
                  /\ j.sku \in IF j.kind = "merge" THEN {None} ELSE Skus
                  /\ j.n \in Nat \ {0}
                  /\ j.token \in IF j.kind = "merge" THEN Owners ELSE {None}
\* A cart is merged from a session token into a user id: no token is also such an owner.
ASSUME TokensAssumption ==
  \A q, r \in Requests : \A j \in Jobs[q], k \in Jobs[r] :
    j.kind = "merge" /\ k.kind = "merge" => j.token # k.owner

Steps == {"idle", "resolve", "read", "write", "guest", "load", "fold", "commit", "done", "failed"}
CartRow == [owner : Owners \cup {None}, status : {"unused", "draft", "converted", "deleted"}]
LineRow == [cart : Carts \cup {None}, sku : Skus \cup {None}, qty : Nat]

\* What is there to start with obeys the foreign key and the unique indexes.
ASSUME StartsAssumption ==
  \A start \in Starts :
    /\ start.cart \in [Carts -> CartRow] /\ start.lines \in [Lines -> LineRow]
    /\ \A l \in Lines : start.lines[l].cart # None =>
         /\ start.cart[start.lines[l].cart].status \in {"draft", "converted"}
         /\ start.lines[l].sku # None
         /\ \A m \in Lines \ {l} : start.lines[m].cart = start.lines[l].cart =>
              start.lines[m].sku # start.lines[l].sku

VARIABLES
  cart,      \* cart rows: [owner, status], status "unused" before the insert
  lines,     \* cart_item rows: [cart, sku, qty], cart None when there is none
  cartLock,  \* who holds each cart row
  pc, job,
  mine,      \* the cart a request works on
  isNew,     \* whether it is one the request is creating
  guest,     \* the guest cart a merge read, or None
  seen,      \* the lines a request read: row -> [cart, sku, qty]
  todo,      \* guest lines a merge has still to fold
  pend       \* the rows a request wrote: row -> new value; their row locks

rowVars == <<cart, lines>>
reqVars == <<job, mine, isNew, guest, seen, todo, pend>>
vars == <<cart, lines, cartLock, pc, job, mine, isNew, guest, seen, todo, pend>>

Free == [cart |-> None, sku |-> None, qty |-> 0]
Empty == [l \in {} |-> Free]
NoJob == [kind |-> "none", owner |-> None, sku |-> None, n |-> 0, token |-> None]

Init ==
  /\ \E start \in Starts : cart = start.cart /\ lines = start.lines
  /\ cartLock = [c \in Carts |-> None]
  /\ pc = [r \in Requests |-> "idle"]
  /\ job = [r \in Requests |-> NoJob]
  /\ mine = [r \in Requests |-> None]
  /\ isNew = [r \in Requests |-> FALSE]
  /\ guest = [r \in Requests |-> None]
  /\ seen = [r \in Requests |-> Empty]
  /\ todo = [r \in Requests |-> {}]
  /\ pend = [r \in Requests |-> Empty]

-----------------------------------------------------------------------------
\* Helpers

Goto(r, step) == pc' = [pc EXCEPT ![r] = step]

\* The draft carts an owner's query finds.
Drafts(o) == {c \in Carts : cart[c] = [owner |-> o, status |-> "draft"]}
\* Ids for the next cart and the next line: not used before, also not by an insert that
\* is not committed.
FreeCarts == {c \in Carts : cart[c].status = "unused" /\ \A q \in Requests : mine[q] # c}
NewCart == CHOOSE c \in FreeCarts : TRUE
LineOf(c, s) == {l \in Lines : lines[l].cart = c /\ lines[l].sku = s}
LinesIn(c) == {l \in Lines : lines[l].cart = c}
FreeLines == {l \in Lines : lines[l] = Free /\ \A q \in Requests : l \notin DOMAIN pend[q]}
NewLine == CHOOSE l \in FreeLines : TRUE
\* A row that is deleted: its id is not used again.
Deleted(l) == [cart |-> None, sku |-> lines[l].sku, qty |-> 0]
Unlocked(l, r) == \A q \in Requests \ {r} : l \notin DOMAIN pend[q]

\* Mutant: the cart row stays locked when the request is over.
EndKeepingLocks(r, how) ==
  /\ Goto(r, how)
  /\ mine' = [mine EXCEPT ![r] = None]
  /\ isNew' = [isNew EXCEPT ![r] = FALSE]
  /\ guest' = [guest EXCEPT ![r] = None]
  /\ seen' = [seen EXCEPT ![r] = Empty]
  /\ todo' = [todo EXCEPT ![r] = {}]
  /\ pend' = [pend EXCEPT ![r] = Empty]
  /\ UNCHANGED <<cartLock, job>>

\* The request ends: its locks go, and what it did not commit is forgotten.
End(r, how) ==
  /\ Goto(r, how)
  /\ cartLock' = [c \in Carts |-> IF cartLock[c] = r THEN None ELSE cartLock[c]]
  /\ mine' = [mine EXCEPT ![r] = None]
  /\ isNew' = [isNew EXCEPT ![r] = FALSE]
  /\ guest' = [guest EXCEPT ![r] = None]
  /\ seen' = [seen EXCEPT ![r] = Empty]
  /\ todo' = [todo EXCEPT ![r] = {}]
  /\ pend' = [pend EXCEPT ![r] = Empty]
  /\ UNCHANGED job

Fail(r) == End(r, "failed") /\ UNCHANGED rowVars

\* Rows w written over the rows f.
Over(w, f) == [l \in DOMAIN w \cup DOMAIN f |-> IF l \in DOMAIN w THEN w[l] ELSE f[l]]

\* The request's writes so far, on top of what it wrote before.
Wrote(r, w) == pend' = [pend EXCEPT ![r] = Over(w, @)]

-----------------------------------------------------------------------------
\* The owner's cart

Begin(r, j) ==
  /\ pc[r] = "idle"
  /\ Goto(r, "resolve")
  /\ job' = [job EXCEPT ![r] = j]
  /\ UNCHANGED <<rowVars, cartLock, mine, isNew, guest, seen, todo, pend>>

\* Mutant: the draft cart is read without FOR UPDATE.
ResolveWithoutLock(r) ==
  LET drafts == Drafts(job[r].owner)
  IN  /\ pc[r] = "resolve"
      /\ \/ Cardinality(drafts) # 1 /\ Fail(r)
         \/ /\ Cardinality(drafts) = 1
            /\ mine' = [mine EXCEPT ![r] = CHOOSE c \in drafts : TRUE]
            /\ Goto(r, CASE job[r].kind = "merge" -> "guest"
                         [] job[r].kind = "remove" -> "write"
                         [] OTHER -> "read")
            /\ UNCHANGED <<rowVars, cartLock, job, isNew, guest, seen, todo, pend>>

\* _get_cart, _get_or_create_cart with for_update: waits for the draft cart and
\* locks it.  Two drafts make the query raise; without one an addition or a merge
\* creates it, the others are refused.
Resolve(r) ==
  LET drafts == Drafts(job[r].owner)
      next == CASE job[r].kind = "merge" -> "guest"
                [] job[r].kind = "remove" -> "write"
                [] OTHER -> "read"
  IN  /\ pc[r] = "resolve"
      /\ \A c \in drafts : cartLock[c] = None
      /\ \/ /\ \/ Cardinality(drafts) > 1
               \/ drafts = {} /\ job[r].kind \in {"set", "remove"}
            /\ Fail(r)
         \/ /\ Cardinality(drafts) = 1
            /\ \E c \in drafts : /\ cartLock' = [cartLock EXCEPT ![c] = r]
                                 /\ mine' = [mine EXCEPT ![r] = c]
            /\ Goto(r, next)
            /\ UNCHANGED <<rowVars, job, isNew, guest, seen, todo, pend>>
         \/ /\ drafts = {}
            /\ job[r].kind \in {"add", "merge"} /\ FreeCarts # {}
            /\ mine' = [mine EXCEPT ![r] = NewCart]
            /\ isNew' = [isNew EXCEPT ![r] = TRUE]
            /\ Goto(r, next)
            /\ UNCHANGED <<rowVars, cartLock, job, guest, seen, todo, pend>>

-----------------------------------------------------------------------------
\* One line

\* The quantity the row is to have, computed from the row as it was read.
NewQty(r, l) == IF job[r].kind = "set" THEN job[r].n ELSE seen[r][l].qty + job[r].n

\* get_item: the line is read without a lock.  Setting an absent one is refused.
ReadItem(r) ==
  LET found == LineOf(mine[r], job[r].sku)
  IN  /\ pc[r] = "read"
      /\ IF found = {} /\ job[r].kind # "add"
         THEN Fail(r)
         ELSE /\ seen' = [seen EXCEPT ![r] = [l \in found |-> lines[l]]]
              /\ Goto(r, "write")
              /\ UNCHANGED <<rowVars, cartLock, job, mine, isNew, guest, todo, pend>>

\* add_or_increment_item without such a line: INSERT.
InsertItem(r) ==
  /\ pc[r] = "write"
  /\ job[r].kind = "add"
  /\ DOMAIN seen[r] = {} /\ FreeLines # {}
  /\ Wrote(r, [l \in {NewLine} |-> [cart |-> mine[r], sku |-> job[r].sku, qty |-> job[r].n]])
  /\ Goto(r, "commit")
  /\ UNCHANGED <<rowVars, cartLock, job, mine, isNew, guest, seen, todo>>

\* add_or_increment_item, set_item_qty with a line: UPDATE of that row, once it is
\* free; a row that is gone by then fails the flush.
UpdateItem(r) ==
  /\ pc[r] = "write"
  /\ job[r].kind \in {"add", "set"}
  /\ \E l \in DOMAIN seen[r] :
       /\ Unlocked(l, r)
       /\ IF lines[l].cart = None
          THEN Fail(r)
          ELSE /\ Wrote(r, [m \in {l} |-> [lines[l] EXCEPT !.qty = NewQty(r, l)]])
               /\ Goto(r, "commit")
               /\ UNCHANGED <<rowVars, cartLock, job, mine, isNew, guest, seen, todo>>

\* delete_item: DELETE by cart and product, once the row is free; refused when it
\* matches nothing.
RemoveItem(r) ==
  LET found == LineOf(mine[r], job[r].sku)
  IN  /\ pc[r] = "write"
      /\ job[r].kind = "remove"
      /\ \A l \in found : Unlocked(l, r)
      /\ IF found = {}
         THEN Fail(r)
         ELSE /\ Wrote(r, [l \in found |-> Deleted(l)])
              /\ Goto(r, "commit")
              /\ UNCHANGED <<rowVars, cartLock, job, mine, isNew, guest, seen, todo>>

-----------------------------------------------------------------------------
\* Merge

\* The guest's draft cart, read without a lock; without one there is nothing to do.
ReadGuest(r) ==
  LET drafts == Drafts(job[r].token)
  IN  /\ pc[r] = "guest"
      /\ \/ Cardinality(drafts) > 1 /\ Fail(r)
         \/ /\ drafts = {}
            /\ Goto(r, "commit")
            /\ UNCHANGED <<rowVars, cartLock, reqVars>>
         \/ /\ Cardinality(drafts) = 1
            /\ \E c \in drafts : guest' = [guest EXCEPT ![r] = c]
            /\ Goto(r, "load")
            /\ UNCHANGED <<rowVars, cartLock, job, mine, isNew, seen, todo, pend>>

\* list_raw_items of both carts.
LoadLines(r) ==
  /\ pc[r] = "load"
  /\ seen' = [seen EXCEPT ![r] = [l \in LinesIn(mine[r]) \cup LinesIn(guest[r]) |-> lines[l]]]
  /\ todo' = [todo EXCEPT ![r] = LinesIn(guest[r])]
  /\ Goto(r, "fold")
  /\ UNCHANGED <<rowVars, cartLock, job, mine, isNew, guest, pend>>

\* Mutant: a line of the guest is matched with none of the user's, and always moved.
TargetNone(r, l) == {}

\* The user's line for the same thing, among those the merge read.
Target(r, l) == {t \in DOMAIN seen[r] : seen[r][t].cart = mine[r] /\ seen[r][t].sku = seen[r][l].sku}

\* Mutant: the guest's quantity replaces the user's.
FoldLineOverwriting(r, l) ==
  /\ pc[r] = "fold"
  /\ l \in todo[r]
  /\ Wrote(r, IF Target(r, l) = {}
              THEN [m \in {l} |-> [lines[l] EXCEPT !.cart = mine[r]]]
              ELSE Over([t \in Target(r, l) |-> [lines[t] EXCEPT !.qty = seen[r][l].qty]],
                        [m \in {l} |-> Deleted(m)]))
  /\ todo' = [todo EXCEPT ![r] = @ \ {l}]
  /\ UNCHANGED <<rowVars, cartLock, pc, job, mine, isNew, guest, seen>>

\* One guest line: added to the user's line (by the quantities as read) and deleted
\* by cart and product, or moved as a row when the user has none.
FoldLine(r, l) ==
  LET target == Target(r, l)
      doomed == LineOf(guest[r], seen[r][l].sku)
      updated == IF target = {} THEN {l} ELSE target
  IN  /\ pc[r] = "fold"
      /\ l \in todo[r]
      /\ \A m \in updated \cup (IF target = {} THEN {} ELSE doomed) : Unlocked(m, r)
      /\ \/ /\ \E m \in updated : lines[m].cart = None
            /\ Fail(r)
         \/ /\ \A m \in updated : lines[m].cart # None
            /\ Wrote(r, IF target = {}
                        THEN [m \in {l} |-> [lines[l] EXCEPT !.cart = mine[r]]]
                        ELSE Over([t \in target |-> [lines[t] EXCEPT !.qty = seen[r][t].qty + seen[r][l].qty]],
                                  [m \in doomed |-> Deleted(m)]))
            /\ todo' = [todo EXCEPT ![r] = @ \ {l}]
            /\ UNCHANGED <<rowVars, cartLock, pc, job, mine, isNew, guest, seen>>

\* delete_cart: waits for the guest's row; a line left in it fails the foreign key.
DropGuest(r) ==
  /\ pc[r] = "fold"
  /\ todo[r] = {}
  /\ cartLock[guest[r]] = None
  /\ IF LinesIn(guest[r]) \subseteq DOMAIN pend[r]
     THEN /\ cartLock' = [cartLock EXCEPT ![guest[r]] = r]
          /\ Goto(r, "commit")
          /\ UNCHANGED <<rowVars, reqVars>>
     ELSE Fail(r)

-----------------------------------------------------------------------------
\* The end

Commit(r) ==
  /\ pc[r] = "commit"
  /\ lines' = Over(pend[r], lines)
  /\ cart' = [c \in Carts |->
               IF c = mine[r] /\ isNew[r] THEN [owner |-> job[r].owner, status |-> "draft"]
               ELSE IF c = guest[r] THEN [owner |-> None, status |-> "deleted"]
               ELSE cart[c]]
  /\ End(r, "done")

\* The product is not for sale, the connection is lost, the worker is killed.
Abort(r) ==
  /\ pc[r] \notin {"idle", "done", "failed"}
  /\ Fail(r)

\* The commit of a checkout of this cart (see Checkout).
Convert(c) ==
  /\ cart[c].status = "draft"
  /\ cartLock[c] = None
  /\ cart' = [cart EXCEPT ![c].status = "converted"]
  /\ UNCHANGED <<lines, cartLock, pc, reqVars>>

\* The rows a request wants next, and who keeps it waiting.
Blockers(r) ==
  LET rowsOf(ls) == {q \in Requests \ {r} : \E l \in ls : l \in DOMAIN pend[q]}
      holders(cs) == {cartLock[c] : c \in cs} \ {None}
  IN  CASE pc[r] = "resolve" -> holders(Drafts(job[r].owner))
        [] pc[r] = "write" /\ job[r].kind = "remove" -> rowsOf(LineOf(mine[r], job[r].sku))
        [] pc[r] = "write" /\ job[r].kind # "remove" -> rowsOf(DOMAIN seen[r])
        [] pc[r] = "fold" /\ todo[r] # {} ->
             rowsOf(todo[r] \cup UNION {LineOf(guest[r], seen[r][l].sku) : l \in todo[r]})
        [] pc[r] = "fold" /\ todo[r] = {} -> holders({guest[r]})
        [] OTHER -> {}

\* PostgreSQL aborts a transaction that waits for itself.
DeadlockAbort(r) ==
  /\ \E S \in SUBSET Requests : /\ r \in S
                                /\ \A q \in S : Blockers(q) \cap S # {}
  /\ Fail(r)

Advance(r) ==
  \/ Resolve(r)
  \/ ReadItem(r)
  \/ InsertItem(r)
  \/ UpdateItem(r)
  \/ RemoveItem(r)
  \/ ReadGuest(r)
  \/ LoadLines(r)
  \/ \E l \in Lines : FoldLine(r, l)
  \/ DropGuest(r)
  \/ Commit(r)

Next ==
  \/ \E r \in Requests : \E j \in Jobs[r] : Begin(r, j)
  \/ \E r \in Requests : Advance(r) \/ Abort(r) \/ DeadlockAbort(r)
  \/ \E c \in Carts : Convert(c)

Spec == Init /\ [][Next]_vars

\* A request that has begun is scheduled and gets the rows it waits for; the database
\* resolves deadlocks.  Nobody has to send a request, check out or fail.
FairSpec ==
  /\ Spec
  /\ \A r \in Requests : WF_vars(Advance(r)) /\ WF_vars(DeadlockAbort(r))

-----------------------------------------------------------------------------
\* Properties

\* Every variable has its type.
TypeOK ==
  /\ cart \in [Carts -> CartRow]
  /\ lines \in [Lines -> LineRow]
  /\ cartLock \in [Carts -> Requests \cup {None}]
  /\ pc \in [Requests -> Steps]
  /\ \A r \in Requests : job[r] \in Jobs[r] \cup {NoJob}
  /\ mine \in [Requests -> Carts \cup {None}]
  /\ isNew \in [Requests -> BOOLEAN]
  /\ guest \in [Requests -> Carts \cup {None}]
  /\ todo \in [Requests -> SUBSET Lines]
  /\ \A r \in Requests : DOMAIN seen[r] \subseteq Lines /\ DOMAIN pend[r] \subseteq Lines

\* The unique indexes of cart_item never reject a write: one line for a product in a
\* cart, although lines are inserted after an unlocked read and moved between carts.
OneLinePerProduct == \A c \in Carts, s \in Skus : Cardinality(LineOf(c, s)) =< 1

\* A line always belongs to a cart that exists: no addition is caught by the merge
\* that deletes its cart.
NoOrphanLines ==
  \A l \in Lines : lines[l].cart # None => cart[lines[l].cart].status \in {"draft", "converted"}

\* The units of s that the rows hold.
UnitsOf(rows, s) == UNION {{l} \X (1 .. rows[l].qty) : l \in {k \in Lines : rows[k].sku = s}}
AllUnits(rows, s) == Cardinality(UnitsOf(rows, s))

\* An addition that succeeds adds exactly its units, whatever other additions, edits
\* and merges run meanwhile: the quantity it computed from its read is never stale.
AddCounts ==
  [][\A r \in Requests : pc[r] = "commit" /\ pc'[r] = "done" /\ job[r].kind = "add" =>
       AllUnits(lines', job[r].sku) = AllUnits(lines, job[r].sku) + job[r].n]_vars

\* A merge that succeeds, the first to succeed with that guest's cart, hands over every
\* guest line it read, once: the row moves as it is now, or it is gone and the user's line
\* for the same thing has what the guest's held when it was read, on top of what it has now.
MergedOnce ==
  [][\A r \in Requests :
       pc[r] = "commit" /\ pc'[r] = "done" /\ guest[r] # None /\ cart[guest[r]].status # "deleted" =>
         /\ cart'[guest[r]].status = "deleted"
         /\ \A l \in DOMAIN seen[r] : seen[r][l].cart = guest[r] =>
              \/ lines'[l] = [lines[l] EXCEPT !.cart = mine[r]]
              \/ /\ lines'[l].cart = None
                 /\ \E t \in DOMAIN seen[r] :
                      /\ seen[r][t].cart = mine[r] /\ seen[r][t].sku = seen[r][l].sku
                      /\ lines'[t] = [lines[t] EXCEPT !.qty = @ + seen[r][l].qty]]_vars

\* A request that has begun ends, also when a merge and an addition to the guest's cart
\* lock the cart and its line in opposite orders.
EveryRequestEnds ==
  \A r \in Requests : pc[r] # "idle" ~> pc[r] \in {"done", "failed"}

\* The lines of every cart have their shape, are one for a product, and belong to a cart
\* that exists (add_item, merge_guest_into_user).
LinesAreSound == TypeOK /\ OneLinePerProduct /\ NoOrphanLines
=============================================================================
