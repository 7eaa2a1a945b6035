------------------------------ MODULE Restock ------------------------------
(***************************************************************************)
(* Restock alerts.  A customer subscribes to a product that is sold out;   *)
(* whoever brings units back (staff, a canceled order) enqueues a task when *)
(* it saw the quantity leave zero; a sweep started by the clock looks for   *)
(* waiters of products in stock.  Both tasks read the waiters, mail them    *)
(* one by one and mark the mailed ones.  Nothing here takes a lock before   *)
(* it writes.                                                               *)
(***************************************************************************)
EXTENDS Naturals, FiniteSets

CONSTANTS
  Users, Products,
  Workers,    \* Celery workers
  Editors,    \* requests that change stock: staff updates, returns of canceled orders
  Levels,     \* the quantities staff may write
  MaxQty,     \* bound on a quantity
  MaxQueue,   \* bound on the messages waiting for one product
  MaxRows,    \* bound on the rows ever inserted for one customer and product
  MaxFaults,  \* bound on crashes of workers
  None

ASSUME NoneAssumption == None \notin Users \cup Products
ASSUME LevelsAssumption == Levels \subseteq 0 .. MaxQty
ASSUME BoundsAssumption == MaxQty \in Nat /\ MaxQueue \in Nat /\ MaxRows \in Nat /\ MaxFaults \in Nat

VARIABLES
  qty,        \* product.qty
  sub,        \* subscription rows by product and user: [id, status]
  readable,   \* the customers for whose language the product has a text
  ask, asked, \* a subscriber's open request: its step; the product and the row it read
  edit,       \* an editor's open request: [pc, kind, product, before, to]
  queue,      \* restock.notify messages waiting, by product
  work,       \* a worker's task: [pc, kind, todo, product, jobs, sent]
  faults,
  told        \* history: the rows that were mailed, as <<product, user, id>>

vars == <<qty, sub, readable, ask, asked, edit, queue, work, faults, told>>

Gone == [id |-> 0, status |-> "none"]
Nothing == [product |-> None, row |-> Gone]
NoEdit == [pc |-> "idle", kind |-> "none", product |-> None, before |-> 0, to |-> 0]
NoWork == [pc |-> "idle", kind |-> "none", todo |-> {}, product |-> None, jobs |-> {}, sent |-> {}]

\* A deleted row leaves its number behind, so that the next one has another.
Init ==
  /\ qty \in [Products -> {0}]
  /\ sub = [p \in Products |-> [u \in Users |-> Gone]]
  /\ readable \in SUBSET Users
  /\ ask = [u \in Users |-> "idle"]
  /\ asked = [u \in Users |-> Nothing]
  /\ edit = [e \in Editors |-> NoEdit]
  /\ queue = [p \in Products |-> 0]
  /\ work = [w \in Workers |-> NoWork]
  /\ faults = 0
  /\ told = {}

-----------------------------------------------------------------------------
\* Customers

\* subscribe: the product is read first; one in stock is refused.
Ask(u, p) ==
  /\ ask[u] = "idle"
  /\ qty[p] = 0
  /\ ask' = [ask EXCEPT ![u] = "checked"]
  /\ asked' = [asked EXCEPT ![u] = [product |-> p, row |-> Gone]]
  /\ UNCHANGED <<readable, qty, sub, edit, queue, work, faults, told>>

\* upsert_active: then the customer's row.
FindRow(u) ==
  /\ ask[u] = "checked"
  /\ ask' = [ask EXCEPT ![u] = "found"]
  /\ asked' = [asked EXCEPT ![u].row = sub[asked[u].product][u]]
  /\ UNCHANGED <<readable, qty, sub, edit, queue, work, faults, told>>

\* What the flush makes of the row now stored: a column is written only if it differs
\* from the row as it was read; a row that is gone, or there already, fails it.
Upserted(seen, now) ==
  CASE seen.status = "none" /\ now.status = "none" -> [id |-> now.id + 1, status |-> "active"]
    [] seen.status = "notified" /\ now.status # "none" /\ now.id = seen.id ->
         [now EXCEPT !.status = "active"]
    [] OTHER -> now

Subscribe(u) ==
  LET p == asked[u].product
      seen == asked[u].row
  IN  /\ ask[u] = "found"
      /\ seen.status = "none" => sub[p][u].id < MaxRows
      /\ sub' = [sub EXCEPT ![p][u] = Upserted(seen, @)]
      /\ ask' = [ask EXCEPT ![u] = "idle"]
      /\ asked' = [asked EXCEPT ![u] = Nothing]
      /\ UNCHANGED <<readable, qty, edit, queue, work, faults, told>>

\* delete: the row goes, its number is not given out again.
Unsubscribe(u, p) ==
  /\ sub[p][u].status # "none"
  /\ sub' = [sub EXCEPT ![p][u].status = "none"]
  /\ UNCHANGED <<readable, qty, ask, asked, edit, queue, work, faults, told>>

-----------------------------------------------------------------------------
\* Stock

\* The commit of a checkout (see Checkout); it waits for a return holding the row.
Sell(p) ==
  /\ qty[p] > 0
  /\ \A e \in Editors : ~(edit[e].pc = "credited" /\ edit[e].product = p)
  /\ qty' = [qty EXCEPT ![p] = @ - 1]
  /\ UNCHANGED <<readable, sub, ask, asked, edit, queue, work, faults, told>>

\* A request that will write the quantity reads it first: update_product (old_qty) and
\* increment_stock (before).
ReadStock(e, p, kind, n) ==
  /\ edit[e].pc = "idle"
  /\ edit' = [edit EXCEPT ![e] = [pc |-> "read", kind |-> kind, product |-> p,
                                  before |-> qty[p], to |-> n]]
  /\ UNCHANGED <<readable, qty, sub, ask, asked, queue, work, faults, told>>

Free(e, p) == \A f \in Editors \ {e} : ~(edit[f].pc = "credited" /\ edit[f].product = p)

\* A message for the broker, which may be down: the error is swallowed.
Enqueue(p) ==
  \/ queue[p] < MaxQueue /\ queue' = [queue EXCEPT ![p] = @ + 1]
  \/ UNCHANGED queue

\* update_product commits the absolute quantity, if staff changed it, then looks
\* whether it left zero.
StaffWrites(e) ==
  LET p == edit[e].product
  IN  /\ edit[e].pc = "read"
      /\ edit[e].kind = "update"
      /\ Free(e, p)
      /\ qty' = [qty EXCEPT ![p] = IF edit[e].before = edit[e].to THEN @ ELSE edit[e].to]
      /\ edit' = [edit EXCEPT ![e].pc = "committed"]
      /\ UNCHANGED <<readable, sub, ask, asked, queue, work, faults, told>>

\* _notify_if_restocked, after the commit, on the refreshed row.
StaffNotifies(e) ==
  LET p == edit[e].product
  IN  /\ edit[e].pc = "committed"
      /\ IF edit[e].before = 0 /\ qty[p] > 0 THEN Enqueue(p) ELSE UNCHANGED queue
      /\ edit' = [edit EXCEPT ![e] = NoEdit]
      /\ UNCHANGED <<readable, qty, sub, ask, asked, work, faults, told>>

\* increment_stock of a canceled order's line, which locks the row, and
\* _notify_restocked, which does not wait for the commit.
CreditReturn(e) ==
  LET p == edit[e].product
  IN  /\ edit[e].pc = "read"
      /\ edit[e].kind = "return"
      /\ Free(e, p)
      /\ IF edit[e].before = 0 THEN Enqueue(p) ELSE UNCHANGED queue
      /\ edit' = [edit EXCEPT ![e].pc = "credited"]
      /\ UNCHANGED <<readable, qty, sub, ask, asked, work, faults, told>>

\* The commit; or the side effect fails and is only logged.
CommitReturn(e) ==
  LET p == edit[e].product
  IN  /\ edit[e].pc = "credited"
      /\ \/ qty[p] < MaxQty /\ qty' = [qty EXCEPT ![p] = @ + 1]
         \/ UNCHANGED qty
      /\ edit' = [edit EXCEPT ![e] = NoEdit]
      /\ UNCHANGED <<readable, sub, ask, asked, queue, work, faults, told>>

-----------------------------------------------------------------------------
\* Tasks

\* restock.notify: a message is taken and acknowledged when the task is done.
TakeNotify(w, p) ==
  /\ work[w].pc = "idle"
  /\ queue[p] > 0
  /\ queue' = [queue EXCEPT ![p] = @ - 1]
  /\ work' = [work EXCEPT ![w] = [NoWork EXCEPT !.pc = "next", !.kind = "notify", !.todo = {p}]]
  /\ UNCHANGED <<readable, qty, sub, ask, asked, edit, faults, told>>

Waiting(p) == {u \in Users : sub[p][u].status = "active"}

\* Mutant: the sweep is switched off.
ToNotifyNothing == {}

\* products_with_active_and_in_stock
ToNotify == {p \in Products : qty[p] > 0 /\ Waiting(p) # {}}

\* restock.sweep
Sweep(w) ==
  /\ work[w].pc = "idle"
  /\ ToNotify # {}
  /\ work' = [work EXCEPT ![w] = [NoWork EXCEPT !.pc = "next", !.kind = "sweep", !.todo = ToNotify]]
  /\ UNCHANGED <<readable, qty, sub, ask, asked, edit, queue, faults, told>>

\* notify_product: the active rows, less those without a translation in their language.
LoadWaiters(w, p) ==
  /\ work[w].pc = "next"
  /\ p \in work[w].todo
  /\ work' = [work EXCEPT ![w].pc = "send", ![w].product = p, ![w].todo = @ \ {p},
                ![w].jobs = {<<u, sub[p][u].id>> : u \in Waiting(p) \cap readable}]
  /\ UNCHANGED <<readable, qty, sub, ask, asked, edit, queue, faults, told>>

\* _send_one: the mail server takes the mail ...
Send(w, u) ==
  /\ work[w].pc = "send"
  /\ \E job \in work[w].jobs :
       /\ job[1] = u
       /\ work' = [work EXCEPT ![w].jobs = @ \ {job}, ![w].sent = @ \cup {job}]
       /\ told' = told \cup {<<work[w].product, job[1], job[2]>>}
  /\ UNCHANGED <<readable, qty, sub, ask, asked, edit, queue, faults>>

\* ... or it does not, which only this customer notices.
SendFails(w, u) ==
  /\ work[w].pc = "send"
  /\ \E job \in work[w].jobs : /\ job[1] = u
                               /\ work' = [work EXCEPT ![w].jobs = @ \ {job}]
  /\ UNCHANGED <<readable, qty, sub, ask, asked, edit, queue, faults, told>>

\* Mutant: rows are marked by customer instead of by number.
SpentByCustomer(w) == {<<job[1], sub[work[w].product][job[1]].id>> : job \in work[w].sent}

\* The rows of the customers who were mailed.
Spent(w) == work[w].sent

\* mark_notified and the commit; then the next product, or the acknowledgement.
Mark(w) ==
  LET p == work[w].product
      done == [u \in Users |-> IF <<u, sub[p][u].id>> \in Spent(w) /\ sub[p][u].status # "none"
                               THEN [sub[p][u] EXCEPT !.status = "notified"]
                               ELSE sub[p][u]]
  IN  /\ work[w].pc = "send"
      /\ work[w].jobs = {}
      /\ sub' = [sub EXCEPT ![p] = done]
      /\ work' = [work EXCEPT ![w] = IF @.todo = {} THEN NoWork
                                     ELSE [@ EXCEPT !.pc = "next", !.product = None, !.sent = {}]]
      /\ UNCHANGED <<readable, qty, ask, asked, edit, queue, faults, told>>

\* The worker dies, or the database fails the task: a notify message comes back.
Crash(w) ==
  LET p == CHOOSE q \in work[w].todo \cup {work[w].product} : q # None
  IN  /\ work[w].pc # "idle"
      /\ faults < MaxFaults
      /\ faults' = faults + 1
      /\ queue' = IF work[w].kind = "notify" THEN [queue EXCEPT ![p] = @ + 1] ELSE queue
      /\ work' = [work EXCEPT ![w] = NoWork]
      /\ UNCHANGED <<readable, qty, sub, ask, asked, edit, told>>

RunTask(w) == (\E p \in Products : LoadWaiters(w, p)) \/ Mark(w)
Mailing(w, u) == Send(w, u) \/ SendFails(w, u)
Editing(e) == StaffWrites(e) \/ StaffNotifies(e) \/ CreditReturn(e) \/ CommitReturn(e)

Next ==
  \/ \E u \in Users, p \in Products : Unsubscribe(u, p) \/ Ask(u, p)
  \/ \E u \in Users : FindRow(u) \/ Subscribe(u)
  \/ \E p \in Products : Sell(p)
  \/ \E e \in Editors, p \in Products :
       ReadStock(e, p, "return", 0) \/ \E n \in Levels : ReadStock(e, p, "update", n)
  \/ \E e \in Editors : Editing(e)
  \/ \E w \in Workers, p \in Products : TakeNotify(w, p)
  \/ \E w \in Workers : Sweep(w) \/ RunTask(w) \/ Crash(w)
  \/ \E w \in Workers, u \in Users : Mailing(w, u)

Spec == Init /\ [][Next]_vars

\* Beat starts a sweep every ten minutes, workers take messages and go on with what
\* they took, and the mail server does not refuse a customer for ever.  Nobody has to
\* subscribe, buy, restock or crash.
FairSpec ==
  /\ Spec
  /\ SF_vars(\E w \in Workers : Sweep(w))
  /\ \A w \in Workers : WF_vars(RunTask(w)) /\ \A u \in Users : WF_vars(Mailing(w, u))
  /\ \A u \in Users : SF_vars(\E w \in Workers : Send(w, u))
  /\ \A p \in Products : WF_vars(\E w \in Workers : TakeNotify(w, p))

-----------------------------------------------------------------------------
\* Properties

\* Every variable has its type.
TypeOK ==
  LET Row == [id : 0 .. MaxRows, status : {"none", "active", "notified"}]
  IN  /\ qty \in [Products -> 0 .. MaxQty]
      /\ sub \in [Products -> [Users -> Row]]
      /\ readable \subseteq Users
      /\ ask \in [Users -> {"idle", "checked", "found"}]
      /\ asked \in [Users -> [product : Products \cup {None}, row : Row]]
      /\ edit \in [Editors -> [pc : {"idle", "read", "credited", "committed"},
                               kind : {"none", "update", "return"},
                               product : Products \cup {None}, before : 0 .. MaxQty, to : 0 .. MaxQty]]
      /\ queue \in [Products -> 0 .. MaxQueue + MaxFaults]
      /\ work \in [Workers -> [pc : {"idle", "next", "send"}, kind : {"none", "notify", "sweep"},
                               todo : SUBSET Products, product : Products \cup {None},
                               jobs : SUBSET (Users \X (1 .. MaxRows)),
                               sent : SUBSET (Users \X (1 .. MaxRows))]]
      /\ faults \in 0 .. MaxFaults
      /\ told \subseteq Products \X Users \X (1 .. MaxRows)

\* A subscription is spent only if its owner was mailed for it: not for one that was
\* cancelled and made anew meanwhile, and not after a mail that failed.
SpentMeansTold ==
  \A p \in Products, u \in Users : sub[p][u].status = "notified" => <<p, u, sub[p][u].id>> \in told

\* A subscriber whose product is in stock is told, or gives up, or the product sells out
\* again: also when the quantity left zero unseen, the broker lost the message or the
\* customer subscribed while the units came in.
WaitersAreTold ==
  \A p \in Products, u \in Users :
    (sub[p][u].status = "active" /\ u \in readable /\ qty[p] > 0)
      ~> (sub[p][u].status # "active" \/ qty[p] = 0)

\* Rows and messages have their shape, and an alert is spent on a mail only
\* (notify_product, mark_notified).
AlertsAreSound == TypeOK /\ SpentMeansTold
=============================================================================
