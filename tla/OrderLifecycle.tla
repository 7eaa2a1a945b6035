--------------------------- MODULE OrderLifecycle ---------------------------
(***************************************************************************)
(* An order after checkout: the two status axes, the card payment at maib,  *)
(* the refund, and the stock that a cancelled order gives back.  A worker   *)
(* is one HTTP request (a back-office transition, a maib callback or a      *)
(* refund): it takes the order row FOR UPDATE, decides on the row as it     *)
(* read it then, and commits.  The stock of a cancelled order goes back in  *)
(* a second transaction of the same request, after the first one committed. *)
(* Orders that ship with the carrier are in Waybill.                        *)
(***************************************************************************)
EXTENDS Integers, Sequences, FiniteSets

CONSTANTS
  Orders, Workers,
  Skus,
  Items,       \* the units of each order
  MethodOf,    \* "cod" | "card"
  StartQty,
  Moves,       \* the transitions <<to_status, to_payment_status>> staff ask for
  MaxFaults,   \* bound on crashes, swallowed errors and lost maib answers
  None

Statuses == {"new", "confirmed", "done", "canceled"}
PayStatuses == {"pending", "paid", "refunded"}

ASSUME NoneAssumption == None \notin Orders \cup Workers \cup Statuses \cup PayStatuses
ASSUME ItemsAssumption ==
  /\ Items \in [Orders -> [Skus -> Nat]]
  /\ \A o \in Orders : \E s \in Skus : Items[o][s] > 0
  /\ MethodOf \in [Orders -> {"cod", "card"}]
  /\ StartQty \in [Skus -> Nat]
ASSUME MovesAssumption ==
  Moves \subseteq {m \in (Statuses \cup {None}) \X (PayStatuses \cup {None}) :
                     m[1] # None \/ m[2] # None}
ASSUME FaultsAssumption == MaxFaults \in Nat

VARIABLES
  status,      \* "none" until placed, then the fulfilment status
  pay,         \* payment_status
  hist,        \* order_status_history rows <<from, to>>
  payment,     \* status of the payment row, "none" without one
  payId,       \* whether the payment row knows maib's pay_id
  apart,       \* history: orders whose refund need not be on the payment row
  qty,
  maib,        \* what maib did with the payment: "none", "open", "captured", "declined"
  refunds,     \* refunds maib carried out for the order
  returned,    \* how many times the order's units went back
  orderLock,   \* the worker that holds the order row, or None
  pc, job,     \* where each worker is and what it was asked
  seen,        \* the order row as the worker read it under its lock
  faults

orderVars == <<status, pay, hist>>
payVars == <<payment, payId, apart>>
stockVars == <<qty, returned>>
maibVars == <<maib, refunds>>
workVars == <<orderLock, pc, job, seen>>
vars == <<status, pay, hist, payment, payId, apart, qty, maib, refunds, returned,
          orderLock, pc, job, seen, faults>>

Terminal == {"ok", "failed", "refunded"}

STATUS_TRANSITIONS ==
  [new |-> {"confirmed", "canceled"}, confirmed |-> {"done", "canceled"},
   done |-> {}, canceled |-> {}]
PAYMENT_TRANSITIONS == [pending |-> {"paid"}, paid |-> {"refunded"}, refunded |-> {}]

Job(kind, o, toStatus, toPay) ==
  [kind |-> kind, order |-> o, toStatus |-> toStatus, toPay |-> toPay]
NoJob == Job("none", None, None, None)
HistoryRows == ({""} \cup Statuses \cup PayStatuses) \X (Statuses \cup PayStatuses)
Unread == [status |-> None, pay |-> None]

Init ==
  /\ status = [o \in Orders |-> "none"]
  /\ pay = [o \in Orders |-> "pending"]
  /\ hist = [o \in Orders |-> <<>>]
  /\ payment = [o \in Orders |-> "none"]
  /\ payId = [o \in Orders |-> FALSE]
  /\ apart = {}
  /\ qty = StartQty
  /\ maib = [o \in Orders |-> "none"]
  /\ refunds = [o \in Orders |-> 0]
  /\ returned = [o \in Orders |-> 0]
  /\ orderLock = [o \in Orders |-> None]
  /\ pc = [w \in Workers |-> "idle"]
  /\ job = [w \in Workers |-> NoJob]
  /\ seen = [w \in Workers |-> Unread]
  /\ faults = 0

-----------------------------------------------------------------------------
\* Placing and paying

\* The commit of checkout (see Checkout): the order and its units, together.
PlaceOrder(o) ==
  /\ status[o] = "none"
  /\ \A s \in Skus : Items[o][s] =< qty[s]
  /\ status' = [status EXCEPT ![o] = "new"]
  /\ hist' = [hist EXCEPT ![o] = <<<<"", "new">>, <<"", "pending">>>>]
  /\ qty' = [s \in Skus |-> qty[s] - Items[o][s]]
  /\ UNCHANGED <<pay, payVars, returned, maibVars, workVars, faults>>

\* The checkout request goes on to open the card payment, in a transaction of its
\* own; the row stays without a pay_id when maib refuses.  A request that dies
\* here never comes back to it, which is this action not happening.
InitiateCardPayment(o) ==
  /\ status[o] # "none"
  /\ MethodOf[o] = "card"
  /\ payment[o] = "none"
  /\ payment' = [payment EXCEPT ![o] = "pending"]
  /\ \/ /\ payId' = [payId EXCEPT ![o] = TRUE]
        /\ maib' = [maib EXCEPT ![o] = "open"]
     \/ UNCHANGED <<payId, maib>>
  /\ UNCHANGED <<orderVars, apart, stockVars, refunds, workVars, faults>>

\* The payer pays, or fails to; maib settles a payment once.
MaibSettles(o) ==
  /\ maib[o] = "open"
  /\ \E outcome \in {"captured", "declined"} : maib' = [maib EXCEPT ![o] = outcome]
  /\ UNCHANGED <<orderVars, payVars, stockVars, refunds, workVars, faults>>

-----------------------------------------------------------------------------
\* Requests

Begin(w, j) ==
  /\ pc[w] = "idle"
  /\ pc' = [pc EXCEPT ![w] = "lock"]
  /\ job' = [job EXCEPT ![w] = j]
  /\ UNCHANGED <<orderVars, payVars, stockVars, maibVars, orderLock, seen, faults>>

\* POST /admin/orders/{number}/transition; at least one axis.
AdminRequest(w, o, toStatus, toPay) ==
  /\ status[o] # "none"
  /\ Begin(w, Job("transition", o, toStatus, toPay))

\* POST /admin/orders/{number}/refund.
RefundRequest(w, o) ==
  /\ status[o] # "none"
  /\ Begin(w, Job("refund", o, None, None))

\* Fault: a repeated callback is not told from the first one.
CallbackRepeated(w, o) ==
  /\ payId[o]
  /\ maib[o] \in {"captured", "declined"}
  /\ Begin(w, Job("callback", o, None, None))

\* POST /payments/maib/callback, delivered at least once and at any time after the
\* payment settled.  The payment row is read without a lock: one that is already
\* terminal ends the request, any other goes on to the order row.
Callback(w, o) ==
  /\ payId[o]
  /\ maib[o] \in {"captured", "declined"}
  /\ payment[o] \notin Terminal
  /\ Begin(w, Job("callback", o, None, None))

\* Fault: the order is read without FOR UPDATE.
LockOrderWithoutWaiting(w) ==
  LET o == job[w].order
  IN  /\ pc[w] = "lock"
      /\ seen' = [seen EXCEPT ![w] = [status |-> status[o], pay |-> pay[o]]]
      /\ pc' = [pc EXCEPT ![w] = "apply"]
      /\ UNCHANGED <<orderVars, payVars, stockVars, maibVars, orderLock, job, faults>>

\* SELECT ... FOR UPDATE on the order: waits, then reads the committed row.
LockOrder(w) ==
  LET o == job[w].order
  IN  /\ pc[w] = "lock"
      /\ orderLock[o] = None
      /\ orderLock' = [orderLock EXCEPT ![o] = w]
      /\ seen' = [seen EXCEPT ![w] = [status |-> status[o], pay |-> pay[o]]]
      /\ pc' = [pc EXCEPT ![w] = "apply"]
      /\ UNCHANGED <<orderVars, payVars, stockVars, maibVars, job, faults>>

-----------------------------------------------------------------------------
\* The end of a transaction

Released(w) == [o \in Orders |-> IF orderLock[o] = w THEN None ELSE orderLock[o]]

\* The transaction ends, its locks go, the request is answered.
Finish(w) ==
  /\ orderLock' = Released(w)
  /\ pc' = [pc EXCEPT ![w] = "idle"]
  /\ job' = [job EXCEPT ![w] = NoJob]
  /\ seen' = [seen EXCEPT ![w] = Unread]

\* Fault: with both axes asked for, only the first is validated.
LegalFirstAxis(w, toStatus, toPay) ==
  IF toStatus # None THEN toStatus \in STATUS_TRANSITIONS[seen[w].status]
                     ELSE toPay \in PAYMENT_TRANSITIONS[seen[w].pay]

Legal(w, toStatus, toPay) ==
  /\ toStatus # None => toStatus \in STATUS_TRANSITIONS[seen[w].status]
  /\ toPay # None => toPay \in PAYMENT_TRANSITIONS[seen[w].pay]

StatusRow(w, toStatus) == IF toStatus = None THEN <<>> ELSE <<<<seen[w].status, toStatus>>>>
PayRow(w, toPay) == IF toPay = None THEN <<>> ELSE <<<<seen[w].pay, toPay>>>>

\* Fault: an axis that was not asked for is overwritten.
TransitionBothAxes(w, toStatus, toPay) ==
  LET o == job[w].order
  IN  /\ status' = [status EXCEPT ![o] = toStatus]
      /\ pay' = [pay EXCEPT ![o] = toPay]
      /\ hist' = [hist EXCEPT ![o] = @ \o StatusRow(w, toStatus) \o PayRow(w, toPay)]
      /\ Finish(w)

\* Fault: only a cancellation by staff gives the units back.
TransitionReturnsForStaff(w, toStatus, toPay) ==
  LET o == job[w].order
  IN  /\ status' = [status EXCEPT ![o] = IF toStatus = None THEN @ ELSE toStatus]
      /\ pay' = [pay EXCEPT ![o] = IF toPay = None THEN @ ELSE toPay]
      /\ hist' = [hist EXCEPT ![o] = @ \o StatusRow(w, toStatus) \o PayRow(w, toPay)]
      /\ IF toStatus = "canceled" /\ job[w].kind = "transition"
         THEN /\ orderLock' = Released(w)
              /\ pc' = [pc EXCEPT ![w] = "return"]
              /\ UNCHANGED <<job, seen>>
         ELSE Finish(w)

\* OrderService.transition once it is legal: both axes, their history rows and the
\* commit; a cancelled order still has to give its units back.
Transition(w, toStatus, toPay) ==
  LET o == job[w].order
  IN  /\ status' = [status EXCEPT ![o] = IF toStatus = None THEN @ ELSE toStatus]
      /\ pay' = [pay EXCEPT ![o] = IF toPay = None THEN @ ELSE toPay]
      /\ hist' = [hist EXCEPT ![o] = @ \o StatusRow(w, toStatus) \o PayRow(w, toPay)]
      /\ IF toStatus = "canceled"
         THEN /\ orderLock' = Released(w)
              /\ pc' = [pc EXCEPT ![w] = "return"]
              /\ UNCHANGED <<job, seen>>
         ELSE Finish(w)

-----------------------------------------------------------------------------
\* What each kind of request does with the locked order

\* An illegal move is refused, and nothing of the request remains.  Staff may move
\* an order to refunded like this, which writes nothing on the payment.
ApplyTransition(w) ==
  LET j == job[w]
  IN  /\ pc[w] = "apply"
      /\ j.kind = "transition"
      /\ IF Legal(w, j.toStatus, j.toPay)
         THEN /\ Transition(w, j.toStatus, j.toPay)
              /\ apart' = IF j.toPay = "refunded" THEN apart \cup {j.order} ELSE apart
         ELSE Finish(w) /\ UNCHANGED <<orderVars, apart>>
      /\ UNCHANGED <<payment, payId, stockVars, maibVars, faults>>

\* Fault: a payment that arrives for a cancelled order is not put on the order.
ApplyPaidIfStanding(w) ==
  LET o == job[w].order
  IN  /\ pc[w] = "apply"
      /\ job[w].kind = "callback"
      /\ maib[o] = "captured"
      /\ payment' = [payment EXCEPT ![o] = "ok"]
      /\ IF seen[w].pay = "pending" /\ seen[w].status # "canceled"
         THEN Transition(w, None, "paid")
         ELSE Finish(w) /\ UNCHANGED orderVars
      /\ UNCHANGED <<payId, apart, stockVars, maibVars, faults>>

\* _apply_paid: the payment is ok; only a pending order becomes paid.
ApplyPaid(w) ==
  LET o == job[w].order
  IN  /\ pc[w] = "apply"
      /\ job[w].kind = "callback"
      /\ maib[o] = "captured"
      /\ payment' = [payment EXCEPT ![o] = "ok"]
      /\ IF seen[w].pay = "pending"
         THEN Transition(w, None, "paid")
         ELSE Finish(w) /\ UNCHANGED orderVars
      /\ UNCHANGED <<payId, apart, stockVars, maibVars, faults>>

\* _apply_failed: the payment failed; an order that is still open is cancelled.
ApplyFailed(w) ==
  LET o == job[w].order
  IN  /\ pc[w] = "apply"
      /\ job[w].kind = "callback"
      /\ maib[o] = "declined"
      /\ payment' = [payment EXCEPT ![o] = "failed"]
      /\ IF seen[w].status \in {"new", "confirmed"}
         THEN Transition(w, "canceled", None)
         ELSE Finish(w) /\ UNCHANGED orderVars
      /\ UNCHANGED <<payId, apart, stockVars, maibVars, faults>>

\* Fault: the payment status is not checked.
RefundableWheneverPaidOnline(w) ==
  MethodOf[job[w].order] = "card" /\ payId[job[w].order]

Refundable(w) ==
  LET o == job[w].order
  IN  /\ MethodOf[o] = "card"
      /\ seen[w].pay = "paid"
      /\ payment[o] # "none" /\ payId[o]

\* The guards of refund, then the HTTP call to maib with the row still locked.
\* maib refunds only what it holds; it may refuse, or its answer may be lost after
\* it acted, and either way the request ends without a write.
CallRefund(w) ==
  LET o == job[w].order
  IN  /\ pc[w] = "apply"
      /\ job[w].kind = "refund"
      /\ \/ /\ Refundable(w)
            /\ maib[o] = "captured"
            /\ refunds' = [refunds EXCEPT ![o] = @ + 1]
            /\ \/ /\ pc' = [pc EXCEPT ![w] = "record"]
                  /\ UNCHANGED <<orderLock, job, seen, faults>>
               \/ /\ faults < MaxFaults
                  /\ faults' = faults + 1
                  /\ Finish(w)
         \/ /\ Finish(w)
            /\ UNCHANGED <<refunds, faults>>
      /\ UNCHANGED <<orderVars, payVars, stockVars, maib>>

\* Callbacks under way for an order: they read its payment and found it open.
Reading(o) == {w \in Workers : job[w].kind = "callback" /\ job[w].order = o}

\* maib answered: the payment and the order become refunded.
RecordRefund(w) ==
  LET o == job[w].order
  IN  /\ pc[w] = "record"
      /\ payment' = [payment EXCEPT ![o] = "refunded"]
      /\ Legal(w, None, "refunded")
      /\ Transition(w, None, "refunded")
      /\ apart' = IF Reading(o) # {} THEN apart \cup {o} ELSE apart
      /\ UNCHANGED <<payId, stockVars, maibVars, faults>>

\* _make_stock_return: every line's relative increment, one commit.  The goods of an
\* order are in the catalog for as long as it lives here; the code passes over a line
\* whose product and variant were deleted meanwhile, and its units are gone.
ReturnStock(w) ==
  LET o == job[w].order
  IN  /\ pc[w] = "return"
      /\ qty' = [s \in Skus |-> qty[s] + Items[o][s]]
      /\ returned' = [returned EXCEPT ![o] = @ + 1]
      /\ Finish(w)
      /\ UNCHANGED <<orderVars, payVars, maibVars, faults>>

\* A request dies or raises: its open transaction rolls back.  During the stock
\* return the error is swallowed and nothing tries again.
Crash(w) ==
  /\ pc[w] # "idle"
  /\ faults < MaxFaults
  /\ faults' = faults + 1
  /\ Finish(w)
  /\ UNCHANGED <<orderVars, payVars, stockVars, maibVars>>

-----------------------------------------------------------------------------
Apply(w) ==
  \/ ApplyTransition(w)
  \/ ApplyPaid(w)
  \/ ApplyFailed(w)
  \/ CallRefund(w)
  \/ RecordRefund(w)
  \/ ReturnStock(w)

Next ==
  \/ \E o \in Orders : PlaceOrder(o) \/ InitiateCardPayment(o) \/ MaibSettles(o)
  \/ \E w \in Workers, o \in Orders :
       \/ \E m \in Moves : AdminRequest(w, o, m[1], m[2])
       \/ RefundRequest(w, o)
       \/ Callback(w, o)
  \/ \E w \in Workers : LockOrder(w) \/ Apply(w) \/ Crash(w)

Spec == Init /\ [][Next]_vars

\* A request that has begun gets its row lock and its turn; maib repeats a
\* callback until one of them is answered.
FairSpec ==
  /\ Spec
  /\ \A w \in Workers : SF_vars(LockOrder(w)) /\ WF_vars(Apply(w))
  /\ \A o \in Orders : SF_vars(\E w \in Workers : Callback(w, o))

-----------------------------------------------------------------------------
\* Properties

\* Every variable has its type.
TypeOK ==
  /\ status \in [Orders -> Statuses \cup {"none"}]
  /\ pay \in [Orders -> PayStatuses]
  /\ hist \in [Orders -> Seq(HistoryRows)]
  /\ payment \in [Orders -> {"none", "pending"} \cup Terminal]
  /\ payId \in [Orders -> BOOLEAN]
  /\ apart \subseteq Orders
  /\ qty \in [Skus -> Int]
  /\ maib \in [Orders -> {"none", "open", "captured", "declined"}]
  /\ refunds \in [Orders -> Nat]
  /\ returned \in [Orders -> Nat]
  /\ orderLock \in [Orders -> Workers \cup {None}]
  /\ pc \in [Workers -> {"idle", "lock", "apply", "record", "return"}]
  /\ job \in [Workers -> [kind : {"none", "transition", "callback", "refund"},
                          order : Orders \cup {None},
                          toStatus : Statuses \cup {None},
                          toPay : PayStatuses \cup {None}]]
  /\ seen \in [Workers -> [status : Statuses \cup {None},
                           pay : PayStatuses \cup {None}]]
  /\ faults \in 0 .. MaxFaults

\* Whatever transitions, callbacks and refunds overlap, the stored order only ever
\* moves along the transition tables, also when the request validated the move on
\* a row it read earlier (the FOR UPDATE read of transition, refund and callback).
LegalMoves ==
  [][\A o \in Orders :
       /\ status'[o] # status[o] /\ status[o] # "none"
            => status'[o] \in STATUS_TRANSITIONS[status[o]]
       /\ pay'[o] # pay[o] => pay'[o] \in PAYMENT_TRANSITIONS[pay[o]]]_vars

\* The audit trail replays: on each axis the history rows of an order start from
\* nothing, each goes on from the one before it on that axis, and the last ends at the
\* stored value, with no move missing or recorded twice.
Replays(rows, axis, current) ==
  LET moves == {i \in DOMAIN rows : rows[i][2] \in axis}
  IN  /\ \E n \in moves : rows[n][2] = current /\ \A i \in moves : i =< n
      /\ \A i \in moves :
           \/ rows[i][1] = "" /\ \A j \in moves : i =< j
           \/ \E j \in moves : /\ j < i /\ rows[j][2] = rows[i][1]
                               /\ \A k \in moves : k =< j \/ i =< k
HistoryReplays ==
  \A o \in Orders : status[o] # "none" =>
    /\ Replays(hist[o], Statuses, status[o])
    /\ Replays(hist[o], PayStatuses, pay[o])

\* Workers that still owe the order its stock return.
Returning(o) == {w \in Workers : pc[w] = "return" /\ job[w].order = o}
\* Workers whose refund maib carried out and that have not recorded it yet.
Recording(o) == {w \in Workers : pc[w] = "record" /\ job[w].order = o}

\* Units go back only for a cancelled order and once: a return that happened, or one
\* that a request still owes, is the only one ("this can only run once per order",
\* order_service.py), although the return runs after the row lock is gone.
ReturnedOnce ==
  \A o \in Orders :
    /\ returned[o] \in {0, 1}
    /\ returned[o] = 1 => status[o] = "canceled"
    /\ \A w \in Returning(o) :
         status[o] = "canceled" /\ returned[o] = 0 /\ Returning(o) = {w}

\* Cancelled orders whose units never came back are no more than the crashes: the
\* return is lost only when the request dies between its two transactions.
Unreturned == {o \in Orders : status[o] = "canceled" /\ returned[o] = 0 /\ Returning(o) = {}}
LostReturnsAreFaults == Cardinality(Unreturned) =< faults

\* maib refunds an order at most once for every fault plus once: two refunds that
\* overlap never both reach maib (the order row stays locked over the call), and a
\* second one happens only after the record of the first was lost.
RefundedOncePerFault ==
  \A o \in Orders :
    refunds[o] =< faults + (IF pay[o] = "refunded" \/ Recording(o) # {} THEN 1 ELSE 0)

\* The payment row never contradicts its order in a committed state: money that
\* arrived is on the order, a failed payment left no open order behind, and a
\* payment marked refunded belongs to a refunded order the bank paid back.
PaymentMatchesOrder ==
  \A o \in Orders :
    /\ payment[o] = "ok" => pay[o] \in {"paid", "refunded"} /\ maib[o] = "captured"
    /\ payment[o] = "failed" => status[o] \in {"canceled", "done"} /\ maib[o] = "declined"
    /\ payment[o] = "refunded" => pay[o] = "refunded" /\ refunds[o] > 0

\* The refund of an order is on its payment too, for good, with the two exceptions
\* the code makes (apart): staff declared the order refunded themselves, or a
\* callback was under way when the refund was recorded.  Such a callback found the
\* payment open before it waited for the order, and writes its own outcome over the
\* refund (payment_service.py:190; see PaymentTerminalStable).  A callback that comes
\* after the refund finds a terminal payment and leaves it.
RefundIsOnPayment ==
  \A o \in Orders : pay[o] = "refunded" /\ o \notin apart => payment[o] = "refunded"

\* The shop's records agree with each other: the history with the statuses, the payment
\* with the order (_apply_status, handle_callback, refund).
RecordsAgree == HistoryReplays /\ PaymentMatchesOrder /\ RefundIsOnPayment

\* Money maib captured always reaches the order, though callbacks race with one
\* another, with the back office and with crashes.
CapturedIsRecorded == \A o \in Orders : maib[o] = "captured" ~> pay[o] \in {"paid", "refunded"}

\* A declined payment always closes the order.
DeclinedCloses == \A o \in Orders : maib[o] = "declined" ~> status[o] \in {"canceled", "done"}

\* Without a fault, a cancelled order always gives its units back.
CanceledReturns == \A o \in Orders : status[o] = "canceled" ~> returned[o] = 1 \/ faults > 0

\* What the bank decided, and what a cancel owes, comes to pass (handle_callback,
\* _restore_stock).
OrdersSettle == CapturedIsRecorded /\ DeclinedCloses /\ CanceledReturns

\* A payment that reached a terminal status keeps it, but for ok becoming refunded:
\* "a repeat for an already-terminal payment is a no-op" (payment_service.py).
PaymentTerminalStable ==
  [][\A o \in Orders :
       payment[o] \in Terminal /\ payment'[o] # payment[o]
         => payment[o] = "ok" /\ payment'[o] = "refunded"]_vars

\* The lifecycle keeps the promise about stock, with no write by the back office to
\* excuse it: an order gives back what it took, in one step and at most once.
Stock == INSTANCE Inventory WITH
  EditableSkus <- {},
  held <- [o \in Orders |-> IF status[o] = "none" THEN [s \in Skus |-> 0] ELSE Items[o]],
  phase <- [o \in Orders |-> IF status[o] = "none" THEN "none"
                             ELSE IF returned[o] > 0 THEN "returned" ELSE "held"]

StockComesBackOnce == Stock!Spec
=============================================================================
