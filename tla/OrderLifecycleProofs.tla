------------------------ MODULE OrderLifecycleProofs ------------------------
(***************************************************************************)
(* For any number of orders, requests and faults: stored orders only move  *)
(* along the transition tables, units go back at most once, maib refunds   *)
(* at most once per fault plus once, and the lifecycle implements          *)
(* Inventory.                                                              *)
(***************************************************************************)
EXTENDS OrderLifecycle, FiniteSetTheorems, TLAPS

\* What the row lock gives: a request between its FOR UPDATE read and its commit
\* holds the order alone, and what it read is still what is stored.
LockInv ==
  \A w \in Workers :
    /\ pc[w] # "idle" => job[w].order \in Orders /\ status[job[w].order] # "none"
    /\ pc[w] \in {"apply", "record"} =>
         /\ orderLock[job[w].order] = w
         /\ seen[w].status = status[job[w].order]
         /\ seen[w].pay = pay[job[w].order]
    /\ pc[w] = "record" => seen[w].pay = "paid"

\* Only a placed order has a payment at maib.
PlacedInv == \A o \in Orders : payId[o] => status[o] # "none"

\* The commits of the order state machine, whichever request makes them: either
\* nothing of the order changes, or one legal transition is stored.
Settle(w) == ApplyTransition(w) \/ ApplyPaid(w) \/ ApplyFailed(w) \/ RecordRefund(w)

LEMMA SettleShape ==
  ASSUME TypeOK, LockInv, NEW w \in Workers, Settle(w)
  PROVE  /\ pc[w] \in {"apply", "record"}
         /\ payment' \in [Orders -> {"none", "pending"} \cup Terminal]
         /\ apart' \subseteq Orders
         /\ UNCHANGED <<payId, stockVars, maibVars, faults>>
         /\ \/ Finish(w) /\ UNCHANGED orderVars /\ pc[w] # "record"
            \/ \E toStatus \in Statuses \cup {None}, toPay \in PayStatuses \cup {None} :
                 /\ Legal(w, toStatus, toPay)
                 /\ Transition(w, toStatus, toPay)
                 /\ pc[w] = "record" => toPay = "refunded"
<1>1. job[w] \in [kind : {"none", "transition", "callback", "refund"},
                  order : Orders \cup {None},
                  toStatus : Statuses \cup {None},
                  toPay : PayStatuses \cup {None}]
  BY DEF TypeOK
<1>2. CASE ApplyTransition(w)
  <2>1. job[w].order \in Orders
    BY <1>2 DEF ApplyTransition, LockInv
  <2>2. apart' \subseteq Orders
    BY <1>2, <2>1 DEF ApplyTransition, TypeOK
  <2>. QED  BY <1>1, <1>2, <2>2 DEF ApplyTransition, TypeOK
<1>3. CASE ApplyPaid(w)
  <2>1. Legal(w, None, "paid") \/ seen[w].pay # "pending"
    BY DEF Legal, PAYMENT_TRANSITIONS
  <2>2. \/ Finish(w) /\ UNCHANGED orderVars
        \/ Legal(w, None, "paid") /\ Transition(w, None, "paid")
    BY <1>3, <2>1 DEF ApplyPaid
  <2>3. payment' \in [Orders -> {"none", "pending"} \cup Terminal]
    BY <1>3 DEF ApplyPaid, TypeOK, Terminal
  <2>. QED  BY <1>3, <2>2, <2>3 DEF ApplyPaid, PayStatuses, TypeOK
<1>4. CASE ApplyFailed(w)
  <2>1. Legal(w, "canceled", None) \/ seen[w].status \notin {"new", "confirmed"}
    BY DEF Legal, STATUS_TRANSITIONS
  <2>2. \/ Finish(w) /\ UNCHANGED orderVars
        \/ Legal(w, "canceled", None) /\ Transition(w, "canceled", None)
    BY <1>4, <2>1 DEF ApplyFailed
  <2>3. payment' \in [Orders -> {"none", "pending"} \cup Terminal]
    BY <1>4 DEF ApplyFailed, TypeOK, Terminal
  <2>. QED  BY <1>4, <2>2, <2>3 DEF ApplyFailed, Statuses, TypeOK
<1>5. CASE RecordRefund(w)
  <2>1. payment' \in [Orders -> {"none", "pending"} \cup Terminal]
    BY <1>5 DEF RecordRefund, TypeOK, Terminal
  <2>2. job[w].order \in Orders
    BY <1>5 DEF RecordRefund, LockInv
  <2>3. apart' \subseteq Orders
    BY <1>5, <2>2 DEF RecordRefund, TypeOK
  <2>. QED  BY <1>5, <2>1, <2>3 DEF RecordRefund, PayStatuses
<1>. QED  BY <1>2, <1>3, <1>4, <1>5 DEF Settle

\* A finished request leaves every other worker and lock as it was.
LEMMA FinishType ==
  ASSUME TypeOK, NEW w \in Workers, Finish(w)
  PROVE  /\ orderLock' \in [Orders -> Workers \cup {None}]
         /\ pc' \in [Workers -> {"idle", "lock", "apply", "record", "return"}]
         /\ job' \in [Workers -> [kind : {"none", "transition", "callback", "refund"},
                          order : Orders \cup {None},
                          toStatus : Statuses \cup {None},
                          toPay : PayStatuses \cup {None}]]
         /\ seen' \in [Workers -> [status : Statuses \cup {None},
                           pay : PayStatuses \cup {None}]]
BY DEF TypeOK, Finish, Released, NoJob, Job, Unread

\* A transition on the row as it is stored keeps the types of the order.
LEMMA TransitionType ==
  ASSUME TypeOK, LockInv, NEW w \in Workers, pc[w] \in {"apply", "record"},
         NEW toStatus \in Statuses \cup {None}, NEW toPay \in PayStatuses \cup {None},
         Transition(w, toStatus, toPay)
  PROVE  /\ status' \in [Orders -> Statuses \cup {"none"}]
         /\ pay' \in [Orders -> PayStatuses]
         /\ hist' \in [Orders -> Seq(HistoryRows)]
         /\ orderLock' \in [Orders -> Workers \cup {None}]
         /\ pc' \in [Workers -> {"idle", "lock", "apply", "record", "return"}]
         /\ job' \in [Workers -> [kind : {"none", "transition", "callback", "refund"},
                          order : Orders \cup {None},
                          toStatus : Statuses \cup {None},
                          toPay : PayStatuses \cup {None}]]
         /\ seen' \in [Workers -> [status : Statuses \cup {None},
                           pay : PayStatuses \cup {None}]]
<1>. DEFINE o == job[w].order
<1>1. o \in Orders /\ seen[w].status \in Statuses /\ seen[w].pay \in PayStatuses
  BY DEF LockInv, TypeOK
<1>2. StatusRow(w, toStatus) \in Seq(HistoryRows)
  <2>1. CASE toStatus = None
    BY <2>1 DEF StatusRow
  <2>2. CASE toStatus # None
    <3>1. <<seen[w].status, toStatus>> \in HistoryRows
      BY <1>1, <2>2 DEF HistoryRows
    <3>. QED  BY <2>2, <3>1 DEF StatusRow
  <2>. QED  BY <2>1, <2>2
<1>3. PayRow(w, toPay) \in Seq(HistoryRows)
  <2>1. CASE toPay = None
    BY <2>1 DEF PayRow
  <2>2. CASE toPay # None
    <3>1. <<seen[w].pay, toPay>> \in HistoryRows
      BY <1>1, <2>2 DEF HistoryRows
    <3>. QED  BY <2>2, <3>1 DEF PayRow
  <2>. QED  BY <2>1, <2>2
<1>4. hist[o] \o StatusRow(w, toStatus) \o PayRow(w, toPay) \in Seq(HistoryRows)
  BY <1>1, <1>2, <1>3 DEF TypeOK
<1>5. hist' \in [Orders -> Seq(HistoryRows)]
  BY <1>1, <1>4 DEF Transition, TypeOK
<1>6. /\ status' \in [Orders -> Statuses \cup {"none"}]
      /\ pay' \in [Orders -> PayStatuses]
  BY <1>1 DEF Transition, TypeOK
<1>7. CASE toStatus = "canceled"
  <2>1. orderLock' = Released(w) /\ pc' = [pc EXCEPT ![w] = "return"] /\ UNCHANGED <<job, seen>>
    BY <1>7 DEF Transition
  <2>. QED  BY <1>5, <1>6, <2>1 DEF TypeOK, Released
<1>8. CASE toStatus # "canceled"
  <2>1. Finish(w)
    BY <1>8 DEF Transition
  <2>. QED  BY <1>5, <1>6, <2>1, FinishType
<1>. QED  BY <1>7, <1>8

\* Every step keeps the types, given what the locks guarantee.
LEMMA TypeStep ==
  ASSUME TypeOK, LockInv, [Next]_vars
  PROVE  TypeOK'
<1>. USE NoneAssumption, ItemsAssumption, FaultsAssumption
<1>1. CASE UNCHANGED vars
  BY <1>1 DEF vars, TypeOK
<1>2. ASSUME NEW o \in Orders, PlaceOrder(o)
      PROVE  TypeOK'
  <2>1. <<<<"", "new">>, <<"", "pending">>>> \in Seq(HistoryRows)
    <3>. DEFINE a == <<"", "new">>
                b == <<"", "pending">>
    <3>1. a \in HistoryRows /\ b \in HistoryRows
      BY DEF HistoryRows, Statuses, PayStatuses
    <3>. HIDE DEF a, b
    <3>2. <<a, b>> \in Seq(HistoryRows)
      BY <3>1
    <3>. QED  BY <3>2 DEF a, b
  <2>2. hist' \in [Orders -> Seq(HistoryRows)]
    BY <1>2, <2>1 DEF PlaceOrder, TypeOK
  <2>3. qty' \in [Skus -> Int]
    <3>1. qty' = [s \in Skus |-> qty[s] - Items[o][s]]
      BY <1>2 DEF PlaceOrder
    <3>2. \A s \in Skus : qty[s] \in Int /\ Items[o][s] \in Nat
      BY DEF TypeOK
    <3>. QED  BY <3>1, <3>2
  <2>. QED  BY <1>2, <2>2, <2>3
         DEF PlaceOrder, TypeOK, Statuses, payVars, maibVars, workVars
<1>3. ASSUME NEW o \in Orders, InitiateCardPayment(o)
      PROVE  TypeOK'
  <2>1. /\ payment' \in [Orders -> {"none", "pending"} \cup Terminal]
        /\ payId' \in [Orders -> BOOLEAN]
        /\ maib' \in [Orders -> {"none", "open", "captured", "declined"}]
    <3>1. maib' = maib \/ maib' = [maib EXCEPT ![o] = "open"]
      BY <1>3 DEF InitiateCardPayment
    <3>2. payId' = payId \/ payId' = [payId EXCEPT ![o] = TRUE]
      BY <1>3 DEF InitiateCardPayment
    <3>3. payId' \in [Orders -> BOOLEAN]
      BY <3>2, Zenon DEF TypeOK
    <3>4. payment' = [payment EXCEPT ![o] = "pending"]
      BY <1>3 DEF InitiateCardPayment
    <3>5. payment' \in [Orders -> {"none", "pending"} \cup Terminal]
      BY <3>4 DEF TypeOK
    <3>6. maib' \in [Orders -> {"none", "open", "captured", "declined"}]
      BY <3>1 DEF TypeOK
    <3>. QED  BY <3>3, <3>5, <3>6
  <2>2. UNCHANGED <<orderVars, apart, stockVars, refunds, workVars, faults>>
    BY <1>3 DEF InitiateCardPayment
  <2>. QED  BY <2>1, <2>2 DEF TypeOK, orderVars, stockVars, workVars
<1>4. ASSUME NEW o \in Orders, MaibSettles(o)
      PROVE  TypeOK'
  BY <1>4 DEF MaibSettles, TypeOK, orderVars, payVars, stockVars, workVars
<1>5. ASSUME NEW w \in Workers, NEW j, Begin(w, j),
             j \in [kind : {"none", "transition", "callback", "refund"},
                    order : Orders \cup {None},
                    toStatus : Statuses \cup {None},
                    toPay : PayStatuses \cup {None}]
      PROVE  TypeOK'
  BY <1>5 DEF Begin, TypeOK, orderVars, payVars, stockVars, maibVars
<1>6. ASSUME NEW w \in Workers, NEW o \in Orders,
             \/ \E m \in Moves : AdminRequest(w, o, m[1], m[2])
             \/ RefundRequest(w, o)
             \/ Callback(w, o)
      PROVE  TypeOK'
  <2>1. CASE \E m \in Moves : AdminRequest(w, o, m[1], m[2])
    <3>1. PICK m \in Moves : AdminRequest(w, o, m[1], m[2])
      BY <2>1
    <3>2. m[1] \in Statuses \cup {None} /\ m[2] \in PayStatuses \cup {None}
      BY MovesAssumption
    <3>. QED  BY <1>5, <3>1, <3>2 DEF AdminRequest, Job
  <2>2. CASE RefundRequest(w, o)
    BY <1>5, <2>2 DEF RefundRequest, Job
  <2>3. CASE Callback(w, o)
    BY <1>5, <2>3 DEF Callback, Job
  <2>. QED  BY <1>6, <2>1, <2>2, <2>3
<1>7. ASSUME NEW w \in Workers, LockOrder(w)
      PROVE  TypeOK'
  <2>1. job[w].order \in Orders /\ status[job[w].order] \in Statuses
    BY <1>7 DEF LockOrder, LockInv, TypeOK
  <2>2. [status |-> status[job[w].order], pay |-> pay[job[w].order]]
          \in [status : Statuses \cup {None}, pay : PayStatuses \cup {None}]
    BY <2>1 DEF TypeOK
  <2>. QED  BY <1>7, <2>1, <2>2
         DEF LockOrder, TypeOK, orderVars, payVars, stockVars, maibVars
<1>8. ASSUME NEW w \in Workers, Settle(w)
      PROVE  TypeOK'
  <2>1. /\ pc[w] \in {"apply", "record"}
        /\ payment' \in [Orders -> {"none", "pending"} \cup Terminal]
        /\ apart' \subseteq Orders
        /\ UNCHANGED <<payId, stockVars, maibVars, faults>>
    BY <1>8, SettleShape
  <2>2. CASE Finish(w) /\ UNCHANGED orderVars
    BY <2>1, <2>2, FinishType DEF TypeOK, orderVars, stockVars, maibVars
  <2>3. ASSUME NEW toStatus \in Statuses \cup {None}, NEW toPay \in PayStatuses \cup {None},
               Transition(w, toStatus, toPay)
        PROVE  TypeOK'
    BY <2>1, <2>3, TransitionType DEF TypeOK, stockVars, maibVars
  <2>. QED  BY <1>8, <2>2, <2>3, SettleShape
<1>9. ASSUME NEW w \in Workers, CallRefund(w)
      PROVE  TypeOK'
  <2>1. UNCHANGED <<orderVars, payVars, stockVars, maib>>
    BY <1>9 DEF CallRefund
  <2>2. refunds' \in [Orders -> Nat]
    BY <1>9 DEF CallRefund, TypeOK
  <2>3. faults' \in 0 .. MaxFaults
    BY <1>9 DEF CallRefund, TypeOK
  <2>4. CASE Finish(w)
    BY <2>1, <2>2, <2>3, <2>4, FinishType DEF TypeOK, orderVars, payVars, stockVars
  <2>5. CASE pc' = [pc EXCEPT ![w] = "record"] /\ UNCHANGED <<orderLock, job, seen, faults>>
    BY <2>1, <2>2, <2>5 DEF TypeOK, orderVars, payVars, stockVars
  <2>. QED  BY <1>9, <2>4, <2>5 DEF CallRefund
<1>10. ASSUME NEW w \in Workers, ReturnStock(w)
       PROVE  TypeOK'
  <2>1. job[w].order \in Orders
    BY <1>10 DEF ReturnStock, LockInv
  <2>2. qty' \in [Skus -> Int] /\ returned' \in [Orders -> Nat]
    BY <1>10, <2>1 DEF ReturnStock, TypeOK
  <2>3. Finish(w) /\ UNCHANGED <<orderVars, payVars, maibVars, faults>>
    BY <1>10 DEF ReturnStock
  <2>. QED  BY <2>2, <2>3, FinishType DEF TypeOK, orderVars, payVars, maibVars
<1>11. ASSUME NEW w \in Workers, Crash(w)
       PROVE  TypeOK'
  <2>1. faults' \in 0 .. MaxFaults
    BY <1>11 DEF Crash, TypeOK
  <2>2. Finish(w) /\ UNCHANGED <<orderVars, payVars, stockVars, maibVars>>
    BY <1>11 DEF Crash
  <2>. QED  BY <2>1, <2>2, FinishType DEF TypeOK, orderVars, payVars, stockVars, maibVars
<1>. QED  BY <1>1, <1>2, <1>3, <1>4, <1>6, <1>7, <1>8, <1>9, <1>10, <1>11
       DEF Next, Apply, Settle

\* A request that finishes, with the orders as they were, disturbs nobody's lock.
LEMMA FinishLock ==
  ASSUME TypeOK, LockInv, NEW w \in Workers, Finish(w), UNCHANGED <<status, pay>>
  PROVE  LockInv'
<1>. SUFFICES ASSUME NEW v \in Workers
              PROVE  /\ pc'[v] # "idle" => job'[v].order \in Orders /\ status'[job'[v].order] # "none"
                     /\ pc'[v] \in {"apply", "record"} =>
                          /\ orderLock'[job'[v].order] = v
                          /\ seen'[v].status = status'[job'[v].order]
                          /\ seen'[v].pay = pay'[job'[v].order]
                     /\ pc'[v] = "record" => seen'[v].pay = "paid"
  BY DEF LockInv
<1>1. CASE v = w
  <2>1. pc'[v] = "idle"
    BY <1>1 DEF Finish, TypeOK
  <2>. QED  BY <2>1
<1>2. CASE v # w
  <2>1. pc'[v] = pc[v] /\ job'[v] = job[v] /\ seen'[v] = seen[v]
    BY <1>2 DEF Finish, TypeOK
  <2>2. ASSUME NEW o \in Orders, orderLock[o] = v
        PROVE  orderLock'[o] = v
    BY <1>2, <2>2 DEF Finish, Released
  <2>. QED  BY <2>1, <2>2 DEF LockInv
<1>. QED  BY <1>1, <1>2

\* Every step keeps the lock invariant.
LEMMA LockStep ==
  ASSUME TypeOK, TypeOK', LockInv, PlacedInv, [Next]_vars
  PROVE  LockInv' /\ PlacedInv'
<1>. USE NoneAssumption
<1>1. CASE UNCHANGED vars
  BY <1>1 DEF vars, LockInv, PlacedInv
<1>2. ASSUME NEW o \in Orders, PlaceOrder(o)
      PROVE  LockInv' /\ PlacedInv'
  <2>1. \A p \in Orders : status[p] # "none" => status'[p] = status[p]
    <3>1. status \in [Orders -> Statuses \cup {"none"}]
      BY DEF TypeOK
    <3>. QED  BY <1>2, <3>1 DEF PlaceOrder
  <2>2. UNCHANGED <<pay, payId, workVars>>
    BY <1>2 DEF PlaceOrder, payVars
  <2>. QED  BY <2>1, <2>2 DEF LockInv, PlacedInv, workVars
<1>3. ASSUME NEW o \in Orders, InitiateCardPayment(o) \/ MaibSettles(o)
      PROVE  LockInv' /\ PlacedInv'
  <2>1. LockInv'
    BY <1>3 DEF InitiateCardPayment, MaibSettles, LockInv, workVars, orderVars
  <2>2. PlacedInv'
    BY <1>3 DEF InitiateCardPayment, MaibSettles, PlacedInv, TypeOK, orderVars, payVars
  <2>. QED  BY <2>1, <2>2
<1>4. ASSUME NEW w \in Workers, NEW j, j.order \in Orders, status[j.order] # "none", Begin(w, j)
      PROVE  LockInv' /\ PlacedInv'
  <2>1. pc'[w] = "lock" /\ job'[w] = j
    BY <1>4 DEF Begin, TypeOK
  <2>2. \A v \in Workers \ {w} : pc'[v] = pc[v] /\ job'[v] = job[v]
    BY <1>4 DEF Begin, TypeOK
  <2>3. UNCHANGED <<status, pay, payId, orderLock, seen>>
    BY <1>4 DEF Begin, orderVars, payVars
  <2>. QED  BY <1>4, <2>1, <2>2, <2>3 DEF LockInv, PlacedInv
<1>5. ASSUME NEW w \in Workers, NEW o \in Orders,
             \/ \E m \in Moves : AdminRequest(w, o, m[1], m[2])
             \/ RefundRequest(w, o)
             \/ Callback(w, o)
      PROVE  LockInv' /\ PlacedInv'
  <2>1. CASE \E m \in Moves : AdminRequest(w, o, m[1], m[2])
    BY <1>4, <2>1 DEF AdminRequest, Job
  <2>2. CASE RefundRequest(w, o)
    BY <1>4, <2>2 DEF RefundRequest, Job
  <2>3. CASE Callback(w, o)
    <3>1. status[o] # "none"
      BY <2>3 DEF Callback, PlacedInv
    <3>. QED  BY <1>4, <2>3, <3>1 DEF Callback, Job
  <2>. QED  BY <1>5, <2>1, <2>2, <2>3
<1>6. ASSUME NEW w \in Workers, LockOrder(w)
      PROVE  LockInv' /\ PlacedInv'
  <2>. DEFINE o == job[w].order
  <2>1. o \in Orders /\ status[o] # "none"
    BY <1>6 DEF LockOrder, LockInv
  <2>2. UNCHANGED <<status, pay, payId, job>>
    BY <1>6 DEF LockOrder, orderVars, payVars
  <2>3. /\ pc'[w] = "apply"
        /\ orderLock'[o] = w
        /\ seen'[w] = [status |-> status[o], pay |-> pay[o]]
    BY <1>6, <2>1 DEF LockOrder, TypeOK
  <2>4. \A v \in Workers \ {w} : pc'[v] = pc[v] /\ seen'[v] = seen[v]
    BY <1>6 DEF LockOrder, TypeOK
  <2>5. \A p \in Orders : orderLock[p] # None => orderLock'[p] = orderLock[p]
    BY <1>6, <2>1 DEF LockOrder, TypeOK
  <2>6. PlacedInv'
    BY <2>2 DEF PlacedInv
  <2>. HIDE DEF o
  <2>7. ASSUME NEW v \in Workers, v = w
        PROVE  /\ pc'[v] # "idle" => job'[v].order \in Orders /\ status'[job'[v].order] # "none"
               /\ pc'[v] \in {"apply", "record"} =>
                    /\ orderLock'[job'[v].order] = v
                    /\ seen'[v].status = status'[job'[v].order]
                    /\ seen'[v].pay = pay'[job'[v].order]
               /\ pc'[v] = "record" => seen'[v].pay = "paid"
    BY <2>1, <2>2, <2>3, <2>7 DEF o
  <2>8. ASSUME NEW v \in Workers, v # w
        PROVE  /\ pc'[v] # "idle" => job'[v].order \in Orders /\ status'[job'[v].order] # "none"
               /\ pc'[v] \in {"apply", "record"} =>
                    /\ orderLock'[job'[v].order] = v
                    /\ seen'[v].status = status'[job'[v].order]
                    /\ seen'[v].pay = pay'[job'[v].order]
               /\ pc'[v] = "record" => seen'[v].pay = "paid"
    BY <2>2, <2>4, <2>5, <2>8 DEF LockInv
  <2>9. LockInv'
    BY <2>7, <2>8 DEF LockInv
  <2>. QED  BY <2>6, <2>9
<1>7. ASSUME NEW w \in Workers, Settle(w)
      PROVE  LockInv' /\ PlacedInv'
  <2>1. pc[w] \in {"apply", "record"} /\ UNCHANGED payId
    BY <1>7, SettleShape
  <2>2. CASE Finish(w) /\ UNCHANGED orderVars
    BY <2>1, <2>2, FinishLock DEF orderVars, PlacedInv
  <2>3. ASSUME NEW toStatus \in Statuses \cup {None}, NEW toPay \in PayStatuses \cup {None},
               Transition(w, toStatus, toPay)
        PROVE  LockInv' /\ PlacedInv'
    <3>. DEFINE o == job[w].order
    <3>1. o \in Orders /\ orderLock[o] = w /\ status[o] # "none"
      BY <2>1 DEF LockInv
    <3>2. /\ \A p \in Orders : status[p] # "none" => status'[p] # "none"
          /\ \A p \in Orders \ {o} : status'[p] = status[p] /\ pay'[p] = pay[p]
      BY <2>3, <3>1 DEF Transition, TypeOK, Statuses
    <3>3. /\ pc'[w] \in {"idle", "return"}
          /\ pc'[w] = "return" => job'[w] = job[w]
      BY <2>3 DEF Transition, Finish, TypeOK
    <3>4. \A v \in Workers \ {w} : pc'[v] = pc[v] /\ job'[v] = job[v] /\ seen'[v] = seen[v]
      BY <2>3 DEF Transition, Finish, TypeOK
    <3>5. \A p \in Orders : orderLock[p] # w => orderLock'[p] = orderLock[p]
      BY <2>3 DEF Transition, Finish, Released
    <3>6. PlacedInv'
      BY <2>1, <3>2 DEF PlacedInv
    <3>. HIDE DEF o
    <3>7. ASSUME NEW v \in Workers, v = w
          PROVE  /\ pc'[v] # "idle" => job'[v].order \in Orders /\ status'[job'[v].order] # "none"
                 /\ pc'[v] \notin {"apply", "record"}
      BY <3>1, <3>2, <3>3, <3>7 DEF o
    <3>8. ASSUME NEW v \in Workers, v # w
          PROVE  /\ pc'[v] # "idle" => job'[v].order \in Orders /\ status'[job'[v].order] # "none"
                 /\ pc'[v] \in {"apply", "record"} =>
                      /\ orderLock'[job'[v].order] = v
                      /\ seen'[v].status = status'[job'[v].order]
                      /\ seen'[v].pay = pay'[job'[v].order]
                 /\ pc'[v] = "record" => seen'[v].pay = "paid"
      BY <3>1, <3>2, <3>4, <3>5, <3>8 DEF LockInv
    <3>9. LockInv'
      BY <3>7, <3>8 DEF LockInv
    <3>. QED  BY <3>6, <3>9
  <2>. QED  BY <1>7, <2>2, <2>3, SettleShape
<1>8. ASSUME NEW w \in Workers, CallRefund(w)
      PROVE  LockInv' /\ PlacedInv'
  <2>1. UNCHANGED <<status, pay, payId>>
    BY <1>8 DEF CallRefund, orderVars, payVars
  <2>2. CASE Finish(w)
    BY <2>1, <2>2, FinishLock DEF PlacedInv
  <2>3. CASE Refundable(w) /\ pc' = [pc EXCEPT ![w] = "record"] /\ UNCHANGED <<orderLock, job, seen>>
    <3>1. pc[w] = "apply" /\ seen[w].pay = "paid"
      BY <1>8, <2>3 DEF CallRefund, Refundable
    <3>2. \A v \in Workers : pc'[v] = IF v = w THEN "record" ELSE pc[v]
      BY <2>3 DEF TypeOK
    <3>. QED  BY <2>1, <2>3, <3>1, <3>2 DEF LockInv, PlacedInv
  <2>. QED  BY <1>8, <2>2, <2>3 DEF CallRefund
<1>9. ASSUME NEW w \in Workers, ReturnStock(w) \/ Crash(w)
      PROVE  LockInv' /\ PlacedInv'
  <2>1. Finish(w) /\ UNCHANGED <<status, pay, payId>>
    BY <1>9 DEF ReturnStock, Crash, orderVars, payVars
  <2>. QED  BY <2>1, FinishLock DEF PlacedInv
<1>. QED  BY <1>1, <1>2, <1>3, <1>5, <1>6, <1>7, <1>8, <1>9 DEF Next, Apply, Settle

\* The lifecycle keeps its types for every set of orders and requests, and a
\* request decides on the row that is stored.
THEOREM TypeCorrect == Spec => [](TypeOK /\ LockInv)
<1>1. Init => TypeOK /\ LockInv /\ PlacedInv
  BY NoneAssumption, ItemsAssumption, FaultsAssumption
  DEF Init, TypeOK, LockInv, PlacedInv, NoJob, Job, Unread, Statuses, PayStatuses
<1>2. TypeOK /\ LockInv /\ PlacedInv /\ [Next]_vars => (TypeOK /\ LockInv /\ PlacedInv)'
  BY TypeStep, LockStep
<1>. QED  BY <1>1, <1>2, PTL DEF Spec

-----------------------------------------------------------------------------
\* A legal transition moves the stored order along the tables.
LEMMA TransitionLegal ==
  ASSUME TypeOK, LockInv, NEW w \in Workers, pc[w] \in {"apply", "record"},
         NEW toStatus \in Statuses \cup {None}, NEW toPay \in PayStatuses \cup {None},
         Legal(w, toStatus, toPay), Transition(w, toStatus, toPay), NEW o \in Orders
  PROVE  /\ status'[o] # status[o] => status'[o] \in STATUS_TRANSITIONS[status[o]]
         /\ pay'[o] # pay[o] => pay'[o] \in PAYMENT_TRANSITIONS[pay[o]]
<1>1. CASE o = job[w].order
  <2>1. seen[w].status = status[o] /\ seen[w].pay = pay[o]
    BY <1>1 DEF LockInv
  <2>2. /\ status'[o] = IF toStatus = None THEN status[o] ELSE toStatus
        /\ pay'[o] = IF toPay = None THEN pay[o] ELSE toPay
    BY <1>1 DEF Transition, TypeOK
  <2>. QED  BY <2>1, <2>2 DEF Legal
<1>2. CASE o # job[w].order
  BY <1>2 DEF Transition, TypeOK
<1>. QED  BY <1>1, <1>2

\* Every step moves every stored order along the tables, or not at all.
LEMMA MoveStep ==
  ASSUME TypeOK, LockInv, [Next]_vars, NEW o \in Orders
  PROVE  /\ status'[o] # status[o] /\ status[o] # "none"
              => status'[o] \in STATUS_TRANSITIONS[status[o]]
         /\ pay'[o] # pay[o] => pay'[o] \in PAYMENT_TRANSITIONS[pay[o]]
<1>1. CASE UNCHANGED <<status, pay>>
  BY <1>1
<1>2. ASSUME NEW p \in Orders, PlaceOrder(p)
      PROVE  pay' = pay /\ (status[o] # "none" => status'[o] = status[o])
  BY <1>2 DEF PlaceOrder, TypeOK
<1>3. ASSUME NEW w \in Workers, Settle(w), ~ UNCHANGED <<status, pay>>
      PROVE  /\ status'[o] # status[o] => status'[o] \in STATUS_TRANSITIONS[status[o]]
             /\ pay'[o] # pay[o] => pay'[o] \in PAYMENT_TRANSITIONS[pay[o]]
  BY <1>3, SettleShape, TransitionLegal DEF orderVars
<1>4. ASSUME NEW w \in Workers, LockOrder(w) \/ CallRefund(w) \/ ReturnStock(w) \/ Crash(w)
      PROVE  UNCHANGED <<status, pay>>
  BY <1>4 DEF LockOrder, CallRefund, ReturnStock, Crash, orderVars
<1>5. ASSUME NEW p \in Orders, InitiateCardPayment(p) \/ MaibSettles(p)
      PROVE  UNCHANGED <<status, pay>>
  BY <1>5 DEF InitiateCardPayment, MaibSettles, orderVars
<1>6. ASSUME NEW w \in Workers, NEW p \in Orders,
             \/ \E m \in Moves : AdminRequest(w, p, m[1], m[2])
             \/ RefundRequest(w, p)
             \/ Callback(w, p)
      PROVE  UNCHANGED <<status, pay>>
  BY <1>6 DEF AdminRequest, RefundRequest, Callback, Begin, orderVars
<1>7. CASE UNCHANGED vars
  BY <1>7 DEF vars
<1>. QED  BY <1>1, <1>2, <1>3, <1>4, <1>5, <1>6, <1>7 DEF Next, Apply, Settle

\* Stored orders only move along the transition tables, however many requests race.
THEOREM MovesAreLegal == Spec => LegalMoves
<1>. DEFINE Body == \A o \in Orders :
       /\ status'[o] # status[o] /\ status[o] # "none"
            => status'[o] \in STATUS_TRANSITIONS[status[o]]
       /\ pay'[o] # pay[o] => pay'[o] \in PAYMENT_TRANSITIONS[pay[o]]
<1>1. TypeOK /\ LockInv /\ [Next]_vars => [Body]_vars
  BY MoveStep
<1>. QED  BY <1>1, TypeCorrect, PTL DEF Spec, LegalMoves

-----------------------------------------------------------------------------
\* Steps that leave the orders and the returned stock alone and give nobody a new
\* return to make keep ReturnedOnce.
LEMMA QuietReturn ==
  ASSUME ReturnedOnce, UNCHANGED <<status, returned>>,
         \A v \in Workers : pc'[v] = "return" => pc[v] = "return" /\ job'[v] = job[v]
  PROVE  ReturnedOnce'
BY DEF ReturnedOnce, Returning

\* What Finish does to the other requests.
LEMMA FinishOthers ==
  ASSUME TypeOK, NEW w \in Workers, Finish(w)
  PROVE  /\ pc'[w] = "idle"
         /\ \A v \in Workers \ {w} : pc'[v] = pc[v] /\ job'[v] = job[v]
BY DEF TypeOK, Finish

\* Every step keeps ReturnedOnce: only an open order can be cancelled, so nobody
\* owes or has made its return before.
LEMMA ReturnStep ==
  ASSUME TypeOK, LockInv, ReturnedOnce, [Next]_vars
  PROVE  ReturnedOnce'
<1>1. CASE UNCHANGED vars
  BY <1>1, QuietReturn DEF vars
<1>2. ASSUME NEW o \in Orders, PlaceOrder(o)
      PROVE  ReturnedOnce'
  <2>1. /\ status[o] = "none"
        /\ \A p \in Orders \ {o} : status'[p] = status[p]
        /\ UNCHANGED <<returned, pc, job>>
    BY <1>2 DEF PlaceOrder, TypeOK, workVars
  <2>. QED  BY <2>1 DEF ReturnedOnce, Returning
<1>3. ASSUME NEW o \in Orders, InitiateCardPayment(o) \/ MaibSettles(o)
      PROVE  ReturnedOnce'
  BY <1>3, QuietReturn DEF InitiateCardPayment, MaibSettles, orderVars, stockVars, workVars
<1>4. ASSUME NEW w \in Workers, NEW o \in Orders,
             \/ \E m \in Moves : AdminRequest(w, o, m[1], m[2])
             \/ RefundRequest(w, o)
             \/ Callback(w, o)
      PROVE  ReturnedOnce'
  <2>1. /\ UNCHANGED <<status, returned>>
        /\ \A v \in Workers : pc'[v] = "return" => pc[v] = "return" /\ job'[v] = job[v]
    BY <1>4 DEF AdminRequest, RefundRequest, Callback, Begin, TypeOK, orderVars, stockVars
  <2>. QED  BY <2>1, QuietReturn
<1>5. ASSUME NEW w \in Workers, LockOrder(w)
      PROVE  ReturnedOnce'
  <2>1. /\ UNCHANGED <<status, returned, job>>
        /\ \A v \in Workers : pc'[v] = "return" => pc[v] = "return"
    BY <1>5 DEF LockOrder, TypeOK, orderVars, stockVars
  <2>. QED  BY <2>1, QuietReturn
<1>6. ASSUME NEW w \in Workers, Finish(w), UNCHANGED <<status, returned>>
      PROVE  ReturnedOnce'
  BY <1>6, FinishOthers, QuietReturn
<1>7. ASSUME NEW w \in Workers, Settle(w)
      PROVE  ReturnedOnce'
  <2>1. pc[w] \in {"apply", "record"} /\ UNCHANGED returned
    BY <1>7, SettleShape DEF stockVars
  <2>2. CASE Finish(w) /\ UNCHANGED orderVars
    BY <1>6, <2>1, <2>2 DEF orderVars
  <2>3. ASSUME NEW toStatus \in Statuses \cup {None}, NEW toPay \in PayStatuses \cup {None},
               Legal(w, toStatus, toPay), Transition(w, toStatus, toPay)
        PROVE  ReturnedOnce'
    <3>. DEFINE o == job[w].order
    <3>1. o \in Orders
      BY <2>1 DEF LockInv
    <3>2. \A p \in Orders : status'[p] # status[p] => p = o /\ status[p] \in {"new", "confirmed"}
      <4>1. \A p \in Orders \ {o} : status'[p] = status[p]
        BY <2>3 DEF Transition, TypeOK
      <4>2. status'[o] # status[o] => status'[o] \in STATUS_TRANSITIONS[status[o]]
        BY <2>1, <2>3, <3>1, TransitionLegal
      <4>3. status[o] # "none" /\ status[o] \in Statuses
        BY <2>1, <3>1 DEF LockInv, TypeOK
      <4>. QED  BY <4>1, <4>2, <4>3 DEF STATUS_TRANSITIONS, Statuses
    <3>3. \A v \in Workers \ {w} : pc'[v] = pc[v] /\ job'[v] = job[v]
      BY <2>3 DEF Transition, Finish, TypeOK
    <3>4. CASE toStatus = "canceled"
      <4>1. pc'[w] = "return" /\ job'[w] = job[w] /\ status'[o] = "canceled"
        BY <2>3, <3>1, <3>4, NoneAssumption DEF Transition, TypeOK, Statuses
      <4>2. status[o] # "canceled"
        BY <2>1, <2>3, <3>1, <3>4, NoneAssumption
        DEF Legal, LockInv, STATUS_TRANSITIONS, TypeOK, Statuses
      <4>. HIDE DEF o
      <4>3. returned[o] = 0 /\ Returning(o) = {}
        BY <3>1, <4>2 DEF ReturnedOnce
      <4>4. \A v \in Workers : pc'[v] = "return" /\ job'[v].order = o => v = w
        BY <3>3, <4>3 DEF Returning
      <4>5. ASSUME NEW p \in Orders \ {o}
            PROVE  Returning(p)' = Returning(p) /\ status'[p] = status[p]
        BY <2>1, <3>2, <3>3, <4>1 DEF Returning, o
      <4>6. ASSUME NEW p \in Orders
            PROVE  /\ returned'[p] \in {0, 1}
                   /\ returned'[p] = 1 => status'[p] = "canceled"
                   /\ \A v \in Returning(p)' :
                        status'[p] = "canceled" /\ returned'[p] = 0 /\ Returning(p)' = {v}
        <5>1. CASE p = o
          BY <2>1, <3>1, <4>1, <4>3, <4>4, <5>1 DEF Returning
        <5>2. CASE p # o
          BY <2>1, <4>5, <5>2 DEF ReturnedOnce
        <5>. QED  BY <5>1, <5>2
      <4>. QED  BY <4>6 DEF ReturnedOnce
    <3>5. CASE toStatus # "canceled"
      <4>1. pc'[w] = "idle"
        BY <2>3, <3>5 DEF Transition, Finish, TypeOK
      <4>2. \A p \in Orders : Returning(p)' \subseteq Returning(p)
        BY <3>3, <4>1 DEF Returning
      <4>. HIDE DEF o
      <4>. QED  BY <2>1, <3>2, <4>2 DEF ReturnedOnce
    <3>. QED  BY <3>4, <3>5
  <2>. QED  BY <1>7, <2>2, <2>3, SettleShape
<1>8. ASSUME NEW w \in Workers, CallRefund(w)
      PROVE  ReturnedOnce'
  <2>1. UNCHANGED <<status, returned>>
    BY <1>8 DEF CallRefund, orderVars, stockVars
  <2>2. CASE Finish(w)
    BY <1>6, <2>1, <2>2
  <2>3. CASE pc' = [pc EXCEPT ![w] = "record"] /\ UNCHANGED <<orderLock, job, seen, faults>>
    BY <2>1, <2>3, QuietReturn DEF TypeOK
  <2>. QED  BY <1>8, <2>2, <2>3 DEF CallRefund
<1>9. ASSUME NEW w \in Workers, ReturnStock(w)
      PROVE  ReturnedOnce'
  <2>. DEFINE o == job[w].order
  <2>1. o \in Orders /\ w \in Returning(o)
    BY <1>9 DEF ReturnStock, LockInv, Returning
  <2>2. returned'[o] = returned[o] + 1 /\ \A p \in Orders \ {o} : returned'[p] = returned[p]
    BY <1>9, <2>1 DEF ReturnStock, TypeOK
  <2>3. UNCHANGED status /\ Finish(w)
    BY <1>9 DEF ReturnStock, orderVars
  <2>. HIDE DEF o
  <2>4. /\ status[o] = "canceled" /\ returned[o] = 0 /\ Returning(o) = {w}
    BY <2>1 DEF ReturnedOnce
  <2>5. \A p \in Orders : Returning(p)' \subseteq Returning(p) \ {w}
    BY <2>3, FinishOthers DEF Returning
  <2>. QED  BY <2>1, <2>2, <2>3, <2>4, <2>5 DEF ReturnedOnce
<1>10. ASSUME NEW w \in Workers, Crash(w)
       PROVE  ReturnedOnce'
  BY <1>6, <1>10 DEF Crash, orderVars, stockVars
<1>. QED  BY <1>1, <1>2, <1>3, <1>4, <1>5, <1>7, <1>8, <1>9, <1>10 DEF Next, Apply, Settle

\* A cancelled order gives its units back at most once, although the return runs
\* after the lock on the order is gone.
THEOREM UnitsReturnOnce == Spec => []ReturnedOnce
<1>1. Init => ReturnedOnce
  BY DEF Init, ReturnedOnce, Returning
<1>2. TypeOK /\ LockInv /\ ReturnedOnce /\ [Next]_vars => ReturnedOnce'
  BY ReturnStep
<1>. QED  BY <1>1, <1>2, TypeCorrect, PTL DEF Spec

-----------------------------------------------------------------------------
\* Whether a refund of the order is on record, or about to be recorded.
Settled(o) == pay[o] = "refunded" \/ \E w \in Workers : pc[w] = "record" /\ job[w].order = o

\* RefundedOncePerFault, with its two cases apart.
RefundInv ==
  \A o \in Orders :
    /\ refunds[o] =< faults + 1
    /\ ~ Settled(o) => refunds[o] =< faults

\* Steps that call maib for nobody and leave every settled order settled.
LEMMA QuietRefund ==
  ASSUME RefundInv, UNCHANGED <<refunds, faults>>,
         \A o \in Orders : Settled(o) => Settled(o)'
  PROVE  RefundInv'
BY DEF RefundInv

\* A fault pays for the record that it loses.
LEMMA FaultRefund ==
  ASSUME TypeOK, TypeOK', RefundInv, UNCHANGED refunds, faults' = faults + 1
  PROVE  RefundInv'
<1>1. \A o \in Orders : refunds[o] \in Nat /\ faults \in Nat
  BY FaultsAssumption DEF TypeOK
<1>. QED  BY <1>1 DEF RefundInv

\* Every step keeps RefundInv: maib is called under the lock, on a paid order.
LEMMA RefundStep ==
  ASSUME TypeOK, TypeOK', LockInv, RefundInv, [Next]_vars
  PROVE  RefundInv'
<1>1. CASE UNCHANGED vars
  BY <1>1, QuietRefund DEF vars, Settled
<1>2. ASSUME NEW o \in Orders, PlaceOrder(o) \/ InitiateCardPayment(o) \/ MaibSettles(o)
      PROVE  RefundInv'
  BY <1>2, QuietRefund
  DEF PlaceOrder, InitiateCardPayment, MaibSettles, orderVars, maibVars, workVars, Settled
<1>3. ASSUME NEW w \in Workers, pc[w] # "record", UNCHANGED <<refunds, faults, pay>>,
             \A v \in Workers \ {w} : pc'[v] = pc[v] /\ job'[v] = job[v]
      PROVE  RefundInv'
  <2>1. \A o \in Orders : Settled(o) => Settled(o)'
    BY <1>3 DEF Settled
  <2>. QED  BY <1>3, <2>1, QuietRefund
<1>4. ASSUME NEW w \in Workers, NEW o \in Orders,
             \/ \E m \in Moves : AdminRequest(w, o, m[1], m[2])
             \/ RefundRequest(w, o)
             \/ Callback(w, o)
      PROVE  RefundInv'
  <2>1. /\ pc[w] = "idle"
        /\ UNCHANGED <<refunds, faults, pay>>
        /\ \A v \in Workers \ {w} : pc'[v] = pc[v] /\ job'[v] = job[v]
    BY <1>4 DEF AdminRequest, RefundRequest, Callback, Begin, TypeOK, orderVars, maibVars
  <2>. QED  BY <1>3, <2>1
<1>5. ASSUME NEW w \in Workers, LockOrder(w)
      PROVE  RefundInv'
  <2>1. /\ pc[w] = "lock"
        /\ UNCHANGED <<refunds, faults, pay>>
        /\ \A v \in Workers \ {w} : pc'[v] = pc[v] /\ job'[v] = job[v]
    BY <1>5 DEF LockOrder, TypeOK, orderVars, maibVars
  <2>. QED  BY <1>3, <2>1
<1>6. ASSUME NEW w \in Workers, Settle(w)
      PROVE  RefundInv'
  <2>1. pc[w] \in {"apply", "record"} /\ UNCHANGED <<refunds, faults>>
    BY <1>6, SettleShape DEF maibVars
  <2>2. CASE Finish(w) /\ UNCHANGED orderVars /\ pc[w] # "record"
    BY <1>3, <2>1, <2>2, FinishOthers DEF orderVars
  <2>3. ASSUME NEW toStatus \in Statuses \cup {None}, NEW toPay \in PayStatuses \cup {None},
               Legal(w, toStatus, toPay), Transition(w, toStatus, toPay),
               pc[w] = "record" => toPay = "refunded"
        PROVE  RefundInv'
    <3>. DEFINE o == job[w].order
    <3>1. o \in Orders /\ orderLock[o] = w
      BY <2>1 DEF LockInv
    <3>2. \A v \in Workers \ {w} : pc'[v] = pc[v] /\ job'[v] = job[v]
      BY <2>3 DEF Transition, Finish, TypeOK
    <3>3. \A p \in Orders \ {o} : pay'[p] = pay[p]
      BY <2>3 DEF Transition, TypeOK
    <3>4. pay[o] = "refunded" => pay'[o] = "refunded"
      <4>1. pay'[o] # pay[o] => pay'[o] \in PAYMENT_TRANSITIONS[pay[o]]
        BY <2>1, <2>3, <3>1, TransitionLegal
      <4>. QED  BY <4>1 DEF PAYMENT_TRANSITIONS
    <3>5. pc[w] = "record" => pay'[o] = "refunded"
      BY <2>3, <3>1, NoneAssumption DEF Transition, TypeOK, PayStatuses
    <3>6. \A v \in Workers \ {w} : pc[v] = "record" => job[v].order # o
      BY <3>1 DEF LockInv
    <3>. HIDE DEF o
    <3>7. ASSUME NEW p \in Orders, Settled(p)
          PROVE  Settled(p)'
      <4>1. CASE pay[p] = "refunded"
        BY <3>3, <3>4, <4>1 DEF Settled
      <4>2. CASE \E v \in Workers : pc[v] = "record" /\ job[v].order = p
        <5>1. PICK v \in Workers : pc[v] = "record" /\ job[v].order = p
          BY <4>2
        <5>2. CASE v = w
          BY <3>5, <5>1, <5>2 DEF Settled, o
        <5>3. CASE v # w
          BY <3>2, <5>1, <5>3 DEF Settled
        <5>. QED  BY <5>2, <5>3
      <4>. QED  BY <3>7, <4>1, <4>2 DEF Settled
    <3>. QED  BY <2>1, <3>7, QuietRefund
  <2>. QED  BY <1>6, <2>2, <2>3, SettleShape
<1>7. ASSUME NEW w \in Workers, CallRefund(w)
      PROVE  RefundInv'
  <2>1. PICK o \in Orders : /\ o = job[w].order
                            /\ orderLock[o] = w
                            /\ seen[w].pay = pay[o]
                            /\ pc[w] = "apply"
    BY <1>7 DEF CallRefund, LockInv
  <2>2. UNCHANGED pay /\ faults \in Nat /\ \A p \in Orders : refunds[p] \in Nat
    BY <1>7, FaultsAssumption DEF CallRefund, orderVars, TypeOK
  <2>3. CASE Finish(w) /\ UNCHANGED <<refunds, faults>>
    BY <1>3, <2>1, <2>2, <2>3, FinishOthers
  <2>4. CASE Refundable(w) /\ refunds' = [refunds EXCEPT ![o] = @ + 1]
    <3>1. ~ Settled(o)
      <4>1. pay[o] = "paid"
        BY <2>1, <2>4 DEF Refundable
      <4>2. \A v \in Workers : pc[v] = "record" => job[v].order # o
        BY <2>1 DEF LockInv
      <4>. QED  BY <4>1, <4>2 DEF Settled
    <3>2. /\ refunds'[o] = refunds[o] + 1
          /\ \A p \in Orders \ {o} : refunds'[p] = refunds[p]
      BY <2>1, <2>4 DEF TypeOK
    <3>3. CASE pc' = [pc EXCEPT ![w] = "record"] /\ UNCHANGED <<orderLock, job, seen, faults>>
      <4>1. /\ \A v \in Workers : pc[v] = "record" => pc'[v] = "record"
            /\ pc'[w] = "record"
        BY <3>3 DEF TypeOK
      <4>2. Settled(o)'
        BY <2>1, <3>3, <4>1 DEF Settled
      <4>3. \A p \in Orders : Settled(p) => Settled(p)'
        BY <2>2, <3>3, <4>1 DEF Settled
      <4>. QED  BY <2>1, <2>2, <3>1, <3>2, <3>3, <4>2, <4>3 DEF RefundInv
    <3>4. CASE faults' = faults + 1
      BY <2>1, <2>2, <3>1, <3>2, <3>4 DEF RefundInv
    <3>. QED  BY <1>7, <2>1, <2>2, <2>4, <3>2, <3>3, <3>4 DEF CallRefund
  <2>. QED  BY <1>7, <2>1, <2>3, <2>4 DEF CallRefund
<1>8. ASSUME NEW w \in Workers, ReturnStock(w)
      PROVE  RefundInv'
  <2>1. pc[w] = "return" /\ Finish(w) /\ UNCHANGED <<refunds, faults, pay>>
    BY <1>8 DEF ReturnStock, orderVars, maibVars
  <2>. QED  BY <1>3, <2>1, FinishOthers
<1>9. ASSUME NEW w \in Workers, Crash(w)
      PROVE  RefundInv'
  BY <1>9, FaultRefund DEF Crash, maibVars
<1>. QED  BY <1>1, <1>2, <1>4, <1>5, <1>6, <1>7, <1>8, <1>9 DEF Next, Apply, Settle

\* Overlapping refunds of one order never both reach maib; a second refund needs a
\* fault that lost the record of the first.
THEOREM RefundsAreAccounted == Spec => []RefundedOncePerFault
<1>1. Init => RefundInv
  BY FaultsAssumption DEF Init, RefundInv, Settled
<1>2. TypeOK /\ TypeOK' /\ LockInv /\ RefundInv /\ [Next]_vars => RefundInv'
  BY RefundStep
<1>3. TypeOK /\ RefundInv => RefundedOncePerFault
  <2>. SUFFICES ASSUME TypeOK, RefundInv, NEW o \in Orders
                PROVE  refunds[o] =< faults + (IF pay[o] = "refunded" \/ Recording(o) # {} THEN 1 ELSE 0)
    BY DEF RefundedOncePerFault
  <2>1. refunds[o] \in Nat /\ faults \in Nat
    BY FaultsAssumption DEF TypeOK
  <2>2. Settled(o) => pay[o] = "refunded" \/ Recording(o) # {}
    BY DEF Settled, Recording
  <2>. QED  BY <2>1, <2>2 DEF RefundInv
<1>. QED  BY <1>1, <1>2, <1>3, TypeCorrect, PTL DEF Spec

-----------------------------------------------------------------------------
\* An order that is not placed waits for its payment, and a refund that is about to
\* be recorded was carried out.
RecordedInv ==
  /\ \A o \in Orders : status[o] = "none" => pay[o] = "pending"
  /\ \A w \in Workers : pc[w] = "record" => refunds[job[w].order] > 0

\* A row on the axis goes on from where the history stood.
LEMMA ReplayOn ==
  ASSUME NEW rows \in Seq(HistoryRows), NEW axis, NEW current,
         NEW row \in HistoryRows, row[1] = current, row[2] \in axis,
         Replays(rows, axis, current)
  PROVE  Replays(rows \o <<row>>, axis, row[2])
<1>. DEFINE longer == rows \o <<row>>
            n == Len(rows) + 1
            moves == {i \in DOMAIN rows : rows[i][2] \in axis}
            movesNext == {i \in DOMAIN longer : longer[i][2] \in axis}
<1>1. /\ Len(rows) \in Nat /\ DOMAIN rows = 1 .. Len(rows)
      /\ DOMAIN longer = 1 .. n /\ longer[n] = row
      /\ \A i \in 1 .. Len(rows) : longer[i] = rows[i]
  OBVIOUS
<1>2. movesNext = moves \cup {n} /\ \A i \in moves : i \in Nat /\ i < n /\ longer[i] = rows[i]
  BY <1>1
<1>3. PICK last \in moves : rows[last][2] = current /\ \A i \in moves : i =< last
  BY DEF Replays
<1>4. \A i \in moves :
        \/ rows[i][1] = "" /\ \A j \in moves : i =< j
        \/ \E j \in moves : /\ j < i /\ rows[j][2] = rows[i][1]
                            /\ \A k \in moves : k =< j \/ i =< k
  BY DEF Replays
<1>. HIDE DEF longer, moves, movesNext
<1>5. n \in movesNext /\ longer[n][2] = row[2] /\ \A i \in movesNext : i =< n
  BY <1>1, <1>2
<1>6. ASSUME NEW i \in movesNext
      PROVE  \/ longer[i][1] = "" /\ \A j \in movesNext : i =< j
             \/ \E j \in movesNext : /\ j < i /\ longer[j][2] = longer[i][1]
                                     /\ \A k \in movesNext : k =< j \/ i =< k
  <2>1. CASE i = n
    <3>1. last < i /\ longer[last][2] = longer[i][1] /\ \A k \in movesNext : k =< last \/ i =< k
      BY <1>1, <1>2, <1>3, <2>1
    <3>. QED  BY <1>2, <3>1
  <2>2. CASE i \in moves
    <3>1. longer[i] = rows[i] /\ i < n /\ i \in Nat
      BY <1>2, <2>2
    <3>2. CASE rows[i][1] = "" /\ \A j \in moves : i =< j
      <4>1. longer[i][1] = "" /\ \A j \in movesNext : i =< j
        <5>1. \A j \in movesNext : j \in moves \/ j = n
          BY <1>2
        <5>2. longer[i][1] = ""
          BY <3>1, <3>2
        <5>3. i =< n
          BY <1>1, <3>1
        <5>. QED  BY <3>2, <5>1, <5>2, <5>3
      <4>. QED  BY <4>1
    <3>3. ASSUME NEW j \in moves, j < i, rows[j][2] = rows[i][1], \A k \in moves : k =< j \/ i =< k
          PROVE  j \in movesNext /\ longer[j][2] = longer[i][1] /\ \A k \in movesNext : k =< j \/ i =< k
      BY <1>2, <3>1, <3>3
    <3>. QED  BY <1>4, <2>2, <3>2, <3>3
  <2>. QED  BY <1>2, <2>1, <2>2
<1>. QED  BY <1>5, <1>6 DEF Replays, longer, movesNext

\* A row on another axis changes nothing.
LEMMA ReplayOff ==
  ASSUME NEW rows \in Seq(HistoryRows), NEW axis, NEW current,
         NEW row \in HistoryRows, row[2] \notin axis,
         Replays(rows, axis, current)
  PROVE  Replays(rows \o <<row>>, axis, current)
<1>. DEFINE longer == rows \o <<row>>
<1>1. /\ Len(rows) \in Nat /\ DOMAIN rows = 1 .. Len(rows)
      /\ DOMAIN longer = 1 .. Len(rows) + 1 /\ longer[Len(rows) + 1] = row
      /\ \A i \in 1 .. Len(rows) : longer[i] = rows[i]
  OBVIOUS
<1>2. /\ {i \in DOMAIN longer : longer[i][2] \in axis} = {i \in DOMAIN rows : rows[i][2] \in axis}
      /\ \A i \in {j \in DOMAIN rows : rows[j][2] \in axis} : longer[i] = rows[i]
  BY <1>1
<1>. HIDE DEF longer
<1>3. Replays(longer, axis, current)
  BY <1>2 DEF Replays
<1>. QED  BY <1>3 DEF longer

\* The two rows of a new order.
LEMMA ReplayStart ==
  LET rows == <<<<"", "new">>, <<"", "pending">>>>
  IN  Replays(rows, Statuses, "new") /\ Replays(rows, PayStatuses, "pending")
<1>. DEFINE a == <<"", "new">>
            b == <<"", "pending">>
            rows == <<a, b>>
<1>1. a[1] = "" /\ a[2] = "new" /\ b[1] = "" /\ b[2] = "pending"
  OBVIOUS
<1>. HIDE DEF a, b
<1>2. DOMAIN rows = {1, 2} /\ rows[1] = a /\ rows[2] = b
  OBVIOUS
<1>. HIDE DEF rows
<1>3. /\ {i \in DOMAIN rows : rows[i][2] \in Statuses} = {1}
      /\ {i \in DOMAIN rows : rows[i][2] \in PayStatuses} = {2}
  BY <1>1, <1>2 DEF Statuses, PayStatuses
<1>4. ASSUME NEW axis, NEW i \in Nat, {j \in DOMAIN rows : rows[j][2] \in axis} = {i},
             rows[i][1] = ""
      PROVE  Replays(rows, axis, rows[i][2])
  <2>. DEFINE moves == {j \in DOMAIN rows : rows[j][2] \in axis}
  <2>1. moves = {i}
    BY <1>4
  <2>. HIDE DEF moves
  <2>2. \E n \in moves : rows[n][2] = rows[i][2] /\ \A j \in moves : j =< n
    BY <2>1
  <2>3. \A j \in moves : rows[j][1] = "" /\ \A k \in moves : j =< k
    <3>1. i =< i
      OBVIOUS
    <3>. QED  BY <1>4, <2>1, <3>1, Zenon
  <2>. QED  BY <2>2, <2>3 DEF Replays, moves
<1>5. /\ rows[1][1] = "" /\ rows[1][2] = "new"
      /\ rows[2][1] = "" /\ rows[2][2] = "pending"
  BY <1>1, <1>2
<1>6. Replays(rows, Statuses, rows[1][2]) /\ Replays(rows, PayStatuses, rows[2][2])
  BY <1>3, <1>4, <1>5
<1>. QED  BY <1>5, <1>6 DEF rows, a, b

\* A transition adds the rows of the axes it moves.
LEMMA TransitionReplays ==
  ASSUME TypeOK, LockInv, HistoryReplays, NEW w \in Workers, pc[w] \in {"apply", "record"},
         NEW toStatus \in Statuses \cup {None}, NEW toPay \in PayStatuses \cup {None},
         Transition(w, toStatus, toPay)
  PROVE  HistoryReplays'
<1>. DEFINE o == job[w].order
            one == hist[o] \o StatusRow(w, toStatus)
            s == IF toStatus = None THEN status[o] ELSE toStatus
            p == IF toPay = None THEN pay[o] ELSE toPay
<1>1. /\ o \in Orders /\ status[o] # "none" /\ status[o] \in Statuses /\ pay[o] \in PayStatuses
      /\ seen[w].status = status[o] /\ seen[w].pay = pay[o] /\ hist[o] \in Seq(HistoryRows)
  BY DEF LockInv, TypeOK
<1>2. \A q \in Orders \ {o} : status'[q] = status[q] /\ pay'[q] = pay[q] /\ hist'[q] = hist[q]
  BY DEF Transition, TypeOK
<1>3. status'[o] = s /\ pay'[o] = p /\ hist'[o] = one \o PayRow(w, toPay)
  BY <1>1 DEF Transition, TypeOK
<1>4. Replays(hist[o], Statuses, status[o]) /\ Replays(hist[o], PayStatuses, pay[o])
  BY <1>1 DEF HistoryReplays
<1>. HIDE DEF o, s, p, one
<1>5. one \in Seq(HistoryRows) /\ Replays(one, Statuses, s) /\ Replays(one, PayStatuses, pay[o])
  <2>1. CASE toStatus = None
    <3>1. one = hist[o] /\ s = status[o]
      BY <1>1, <2>1 DEF one, s, StatusRow
    <3>. QED  BY <1>1, <1>4, <3>1
  <2>2. CASE toStatus # None
    <3>. DEFINE row == <<status[o], toStatus>>
    <3>1. row \in HistoryRows /\ row[1] = status[o] /\ row[2] = s /\ row[2] \in Statuses
      BY <1>1, <2>2 DEF HistoryRows, s
    <3>2. row[2] \notin PayStatuses
      BY <3>1 DEF Statuses, PayStatuses
    <3>3. one = hist[o] \o <<row>>
      BY <1>1, <2>2 DEF one, StatusRow
    <3>. HIDE DEF row
    <3>4. one \in Seq(HistoryRows)
      BY <1>1, <3>1, <3>3
    <3>. QED  BY <1>1, <1>4, <3>1, <3>2, <3>3, <3>4, ReplayOn, ReplayOff
  <2>. QED  BY <2>1, <2>2
<1>6. Replays(hist'[o], Statuses, s) /\ Replays(hist'[o], PayStatuses, p)
  <2>1. CASE toPay = None
    <3>1. hist'[o] = one /\ p = pay[o]
      BY <1>3, <1>5, <2>1 DEF p, PayRow
    <3>. QED  BY <1>5, <3>1
  <2>2. CASE toPay # None
    <3>. DEFINE row == <<pay[o], toPay>>
    <3>1. row \in HistoryRows /\ row[1] = pay[o] /\ row[2] = p /\ row[2] \in PayStatuses
      BY <1>1, <2>2 DEF HistoryRows, p
    <3>2. row[2] \notin Statuses
      BY <3>1 DEF Statuses, PayStatuses
    <3>3. hist'[o] = one \o <<row>>
      BY <1>1, <1>3, <2>2 DEF PayRow
    <3>. HIDE DEF row
    <3>. QED  BY <1>5, <3>1, <3>2, <3>3, ReplayOn, ReplayOff
  <2>. QED  BY <2>1, <2>2
<1>. QED  BY <1>2, <1>3, <1>6 DEF HistoryReplays

\* What a commit of the state machine writes on the payment.
LEMMA SettlePays ==
  ASSUME TypeOK, LockInv, NEW w \in Workers, Settle(w),
         NEW o \in Orders, o = job[w].order
  PROVE  /\ \A q \in Orders \ {o} : payment'[q] = payment[q]
         /\ \/ payment'[o] = payment[o]
            \/ payment'[o] = "ok" /\ maib[o] = "captured" /\ pay'[o] \in {"paid", "refunded"}
            \/ payment'[o] = "failed" /\ maib[o] = "declined" /\ status'[o] \in {"canceled", "done"}
            \/ payment'[o] = "refunded" /\ pay'[o] = "refunded" /\ pc[w] = "record"
<1>1. /\ pc[w] \in {"apply", "record"} => /\ seen[w].status = status[o] /\ seen[w].pay = pay[o]
                                          /\ status[o] # "none"
      /\ status[o] \in Statuses \cup {"none"} /\ pay[o] \in PayStatuses
  BY DEF LockInv, TypeOK
<1>2. ASSUME NEW value, payment' = [payment EXCEPT ![o] = value]
      PROVE  payment'[o] = value /\ \A q \in Orders \ {o} : payment'[q] = payment[q]
  BY <1>2 DEF TypeOK
<1>3. ASSUME NEW toStatus, NEW toPay, Transition(w, toStatus, toPay)
      PROVE  /\ status'[o] = IF toStatus = None THEN status[o] ELSE toStatus
             /\ pay'[o] = IF toPay = None THEN pay[o] ELSE toPay
  BY <1>3 DEF Transition, TypeOK
<1>4. CASE ApplyTransition(w)
  BY <1>4 DEF ApplyTransition
<1>5. CASE ApplyPaid(w)
  <2>1. payment' = [payment EXCEPT ![o] = "ok"] /\ maib[o] = "captured" /\ pc[w] = "apply"
    BY <1>5 DEF ApplyPaid
  <2>2. pay'[o] \in {"paid", "refunded"}
    <3>1. CASE seen[w].pay = "pending"
      BY <1>3, <1>5, <3>1, NoneAssumption DEF ApplyPaid, PayStatuses
    <3>2. CASE seen[w].pay # "pending"
      BY <1>1, <1>5, <2>1, <3>2 DEF ApplyPaid, orderVars, PayStatuses
    <3>. QED  BY <3>1, <3>2
  <2>. QED  BY <1>2, <2>1, <2>2
<1>6. CASE ApplyFailed(w)
  <2>1. payment' = [payment EXCEPT ![o] = "failed"] /\ maib[o] = "declined" /\ pc[w] = "apply"
    BY <1>6 DEF ApplyFailed
  <2>2. status'[o] \in {"canceled", "done"}
    <3>1. CASE seen[w].status \in {"new", "confirmed"}
      BY <1>3, <1>6, <3>1, NoneAssumption DEF ApplyFailed, Statuses
    <3>2. CASE seen[w].status \notin {"new", "confirmed"}
      BY <1>1, <1>6, <2>1, <3>2 DEF ApplyFailed, orderVars, Statuses
    <3>. QED  BY <3>1, <3>2
  <2>. QED  BY <1>2, <2>1, <2>2
<1>7. CASE RecordRefund(w)
  <2>1. payment' = [payment EXCEPT ![o] = "refunded"] /\ pc[w] = "record"
    BY <1>7 DEF RecordRefund
  <2>2. pay'[o] = "refunded"
    BY <1>3, <1>7, NoneAssumption DEF RecordRefund, PayStatuses
  <2>. QED  BY <1>2, <2>1, <2>2
<1>. QED  BY <1>4, <1>5, <1>6, <1>7 DEF Settle

\* Steps that write none of the records, and leave nobody with a refund to record.
LEMMA QuietRecord ==
  ASSUME HistoryReplays, PaymentMatchesOrder, RecordedInv,
         UNCHANGED <<orderVars, payment, maibVars>>,
         \A v \in Workers : pc'[v] = "record" => pc[v] = "record" /\ job'[v] = job[v]
  PROVE  (HistoryReplays /\ PaymentMatchesOrder /\ RecordedInv)'
BY DEF HistoryReplays, PaymentMatchesOrder, RecordedInv, orderVars, maibVars

\* Every step keeps the records of the shop in agreement.
LEMMA RecordStep ==
  ASSUME TypeOK, LockInv, HistoryReplays, PaymentMatchesOrder, RecordedInv, [Next]_vars
  PROVE  (HistoryReplays /\ PaymentMatchesOrder /\ RecordedInv)'
<1>1. CASE UNCHANGED vars
  BY <1>1, QuietRecord DEF vars, orderVars, maibVars
<1>2. ASSUME NEW o \in Orders, PlaceOrder(o)
      PROVE  (HistoryReplays /\ PaymentMatchesOrder /\ RecordedInv)'
  <2>1. /\ status[o] = "none" /\ status'[o] = "new" /\ pay[o] = "pending"
        /\ hist'[o] = <<<<"", "new">>, <<"", "pending">>>>
        /\ UNCHANGED <<pay, payment, maib, refunds, pc, job>>
        /\ \A q \in Orders \ {o} : status'[q] = status[q] /\ hist'[q] = hist[q]
    BY <1>2 DEF PlaceOrder, TypeOK, RecordedInv, payVars, maibVars, workVars
  <2>2. HistoryReplays'
    BY <2>1, ReplayStart DEF HistoryReplays
  <2>3. PaymentMatchesOrder' /\ RecordedInv'
    BY <2>1 DEF PaymentMatchesOrder, RecordedInv
  <2>. QED  BY <2>2, <2>3
<1>3. ASSUME NEW o \in Orders, InitiateCardPayment(o) \/ MaibSettles(o)
      PROVE  (HistoryReplays /\ PaymentMatchesOrder /\ RecordedInv)'
  <2>1. /\ UNCHANGED <<status, pay, hist, refunds, pc, job>>
        /\ \A q \in Orders \ {o} : payment'[q] = payment[q] /\ maib'[q] = maib[q]
        /\ \/ payment'[o] = "pending"
           \/ payment'[o] = payment[o] /\ maib[o] = "open"
    BY <1>3 DEF InitiateCardPayment, MaibSettles, TypeOK, orderVars, payVars, workVars
  <2>2. HistoryReplays' /\ RecordedInv'
    BY <2>1 DEF HistoryReplays, RecordedInv
  <2>3. PaymentMatchesOrder'
    BY <2>1 DEF PaymentMatchesOrder
  <2>. QED  BY <2>2, <2>3
<1>4. ASSUME NEW w \in Workers, NEW o \in Orders,
             \/ \E m \in Moves : AdminRequest(w, o, m[1], m[2])
             \/ RefundRequest(w, o)
             \/ Callback(w, o)
      PROVE  (HistoryReplays /\ PaymentMatchesOrder /\ RecordedInv)'
  <2>1. /\ UNCHANGED <<orderVars, payment, maibVars>>
        /\ \A v \in Workers : pc'[v] = "record" => pc[v] = "record" /\ job'[v] = job[v]
    BY <1>4 DEF AdminRequest, RefundRequest, Callback, Begin, TypeOK, payVars
  <2>. QED  BY <2>1, QuietRecord
<1>5. ASSUME NEW w \in Workers, LockOrder(w)
      PROVE  (HistoryReplays /\ PaymentMatchesOrder /\ RecordedInv)'
  <2>1. /\ UNCHANGED <<orderVars, payment, maibVars>>
        /\ \A v \in Workers : pc'[v] = "record" => pc[v] = "record" /\ job'[v] = job[v]
    BY <1>5 DEF LockOrder, TypeOK, payVars
  <2>. QED  BY <2>1, QuietRecord
<1>6. ASSUME NEW w \in Workers, Finish(w), UNCHANGED <<orderVars, payment, maibVars>>
      PROVE  (HistoryReplays /\ PaymentMatchesOrder /\ RecordedInv)'
  <2>1. \A v \in Workers : pc'[v] = "record" => pc[v] = "record" /\ job'[v] = job[v]
    BY <1>6, FinishOthers
  <2>. QED  BY <1>6, <2>1, QuietRecord
<1>7. ASSUME NEW w \in Workers, Settle(w)
      PROVE  (HistoryReplays /\ PaymentMatchesOrder /\ RecordedInv)'
  <2>1. pc[w] \in {"apply", "record"} /\ UNCHANGED <<maib, refunds>>
    BY <1>7, SettleShape DEF maibVars
  <2>2. PICK o \in Orders : o = job[w].order /\ status[o] # "none"
    BY <2>1 DEF LockInv
  <2>3. /\ \A q \in Orders \ {o} : payment'[q] = payment[q]
        /\ \/ payment'[o] = payment[o]
           \/ payment'[o] = "ok" /\ maib[o] = "captured" /\ pay'[o] \in {"paid", "refunded"}
           \/ payment'[o] = "failed" /\ maib[o] = "declined" /\ status'[o] \in {"canceled", "done"}
           \/ payment'[o] = "refunded" /\ pay'[o] = "refunded" /\ pc[w] = "record"
    BY <1>7, <2>2, SettlePays
  <2>4. pc[w] = "record" => refunds[o] > 0
    BY <2>2 DEF RecordedInv
  <2>5. HistoryReplays' /\ \A q \in Orders : status'[q] = "none" => status[q] = "none" /\ pay'[q] = pay[q]
    <3>1. CASE UNCHANGED orderVars
      BY <3>1 DEF HistoryReplays, orderVars
    <3>2. ASSUME NEW toStatus \in Statuses \cup {None}, NEW toPay \in PayStatuses \cup {None},
                 Transition(w, toStatus, toPay)
          PROVE  /\ HistoryReplays'
                 /\ \A q \in Orders : status'[q] = "none" => status[q] = "none" /\ pay'[q] = pay[q]
      <4>1. \A q \in Orders : q # o => status'[q] = status[q] /\ pay'[q] = pay[q]
        BY <2>2, <3>2 DEF Transition, TypeOK
      <4>2. status'[o] # "none"
        BY <2>2, <3>2, NoneAssumption DEF Transition, TypeOK, Statuses
      <4>. QED  BY <2>1, <3>2, <4>1, <4>2, TransitionReplays
    <3>. QED  BY <1>7, <3>1, <3>2, SettleShape
  <2>6. \A v \in Workers : pc'[v] = "record" => pc[v] = "record" /\ job'[v] = job[v]
    <3>1. CASE Finish(w)
      BY <3>1, FinishOthers
    <3>2. ASSUME NEW toStatus, NEW toPay, Transition(w, toStatus, toPay), ~ Finish(w)
          PROVE  \A v \in Workers : pc'[v] = "record" => pc[v] = "record" /\ job'[v] = job[v]
      BY <3>2 DEF Transition, TypeOK
    <3>. QED  BY <1>7, <3>1, <3>2, SettleShape
  <2>7. \A q \in Orders : /\ pay[q] = "refunded" => pay'[q] = "refunded"
                          /\ pay[q] = "paid" => pay'[q] \in {"paid", "refunded"}
                          /\ status[q] \in {"canceled", "done"} => status'[q] = status[q]
    <3>1. [Next]_vars
      OBVIOUS
    <3>. QED  BY <3>1, MoveStep DEF STATUS_TRANSITIONS, PAYMENT_TRANSITIONS
  <2>8. PaymentMatchesOrder'
    <3>. SUFFICES ASSUME NEW q \in Orders
                  PROVE  /\ payment'[q] = "ok" => pay'[q] \in {"paid", "refunded"} /\ maib'[q] = "captured"
                         /\ payment'[q] = "failed" =>
                              status'[q] \in {"canceled", "done"} /\ maib'[q] = "declined"
                         /\ payment'[q] = "refunded" => pay'[q] = "refunded" /\ refunds'[q] > 0
      BY DEF PaymentMatchesOrder
    <3>1. CASE payment'[q] = payment[q]
      BY <2>1, <2>7, <3>1 DEF PaymentMatchesOrder
    <3>2. CASE payment'[q] # payment[q]
      BY <2>1, <2>3, <2>4, <3>2
    <3>. QED  BY <3>1, <3>2
  <2>9. RecordedInv'
    BY <2>1, <2>5, <2>6 DEF RecordedInv
  <2>. QED  BY <2>5, <2>8, <2>9
<1>8. ASSUME NEW w \in Workers, CallRefund(w)
      PROVE  (HistoryReplays /\ PaymentMatchesOrder /\ RecordedInv)'
  <2>1. UNCHANGED <<orderVars, payment, maib>> /\ job[w].order \in Orders
    BY <1>8 DEF CallRefund, LockInv, payVars
  <2>2. CASE Finish(w) /\ UNCHANGED refunds
    BY <1>6, <2>1, <2>2 DEF maibVars
  <2>3. CASE refunds' = [refunds EXCEPT ![job[w].order] = @ + 1]
    <3>1. /\ refunds'[job[w].order] > 0
          /\ \A q \in Orders : refunds[q] > 0 => refunds'[q] > 0
      BY <2>1, <2>3 DEF TypeOK
    <3>2. \A v \in Workers : pc'[v] = "record" =>
             \/ v = w /\ job'[w] = job[w]
             \/ pc[v] = "record" /\ job'[v] = job[v]
      <4>1. CASE Finish(w)
        BY <4>1, FinishOthers
      <4>2. CASE pc' = [pc EXCEPT ![w] = "record"] /\ UNCHANGED <<orderLock, job, seen, faults>>
        BY <4>2 DEF TypeOK
      <4>. QED  BY <1>8, <4>1, <4>2 DEF CallRefund
    <3>3. RecordedInv'
      <4>1. ASSUME NEW v \in Workers, pc'[v] = "record"
            PROVE  refunds'[job'[v].order] > 0
        <5>1. CASE v = w /\ job'[w] = job[w]
          BY <3>1, <5>1
        <5>2. CASE pc[v] = "record" /\ job'[v] = job[v]
          BY <3>1, <5>2 DEF RecordedInv, LockInv
        <5>. QED  BY <3>2, <4>1, <5>1, <5>2
      <4>. QED  BY <2>1, <4>1 DEF RecordedInv, orderVars
    <3>4. HistoryReplays' /\ PaymentMatchesOrder'
      BY <2>1, <3>1 DEF HistoryReplays, PaymentMatchesOrder, orderVars
    <3>. QED  BY <3>3, <3>4
  <2>. QED  BY <1>8, <2>2, <2>3 DEF CallRefund
<1>9. ASSUME NEW w \in Workers, ReturnStock(w) \/ Crash(w)
      PROVE  (HistoryReplays /\ PaymentMatchesOrder /\ RecordedInv)'
  <2>1. Finish(w) /\ UNCHANGED <<orderVars, payment, maibVars>>
    BY <1>9 DEF ReturnStock, Crash, payVars
  <2>. QED  BY <1>6, <2>1
<1>. QED  BY <1>1, <1>2, <1>3, <1>4, <1>5, <1>7, <1>8, <1>9 DEF Next, Apply, Settle

\* A refund that is on the order alone was marked, and nobody is about to write over
\* one that is on both: the callbacks under way are for other orders.
RefundedInv ==
  \A o \in Orders :
    pay[o] = "refunded" /\ o \notin apart => payment[o] = "refunded" /\ Reading(o) = {}

\* Steps that refund no order, write no payment and begin no callback.
LEMMA QuietRefunded ==
  ASSUME RefundedInv,
         \A o \in Orders : pay'[o] = "refunded" => pay[o] = "refunded" /\ payment'[o] = payment[o],
         apart \subseteq apart',
         \A o \in Orders : Reading(o)' \subseteq Reading(o)
  PROVE  RefundedInv'
<1>. SUFFICES ASSUME NEW o \in Orders, pay'[o] = "refunded", o \notin apart'
              PROVE  payment'[o] = "refunded" /\ Reading(o)' = {}
  BY DEF RefundedInv
<1>1. pay[o] = "refunded" /\ o \notin apart /\ payment'[o] = payment[o]
  OBVIOUS
<1>2. payment[o] = "refunded" /\ Reading(o) = {}
  BY <1>1 DEF RefundedInv
<1>3. Reading(o)' \subseteq Reading(o)
  OBVIOUS
<1>. QED  BY <1>1, <1>2, <1>3

\* A request that ends or goes on is no new callback.
LEMMA FewerReading ==
  ASSUME TypeOK, NEW w \in Workers, job' = job \/ job' = [job EXCEPT ![w] = NoJob]
  PROVE  \A o \in Orders : Reading(o)' \subseteq Reading(o)
<1>1. NoJob.kind # "callback" /\ DOMAIN job = Workers
  BY DEF TypeOK, NoJob, Job
<1>2. ASSUME NEW v \in Workers, job'[v].kind = "callback"
      PROVE  job'[v] = job[v]
  BY <1>1, <1>2
<1>. QED  BY <1>2 DEF Reading

\* Every step keeps the refunds of the order and of the payment together.
LEMMA RefundedStep ==
  ASSUME TypeOK, LockInv, RecordedInv, RefundedInv, [Next]_vars
  PROVE  RefundedInv'
<1>. USE NoneAssumption
<1>1. CASE UNCHANGED vars
  BY <1>1 DEF vars, RefundedInv, Reading
<1>2. ASSUME NEW o \in Orders, PlaceOrder(o) \/ InitiateCardPayment(o) \/ MaibSettles(o)
      PROVE  RefundedInv'
  <2>1. /\ UNCHANGED <<pay, apart, job>>
        /\ \A q \in Orders : payment[q] = "refunded" => payment'[q] = "refunded"
    BY <1>2 DEF PlaceOrder, InitiateCardPayment, MaibSettles, TypeOK, orderVars, payVars, workVars
  <2>. QED  BY <2>1 DEF RefundedInv, Reading
<1>3. ASSUME NEW w \in Workers, NEW o \in Orders,
             \/ \E m \in Moves : AdminRequest(w, o, m[1], m[2])
             \/ RefundRequest(w, o)
             \/ Callback(w, o)
      PROVE  RefundedInv'
  <2>1. /\ UNCHANGED <<pay, payment, apart>>
        /\ \A v \in Workers \ {w} : job'[v] = job[v]
        /\ job'[w].kind = "callback" => job'[w].order = o /\ payment[o] # "refunded"
    BY <1>3 DEF AdminRequest, RefundRequest, Callback, Begin, Job, Terminal, TypeOK,
                orderVars, payVars
  <2>2. ASSUME NEW q \in Orders, pay[q] = "refunded", q \notin apart
        PROVE  Reading(q)' = {}
    <3>1. payment[q] = "refunded" /\ Reading(q) = {}
      BY <2>2 DEF RefundedInv
    <3>. QED  BY <2>1, <3>1 DEF Reading
  <2>. QED  BY <2>1, <2>2 DEF RefundedInv
<1>4. ASSUME NEW w \in Workers, LockOrder(w) \/ CallRefund(w) \/ ReturnStock(w) \/ Crash(w)
      PROVE  RefundedInv'
  <2>1. UNCHANGED <<pay, payment, apart>> /\ (job' = job \/ job' = [job EXCEPT ![w] = NoJob])
    BY <1>4 DEF LockOrder, CallRefund, ReturnStock, Crash, Finish, orderVars, payVars
  <2>2. \A o \in Orders : Reading(o)' \subseteq Reading(o)
    BY <2>1, FewerReading
  <2>. QED  BY <2>1, <2>2, QuietRefunded
<1>5. ASSUME NEW w \in Workers, Settle(w)
      PROVE  RefundedInv'
  <2>1. pc[w] \in {"apply", "record"}
    BY <1>5, SettleShape
  <2>2. PICK o \in Orders : o = job[w].order
    BY <2>1 DEF LockInv
  <2>3. job' = job \/ job' = [job EXCEPT ![w] = NoJob]
    <3>1. ASSUME NEW toStatus, NEW toPay, Transition(w, toStatus, toPay)
          PROVE  job' = job \/ job' = [job EXCEPT ![w] = NoJob]
      BY <3>1 DEF Transition, Finish
    <3>2. CASE Finish(w)
      BY <3>2 DEF Finish
    <3>. QED  BY <1>5, <3>1, <3>2, SettleShape
  <2>4. \A q \in Orders : Reading(q)' \subseteq Reading(q)
    BY <2>3, FewerReading
  <2>5. ASSUME NEW toStatus, NEW toPay, Transition(w, toStatus, toPay)
        PROVE  /\ \A q \in Orders \ {o} : pay'[q] = pay[q]
               /\ pay'[o] = IF toPay = None THEN pay[o] ELSE toPay
    BY <2>2, <2>5 DEF Transition, TypeOK
  <2>6. CASE ApplyTransition(w)
    <3>1. UNCHANGED payment /\ apart \subseteq apart'
      BY <2>6 DEF ApplyTransition
    <3>2. \A q \in Orders : pay'[q] = "refunded" => pay[q] = "refunded" \/ q \in apart'
      <4>1. CASE UNCHANGED pay
        BY <4>1
      <4>2. CASE Transition(w, job[w].toStatus, job[w].toPay)
                 /\ apart' = IF job[w].toPay = "refunded" THEN apart \cup {o} ELSE apart
        BY <2>2, <2>5, <4>2
      <4>. QED  BY <2>2, <2>6, <4>1, <4>2 DEF ApplyTransition, orderVars
    <3>. QED  BY <2>4, <3>1, <3>2 DEF RefundedInv
  <2>7. CASE ApplyPaid(w) \/ ApplyFailed(w)
    <3>1. UNCHANGED apart /\ w \in Reading(o)
      BY <2>2, <2>7 DEF ApplyPaid, ApplyFailed, Reading
    <3>2. pay[o] = "refunded" => o \in apart
      BY <3>1 DEF RefundedInv
    <3>3. \A q \in Orders \ {o} : payment'[q] = payment[q] /\ pay'[q] = pay[q]
      <4>1. \A q \in Orders \ {o} : payment'[q] = payment[q]
        BY <2>2, <2>7 DEF ApplyPaid, ApplyFailed, TypeOK
      <4>2. \A q \in Orders \ {o} : pay'[q] = pay[q]
        BY <2>5, <2>7 DEF ApplyPaid, ApplyFailed, orderVars
      <4>. QED  BY <4>1, <4>2
    <3>4. pay'[o] = "refunded" => pay[o] = "refunded"
      <4>1. CASE UNCHANGED pay
        BY <4>1
      <4>2. CASE Transition(w, None, "paid")
        BY <2>5, <4>2 DEF PayStatuses
      <4>3. CASE Transition(w, "canceled", None)
        BY <2>5, <4>3
      <4>. QED  BY <2>7, <4>1, <4>2, <4>3 DEF ApplyPaid, ApplyFailed, orderVars
    <3>. QED  BY <2>4, <3>1, <3>2, <3>3, <3>4 DEF RefundedInv
  <2>8. CASE RecordRefund(w)
    <3>1. /\ payment' = [payment EXCEPT ![o] = "refunded"]
          /\ Transition(w, None, "refunded")
          /\ apart' = IF Reading(o) # {} THEN apart \cup {o} ELSE apart
      BY <2>2, <2>8 DEF RecordRefund
    <3>2. payment'[o] = "refunded" /\ \A q \in Orders \ {o} : payment'[q] = payment[q]
      BY <3>1 DEF TypeOK
    <3>3. \A q \in Orders \ {o} : pay'[q] = pay[q]
      BY <2>5, <3>1
    <3>4. apart \subseteq apart' /\ (o \notin apart' => Reading(o) = {})
      BY <3>1
    <3>. QED  BY <2>4, <3>2, <3>3, <3>4 DEF RefundedInv
  <2>. QED  BY <1>5, <2>6, <2>7, <2>8 DEF Settle
<1>. QED  BY <1>1, <1>2, <1>3, <1>4, <1>5 DEF Next, Apply, Settle

\* The audit trail tells every move of every order; the payment row never contradicts
\* the order it pays for; and a refund is on both, unless staff declared it themselves
\* or a callback was already under way when it was recorded.
THEOREM RecordsStayInAgreement == Spec => []RecordsAgree
<1>1. Init => HistoryReplays /\ PaymentMatchesOrder /\ RecordedInv /\ RefundedInv
  BY DEF Init, HistoryReplays, PaymentMatchesOrder, RecordedInv, RefundedInv
<1>2. TypeOK /\ LockInv /\ HistoryReplays /\ PaymentMatchesOrder /\ RecordedInv /\ [Next]_vars
        => (HistoryReplays /\ PaymentMatchesOrder /\ RecordedInv)'
  BY RecordStep
<1>3. TypeOK /\ LockInv /\ RecordedInv /\ RefundedInv /\ [Next]_vars => RefundedInv'
  BY RefundedStep
<1>4. HistoryReplays /\ PaymentMatchesOrder /\ RefundedInv => RecordsAgree
  BY DEF RecordsAgree, RefundIsOnPayment, RefundedInv
<1>. QED  BY <1>1, <1>2, <1>3, <1>4, TypeCorrect, PTL DEF Spec

-----------------------------------------------------------------------------
\* LostReturnsAreFaults, with what makes the cardinality meaningful.
LostInv == IsFiniteSet(Unreturned) /\ Cardinality(Unreturned) =< faults

\* A step loses no return, or one and a fault pays for it.
LEMMA LostCount ==
  ASSUME LostInv, NEW f \in Nat, f = faults,
         \/ faults' = f /\ Unreturned' \subseteq Unreturned
         \/ faults' = f + 1 /\ \E o : Unreturned' \subseteq Unreturned \cup {o}
  PROVE  LostInv'
<1>1. IsFiniteSet(Unreturned) /\ Cardinality(Unreturned) =< f /\ Cardinality(Unreturned) \in Nat
  BY FS_CardinalityType DEF LostInv
<1>2. CASE faults' = f /\ Unreturned' \subseteq Unreturned
  <2>1. /\ IsFiniteSet(Unreturned') /\ Cardinality(Unreturned') \in Nat
        /\ Cardinality(Unreturned') =< Cardinality(Unreturned)
    BY <1>1, <1>2, FS_Subset, FS_CardinalityType
  <2>. QED  BY <1>1, <1>2, <2>1 DEF LostInv
<1>3. ASSUME NEW o, faults' = f + 1, Unreturned' \subseteq Unreturned \cup {o}
      PROVE  LostInv'
  <2>. DEFINE S == Unreturned \cup {o}
  <2>1. /\ IsFiniteSet(S)
        /\ Cardinality(S) = Cardinality(Unreturned) \/ Cardinality(S) = Cardinality(Unreturned) + 1
    BY <1>1, FS_AddElement
  <2>2. /\ IsFiniteSet(Unreturned') /\ Cardinality(Unreturned') \in Nat
        /\ Cardinality(Unreturned') =< Cardinality(S)
    BY <1>3, <2>1, FS_Subset, FS_CardinalityType
  <2>. HIDE DEF S
  <2>. QED  BY <1>1, <1>3, <2>1, <2>2 DEF LostInv
<1>. QED  BY <1>2, <1>3

\* Steps that neither cancel an order nor end a return.
LEMMA QuietLoss ==
  ASSUME UNCHANGED returned,
         \A o \in Orders : status'[o] = "canceled" => status[o] = "canceled",
         \A v \in Workers : pc[v] = "return" => pc'[v] = "return" /\ job'[v] = job[v]
  PROVE  Unreturned' \subseteq Unreturned
BY DEF Unreturned, Returning

\* Every step keeps LostInv: who cancels an order owes its return from then on.
LEMMA LostStep ==
  ASSUME TypeOK, LockInv, LostInv, [Next]_vars
  PROVE  LostInv'
<1>. faults \in Nat
  BY FaultsAssumption DEF TypeOK
<1>1. CASE UNCHANGED vars
  BY <1>1, QuietLoss, LostCount DEF vars
<1>2. ASSUME NEW o \in Orders, PlaceOrder(o)
      PROVE  LostInv'
  <2>1. /\ UNCHANGED <<returned, pc, job, faults>>
        /\ \A q \in Orders : status'[q] = "canceled" => status[q] = "canceled"
    BY <1>2 DEF PlaceOrder, TypeOK, workVars
  <2>. QED  BY <2>1, QuietLoss, LostCount
<1>3. ASSUME NEW o \in Orders, InitiateCardPayment(o) \/ MaibSettles(o)
      PROVE  LostInv'
  BY <1>3, QuietLoss, LostCount
  DEF InitiateCardPayment, MaibSettles, orderVars, stockVars, workVars
<1>4. ASSUME NEW w \in Workers, NEW o \in Orders,
             \/ \E m \in Moves : AdminRequest(w, o, m[1], m[2])
             \/ RefundRequest(w, o)
             \/ Callback(w, o)
      PROVE  LostInv'
  <2>1. /\ UNCHANGED <<status, returned, faults>>
        /\ \A v \in Workers : pc[v] = "return" => pc'[v] = "return" /\ job'[v] = job[v]
    BY <1>4 DEF AdminRequest, RefundRequest, Callback, Begin, TypeOK, orderVars, stockVars
  <2>. QED  BY <2>1, QuietLoss, LostCount
<1>5. ASSUME NEW w \in Workers, LockOrder(w)
      PROVE  LostInv'
  <2>1. /\ UNCHANGED <<status, returned, faults>>
        /\ \A v \in Workers : pc[v] = "return" => pc'[v] = "return" /\ job'[v] = job[v]
    BY <1>5 DEF LockOrder, TypeOK, orderVars, stockVars
  <2>. QED  BY <2>1, QuietLoss, LostCount
<1>6. ASSUME NEW w \in Workers, Finish(w), pc[w] # "return", UNCHANGED <<status, returned, faults>>
      PROVE  LostInv'
  <2>1. \A v \in Workers : pc[v] = "return" => pc'[v] = "return" /\ job'[v] = job[v]
    BY <1>6, FinishOthers
  <2>. QED  BY <1>6, <2>1, QuietLoss, LostCount
<1>7. ASSUME NEW w \in Workers, Settle(w)
      PROVE  LostInv'
  <2>1. pc[w] \in {"apply", "record"} /\ UNCHANGED <<returned, faults>>
    BY <1>7, SettleShape DEF stockVars
  <2>2. CASE Finish(w) /\ UNCHANGED orderVars
    BY <1>6, <2>1, <2>2 DEF orderVars
  <2>3. ASSUME NEW toStatus \in Statuses \cup {None}, NEW toPay \in PayStatuses \cup {None},
               Transition(w, toStatus, toPay)
        PROVE  LostInv'
    <3>1. PICK o \in Orders : o = job[w].order
      BY <2>1 DEF LockInv
    <3>2. \A q \in Orders : status'[q] = "canceled" =>
             status[q] = "canceled" \/ (q = o /\ toStatus = "canceled")
      <4>1. \A q \in Orders \ {o} : status'[q] = status[q]
        BY <2>3, <3>1 DEF Transition, TypeOK
      <4>2. status'[o] = status[o] \/ status'[o] = toStatus
        BY <2>3, <3>1 DEF Transition, TypeOK
      <4>. QED  BY <4>1, <4>2
    <3>3. \A v \in Workers : pc[v] = "return" => pc'[v] = "return" /\ job'[v] = job[v]
      BY <2>1, <2>3, FinishOthers DEF Transition, TypeOK
    <3>4. toStatus = "canceled" => pc'[w] = "return" /\ job'[w].order = o
      BY <2>3, <3>1 DEF Transition, TypeOK
    <3>5. Unreturned' \subseteq Unreturned
      BY <2>1, <3>2, <3>3, <3>4 DEF Unreturned, Returning
    <3>. QED  BY <2>1, <3>5, LostCount
  <2>. QED  BY <1>7, <2>2, <2>3, SettleShape
<1>8. ASSUME NEW w \in Workers, Finish(w), faults' = faults + 1, UNCHANGED <<status, returned>>
      PROVE  LostInv'
  <2>1. Unreturned' \subseteq Unreturned \cup {job[w].order}
    BY <1>8, FinishOthers DEF Unreturned, Returning
  <2>. QED  BY <1>8, <2>1, LostCount
<1>9. ASSUME NEW w \in Workers, CallRefund(w)
      PROVE  LostInv'
  <2>1. pc[w] = "apply" /\ UNCHANGED <<status, returned>>
    BY <1>9 DEF CallRefund, orderVars, stockVars
  <2>2. CASE Finish(w) /\ UNCHANGED faults
    BY <1>6, <2>1, <2>2
  <2>3. CASE Finish(w) /\ faults' = faults + 1
    BY <1>8, <2>1, <2>3
  <2>4. CASE pc' = [pc EXCEPT ![w] = "record"] /\ UNCHANGED <<orderLock, job, seen, faults>>
    <3>1. \A v \in Workers : pc[v] = "return" => pc'[v] = "return"
      BY <2>1, <2>4 DEF TypeOK
    <3>. QED  BY <2>1, <2>4, <3>1, QuietLoss, LostCount
  <2>. QED  BY <1>9, <2>2, <2>3, <2>4 DEF CallRefund
<1>10. ASSUME NEW w \in Workers, ReturnStock(w)
       PROVE  LostInv'
  <2>1. PICK o \in Orders : o = job[w].order
    BY <1>10 DEF ReturnStock, LockInv
  <2>2. /\ returned'[o] = returned[o] + 1 /\ returned[o] \in Nat
        /\ \A q \in Orders \ {o} : returned'[q] = returned[q]
        /\ UNCHANGED <<status, faults>> /\ Finish(w)
    BY <1>10, <2>1 DEF ReturnStock, TypeOK, orderVars
  <2>3. returned'[o] # 0
    BY <2>2
  <2>4. Unreturned' \subseteq Unreturned
    BY <2>1, <2>2, <2>3, FinishOthers DEF Unreturned, Returning
  <2>. QED  BY <2>2, <2>4, LostCount
<1>11. ASSUME NEW w \in Workers, Crash(w)
       PROVE  LostInv'
  BY <1>8, <1>11 DEF Crash, orderVars, stockVars
<1>. QED  BY <1>1, <1>2, <1>3, <1>4, <1>5, <1>7, <1>9, <1>10, <1>11 DEF Next, Apply, Settle

\* A cancelled order without its units back, and without a request that still owes
\* them, cost a crash between the two transactions.
THEOREM LossesAreAccounted == Spec => []LostReturnsAreFaults
<1>1. Init => LostInv
  <2>. SUFFICES ASSUME Init PROVE LostInv
    OBVIOUS
  <2>1. Unreturned = {} /\ faults = 0
    BY DEF Init, Unreturned
  <2>2. IsFiniteSet({}) /\ Cardinality({}) = 0
    BY FS_EmptySet
  <2>. QED  BY <2>1, <2>2 DEF LostInv
<1>2. TypeOK /\ LockInv /\ LostInv /\ [Next]_vars => LostInv'
  BY LostStep
<1>3. LostInv => LostReturnsAreFaults
  BY DEF LostInv, LostReturnsAreFaults
<1>. QED  BY <1>1, <1>2, <1>3, TypeCorrect, PTL DEF Spec

-----------------------------------------------------------------------------
\* The lifecycle implements Inventory

\* A step that moves no stock and places no order is no step of Inventory.
LEMMA Invisible ==
  ASSUME UNCHANGED <<qty, returned>>,
         \A o \in Orders : status[o] = "none" <=> status'[o] = "none"
  PROVE  UNCHANGED Stock!vars
BY DEF Stock!vars

\* Placing an order is Reserve.
LEMMA PlaceReserves ==
  ASSUME TypeOK, ReturnedOnce, NEW o \in Orders, PlaceOrder(o)
  PROVE  Stock!Reserve(o)
<1>1. /\ status[o] = "none" /\ status'[o] = "new" /\ returned' = returned
      /\ \A p \in Orders \ {o} : status'[p] = status[p]
      /\ \A s \in Skus : Items[o][s] =< qty[s]
      /\ qty' = [s \in Skus |-> qty[s] - Items[o][s]]
  BY DEF PlaceOrder, TypeOK
<1>2. ~ returned[o] > 0
  BY <1>1 DEF ReturnedOnce
<1>3. Items[o] \in [Skus -> Nat] /\ Items[o] # [s \in Skus |-> 0]
  BY ItemsAssumption
<1>. DEFINE h == [p \in Orders |-> IF status[p] = "none" THEN [s \in Skus |-> 0] ELSE Items[p]]
            hNext == [p \in Orders |-> IF status'[p] = "none" THEN [s \in Skus |-> 0] ELSE Items[p]]
            f == [p \in Orders |-> IF status[p] = "none" THEN "none"
                                   ELSE IF returned[p] > 0 THEN "returned" ELSE "held"]
            fNext == [p \in Orders |-> IF status'[p] = "none" THEN "none"
                                       ELSE IF returned'[p] > 0 THEN "returned" ELSE "held"]
<1>4. hNext[o] = Items[o] /\ hNext = [h EXCEPT ![o] = Items[o]]
  BY <1>1
<1>5. f[o] = "none" /\ fNext = [f EXCEPT ![o] = "held"]
  BY <1>1, <1>2
<1>6. qty' = [s \in Skus |-> qty[s] - hNext[o][s]]
  BY <1>1, <1>4
<1>. QED  BY <1>1, <1>3, <1>4, <1>5, <1>6 DEF Stock!Reserve, Stock!NoUnits

\* The stock return of a cancelled order is Return.
LEMMA StockReturns ==
  ASSUME TypeOK, LockInv, ReturnedOnce, NEW w \in Workers, ReturnStock(w)
  PROVE  \E o \in Orders : Stock!Return(o)
<1>1. PICK o \in Orders : o = job[w].order /\ w \in Returning(o)
  BY DEF ReturnStock, LockInv, Returning
<1>2. /\ returned'[o] = returned[o] + 1
      /\ \A p \in Orders \ {o} : returned'[p] = returned[p]
      /\ UNCHANGED status
      /\ qty' = [s \in Skus |-> qty[s] + Items[o][s]]
  BY <1>1 DEF ReturnStock, TypeOK, orderVars
<1>3. status[o] = "canceled" /\ returned[o] = 0
  BY <1>1 DEF ReturnedOnce
<1>7. ~ returned[o] > 0 /\ returned'[o] > 0
  BY <1>2, <1>3
<1>. DEFINE h == [p \in Orders |-> IF status[p] = "none" THEN [s \in Skus |-> 0] ELSE Items[p]]
            f == [p \in Orders |-> IF status[p] = "none" THEN "none"
                                   ELSE IF returned[p] > 0 THEN "returned" ELSE "held"]
            fNext == [p \in Orders |-> IF status'[p] = "none" THEN "none"
                                       ELSE IF returned'[p] > 0 THEN "returned" ELSE "held"]
<1>4. h[o] = Items[o] /\ qty' = [s \in Skus |-> qty[s] + h[o][s]]
  BY <1>1, <1>2, <1>3
<1>5. f[o] = "held" /\ fNext = [f EXCEPT ![o] = "returned"]
  BY <1>2, <1>3, <1>7
<1>6. Stock!Return(o)
  BY <1>1, <1>2, <1>4, <1>5 DEF Stock!Return
<1>. QED  BY <1>1, <1>6

\* The units of an order come back exactly as they were taken, at most once.
THEOREM ImplementsInventory == Spec => StockComesBackOnce
<1>1. Init => Stock!Init
  BY ItemsAssumption DEF Init, Stock!Init, Stock!NoUnits
<1>2. TypeOK /\ LockInv /\ ReturnedOnce /\ [Next]_vars => [Stock!Next]_(Stock!vars)
  <2>. SUFFICES ASSUME TypeOK, LockInv, ReturnedOnce, [Next]_vars
                PROVE  Stock!Next \/ UNCHANGED Stock!vars
    OBVIOUS
  <2>1. ASSUME NEW o \in Orders, PlaceOrder(o)
        PROVE  Stock!Next
    BY <2>1, PlaceReserves DEF Stock!Next
  <2>2. ASSUME NEW w \in Workers, ReturnStock(w)
        PROVE  Stock!Next
    BY <2>2, StockReturns DEF Stock!Next
  <2>3. ASSUME NEW o \in Orders, InitiateCardPayment(o) \/ MaibSettles(o)
        PROVE  UNCHANGED Stock!vars
    BY <2>3, Invisible DEF InitiateCardPayment, MaibSettles, orderVars, stockVars
  <2>4. ASSUME NEW w \in Workers, NEW o \in Orders,
               \/ \E m \in Moves : AdminRequest(w, o, m[1], m[2])
               \/ RefundRequest(w, o)
               \/ Callback(w, o)
        PROVE  UNCHANGED Stock!vars
    BY <2>4, Invisible DEF AdminRequest, RefundRequest, Callback, Begin, orderVars, stockVars
  <2>5. ASSUME NEW w \in Workers, LockOrder(w) \/ CallRefund(w) \/ Crash(w)
        PROVE  UNCHANGED Stock!vars
    BY <2>5, Invisible DEF LockOrder, CallRefund, Crash, orderVars, stockVars
  <2>6. ASSUME NEW w \in Workers, Settle(w)
        PROVE  UNCHANGED Stock!vars
    <3>1. UNCHANGED <<qty, returned>> /\ pc[w] \in {"apply", "record"}
      BY <2>6, SettleShape DEF stockVars
    <3>2. job[w].order \in Orders /\ status[job[w].order] # "none"
      BY <3>1 DEF LockInv
    <3>3. CASE UNCHANGED orderVars
      BY <3>1, <3>3, Invisible DEF orderVars
    <3>4. ASSUME NEW toStatus \in Statuses \cup {None}, NEW toPay \in PayStatuses \cup {None},
                 Transition(w, toStatus, toPay)
          PROVE  \A o \in Orders : status[o] = "none" <=> status'[o] = "none"
      BY <3>2, <3>4, NoneAssumption DEF Transition, TypeOK, Statuses
    <3>. QED  BY <2>6, <3>1, <3>3, <3>4, Invisible, SettleShape
  <2>7. CASE UNCHANGED vars
    BY <2>7, Invisible DEF vars
  <2>. QED  BY <2>1, <2>2, <2>3, <2>4, <2>5, <2>6, <2>7 DEF Next, Apply, Settle
<1>. QED  BY <1>1, <1>2, TypeCorrect, UnitsReturnOnce, PTL DEF Spec, StockComesBackOnce, Stock!Spec
=============================================================================
