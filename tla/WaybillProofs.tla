---------------------------- MODULE WaybillProofs ----------------------------
(***************************************************************************)
(* For any number of orders, requests, shipments and faults: the rows the  *)
(* shop keeps name no dead shipment, and the shipments nobody knows of are *)
(* no more than the faults.                                                *)
(***************************************************************************)
EXTENDS Waybill, FiniteSetTheorems, TLAPS

Calling(w) == pc[w] \in {"call", "commit"}
Creating(w) == Calling(w) /\ job[w].kind = "create"
Uncreated(w) == pc[w] = "commit" /\ job[w].kind # "create" /\ loaded[w] # None

\* What the row lock gives: who creates a shipment or cancels it by itself keeps the
\* row as it was read, an empty one or the shipment's.
LockInv ==
  \A w \in Workers :
    /\ pc[w] # "idle" => job[w].kind \in Kinds /\ job[w].order \in Orders
    /\ Calling(w) /\ job[w].kind \in {"create", "cancel_waybill"} => rowLock[job[w].order] = w
    /\ Creating(w) => awb[job[w].order] = None
    /\ Calling(w) /\ job[w].kind = "cancel_waybill" =>
         loaded[w] # None /\ awb[job[w].order] = loaded[w]

\* A row names a shipment made for its order.
RowsKnown ==
  \A o \in Orders :
    awb[o] # None => parcel[awb[o]].order = o /\ parcel[awb[o]].state # "unused"

\* A shipment that a request is about to cancel is on the row for as long as it can be,
\* although the row may have been read without its lock.
CallersKnow ==
  \A w \in Workers : pc[w] = "call" /\ job[w].kind # "create" =>
    /\ loaded[w] # None
    /\ parcel[loaded[w]].state # "unused"
    /\ parcel[loaded[w]].state = "moving" => awb[job[w].order] = loaded[w]

\* Who is about to write down a new shipment knows it alone.
CreatorsKnow ==
  \A w \in Workers : pc[w] = "commit" /\ job[w].kind = "create" =>
    /\ loaded[w] # None
    /\ parcel[loaded[w]].order = job[w].order
    /\ parcel[loaded[w]].state \in {"moving", "delivered"}
    /\ \A o \in Orders : awb[o] # loaded[w]

\* Who cancelled a shipment finds it on the row still.
CancellersKnow ==
  \A w \in Workers : Uncreated(w) =>
    /\ parcel[loaded[w]].state = "canceled"
    /\ awb[job[w].order] = loaded[w]

\* No two requests are about to record something of one shipment.
CommittersApart ==
  \A v, w \in Workers :
    v # w /\ pc[v] = "commit" /\ pc[w] = "commit" /\ loaded[v] = loaded[w] => loaded[w] = None

ParcelInv == RowsKnown /\ CallersKnow /\ CreatorsKnow /\ CancellersKnow /\ CommittersApart

WaybillInv == TypeOK /\ LockInv /\ ParcelInv

-----------------------------------------------------------------------------
\* TypeOK, by what changes together.
RowTypes ==
  /\ status \in [Orders -> {"open", "canceled"}]
  /\ awb \in [Orders -> Parcels \cup {None}]
  /\ text \in [Orders -> {"", "moving", "finished"}]
ParcelTypes ==
  parcel \in [Parcels -> [order : Orders \cup {None},
                          state : {"unused", "moving", "delivered", "canceled"}]]
WorkTypes ==
  /\ orderLock \in [Orders -> Workers \cup {None}]
  /\ rowLock \in [Orders -> Workers \cup {None}]
  /\ pc \in [Workers -> {"idle", "lock", "call", "commit"}]
  /\ job \in [Workers -> [kind : Kinds \cup {"none"}, order : Orders \cup {None}]]
  /\ loaded \in [Workers -> Parcels \cup {None}]
SweepTypes ==
  /\ sweep \in {"idle", "ask", "write"}
  /\ rows \in [Orders -> Parcels \cup {None}]
  /\ answers \in [Orders -> {"moving", "finished", None}]
FaultTypes == faults \in 0 .. MaxFaults

LEMMA TypeParts == TypeOK <=> RowTypes /\ ParcelTypes /\ WorkTypes /\ SweepTypes /\ FaultTypes
BY DEF TypeOK, RowTypes, ParcelTypes, WorkTypes, SweepTypes, FaultTypes

\* Every step keeps the types, given what the locks guarantee.
LEMMA TypeStep ==
  ASSUME TypeOK, LockInv, [Next]_vars
  PROVE  TypeOK'
<1>. RowTypes /\ ParcelTypes /\ WorkTypes /\ SweepTypes /\ FaultTypes
  BY TypeParts
<1>. SUFFICES RowTypes' /\ ParcelTypes' /\ WorkTypes' /\ SweepTypes' /\ FaultTypes'
  BY TypeParts DEF TypeOK, RowTypes, ParcelTypes, WorkTypes, SweepTypes, FaultTypes
<1>1. UNCHANGED rowVars => RowTypes'
  BY DEF RowTypes, rowVars
<1>2. UNCHANGED parcel => ParcelTypes'
  BY DEF ParcelTypes
<1>3. UNCHANGED workVars => WorkTypes'
  BY DEF WorkTypes, workVars
<1>4. UNCHANGED sweepVars => SweepTypes'
  BY DEF SweepTypes, sweepVars
<1>5. UNCHANGED faults \/ Fault => FaultTypes'
  BY BoundsAssumption DEF FaultTypes, Fault
<1>6. ASSUME NEW w \in Workers, Finish(w)
      PROVE  WorkTypes'
  BY <1>6 DEF WorkTypes, Finish, Goto, Released, NoJob
<1>7. ASSUME NEW w \in Workers, pc[w] # "idle"
      PROVE  job[w].order \in Orders
  BY <1>7 DEF LockInv
<1>8. ASSUME NEW p \in Parcels, NEW record,
             record \in [order : Orders \cup {None},
                         state : {"unused", "moving", "delivered", "canceled"}],
             parcel' = [parcel EXCEPT ![p] = record]
      PROVE  ParcelTypes'
  BY <1>8 DEF ParcelTypes
<1>9. ASSUME NEW w \in Workers, NEW kind \in Kinds, NEW o \in Orders, Request(w, kind, o)
      PROVE  UNCHANGED <<rowVars, parcel, sweepVars, faults>> /\ WorkTypes'
  BY <1>9 DEF Request, Goto, WorkTypes
<1>10. ASSUME NEW w \in Workers, LockCarrierRow(w) \/ LockOrder(w)
       PROVE  UNCHANGED <<rowVars, parcel, sweepVars, faults>> /\ WorkTypes'
  <2>1. UNCHANGED <<rowVars, parcel, sweepVars, faults>> /\ awb[job[w].order] \in Parcels \cup {None}
    BY <1>7, <1>10 DEF LockCarrierRow, LockOrder, RowTypes
  <2>. QED  BY <1>6, <1>10, <2>1 DEF LockCarrierRow, LockOrder, Goto, WorkTypes
<1>11. ASSUME NEW w \in Workers, CallCreate(w)
       PROVE  /\ UNCHANGED <<rowVars, sweepVars>>
              /\ ParcelTypes' /\ WorkTypes' /\ FaultTypes'
  <2>1. CASE UNCHANGED <<parcel, faults>> /\ Finish(w)
    BY <1>2, <1>5, <1>6, <1>11, <2>1 DEF CallCreate
  <2>2. ASSUME NEW p \in Parcels,
               parcel' = [parcel EXCEPT ![p] = [order |-> job[w].order, state |-> "moving"]],
               \/ /\ loaded' = [loaded EXCEPT ![w] = p]
                  /\ Goto(w, "commit")
                  /\ UNCHANGED <<orderLock, rowLock, job, faults>>
               \/ Fault /\ Finish(w)
        PROVE  ParcelTypes' /\ WorkTypes' /\ FaultTypes'
    <3>1. ParcelTypes'
      BY <1>7, <1>8, <1>11, <2>2 DEF CallCreate
    <3>2. WorkTypes'
      BY <1>6, <2>2 DEF WorkTypes, Goto
    <3>. QED  BY <1>5, <2>2, <3>1, <3>2
  <2>. QED  BY <1>11, <2>1, <2>2 DEF CallCreate
<1>12. ASSUME NEW p \in Parcels, NEW state \in {"delivered", "canceled"},
              parcel' = [parcel EXCEPT ![p].state = state]
       PROVE  ParcelTypes'
  BY <1>12 DEF ParcelTypes
<1>13. ASSUME NEW w \in Workers, CallCancel(w)
       PROVE  /\ UNCHANGED <<rowVars, sweepVars>>
              /\ ParcelTypes' /\ WorkTypes' /\ FaultTypes'
  <2>1. ParcelTypes'
    <3>1. CASE loaded[w] \in Parcels
      BY <1>2, <1>12, <1>13, <3>1 DEF CallCancel
    <3>2. CASE loaded[w] \notin Parcels
      <4>1. parcel' = parcel \/ parcel' = [parcel EXCEPT ![loaded[w]].state = "canceled"]
        BY <1>13 DEF CallCancel
      <4>. QED  BY <3>2, <4>1 DEF ParcelTypes
    <3>. QED  BY <3>1, <3>2
  <2>2. WorkTypes'
    BY <1>6, <1>13 DEF CallCancel, Goto, WorkTypes
  <2>. QED  BY <1>5, <1>13, <2>1, <2>2 DEF CallCancel
<1>14. ASSUME NEW w \in Workers, CommitCreate(w) \/ CommitCancelWaybill(w) \/ CommitCancelOrder(w)
       PROVE  UNCHANGED <<parcel, sweepVars>> /\ RowTypes' /\ WorkTypes' /\ FaultTypes'
  <2>1. RowTypes'
    <3>1. CASE CommitCreate(w)
      BY <3>1 DEF CommitCreate, RowTypes, WorkTypes
    <3>2. CASE CommitCancelWaybill(w)
      BY <3>2 DEF CommitCancelWaybill, RowTypes
    <3>3. CASE CommitCancelOrder(w)
      BY <3>3 DEF CommitCancelOrder, RowTypes
    <3>. QED  BY <1>14, <3>1, <3>2, <3>3
  <2>2. /\ UNCHANGED <<parcel, sweepVars>> /\ Finish(w)
        /\ UNCHANGED faults \/ Fault
    BY <1>14 DEF CommitCreate, CommitCancelWaybill, CommitCancelOrder
  <2>. QED  BY <1>5, <1>6, <2>1, <2>2
<1>15. ASSUME NEW w \in Workers, Crash(w)
       PROVE  UNCHANGED <<rowVars, parcel, sweepVars>> /\ WorkTypes' /\ FaultTypes'
  BY <1>5, <1>6, <1>15 DEF Crash
<1>16. ASSUME NEW p \in Parcels, CarrierDelivers(p)
       PROVE  UNCHANGED <<rowVars, workVars, sweepVars, faults>> /\ ParcelTypes'
  BY <1>12, <1>16 DEF CarrierDelivers
<1>17. CASE SweepRead \/ SweepAsk \/ SweepFails
  <2>1. UNCHANGED <<rowVars, parcel, workVars, faults>>
    BY <1>17 DEF SweepRead, SweepAsk, SweepFails
  <2>2. SweepTypes'
    BY <1>17 DEF SweepRead, SweepAsk, SweepFails, Tracked, NoRows, SweepTypes, RowTypes
  <2>. QED  BY <1>1, <1>2, <1>3, <1>5, <2>1, <2>2
<1>18. CASE SweepWrite
  <2>1. UNCHANGED <<status, awb, parcel, workVars, faults>>
    BY <1>18 DEF SweepWrite
  <2>2. RowTypes'
    BY <1>18 DEF SweepWrite, RowTypes
  <2>3. SweepTypes'
    BY <1>18 DEF SweepWrite, NoRows, SweepTypes
  <2>. QED  BY <1>2, <1>3, <1>5, <2>1, <2>2, <2>3
<1>19. CASE UNCHANGED vars
  BY <1>1, <1>2, <1>3, <1>4, <1>5, <1>19 DEF vars, rowVars, workVars, sweepVars
<1>. QED  BY <1>1, <1>2, <1>3, <1>4, <1>5, <1>9, <1>10, <1>11, <1>13, <1>14, <1>15, <1>16,
             <1>17, <1>18, <1>19
          DEF Next, Serve

\* A request that ends leaves the others and their locks alone.
LEMMA FinishOthers ==
  ASSUME TypeOK, LockInv, NEW w \in Workers, Finish(w)
  PROVE  /\ pc'[w] = "idle"
         /\ \A v \in Workers \ {w} :
              /\ pc'[v] = pc[v] /\ job'[v] = job[v] /\ loaded'[v] = loaded[v]
              /\ \A o \in Orders : rowLock[o] = v => rowLock'[o] = v
BY DEF TypeOK, Finish, Goto, Released

\* A request keeps what its lock gives it while it is another's turn, as long as the
\* other leaves the row alone or did not need the lock for it.
LEMMA OthersLock ==
  ASSUME LockInv, NEW w \in Workers,
         \A v \in Workers \ {w} :
           /\ pc'[v] = pc[v] /\ job'[v] = job[v] /\ loaded'[v] = loaded[v]
           /\ \A o \in Orders : rowLock[o] = v => rowLock'[o] = v /\ awb'[o] = awb[o],
         pc'[w] \notin {"idle", "call", "commit"} => job'[w].kind \in Kinds /\ job'[w].order \in Orders,
         pc'[w] \in {"call", "commit"} =>
           /\ job'[w].kind \in Kinds /\ job'[w].order \in Orders
           /\ job'[w].kind \in {"create", "cancel_waybill"} => rowLock'[job'[w].order] = w
           /\ job'[w].kind = "create" => awb'[job'[w].order] = None
           /\ job'[w].kind = "cancel_waybill" =>
                loaded'[w] # None /\ awb'[job'[w].order] = loaded'[w]
  PROVE  LockInv'
BY DEF LockInv, Calling, Creating

\* Every step keeps LockInv: only who holds a row, or finds it free, writes it.
LEMMA LockStep ==
  ASSUME TypeOK, LockInv, ParcelInv, [Next]_vars
  PROVE  LockInv'
<1>1. CASE UNCHANGED vars
  BY <1>1 DEF vars, LockInv, Calling, Creating
<1>2. ASSUME NEW w \in Workers, Finish(w),
             \A v \in Workers \ {w} : \A o \in Orders : rowLock[o] = v => awb'[o] = awb[o]
      PROVE  LockInv'
  BY <1>2, FinishOthers, OthersLock
<1>3. ASSUME NEW w \in Workers, NEW kind \in Kinds, NEW o \in Orders, Request(w, kind, o)
      PROVE  LockInv'
  BY <1>3, OthersLock DEF Request, Goto, TypeOK, rowVars
<1>4. ASSUME NEW w \in Workers, LockCarrierRow(w)
      PROVE  LockInv'
  <2>1. CASE Finish(w)
    BY <1>2, <1>4, <2>1 DEF LockCarrierRow, rowVars
  <2>2. CASE ~ Finish(w)
    <3>. DEFINE o == job[w].order
    <3>1. /\ pc[w] = "lock" /\ o \in Orders /\ rowLock[o] = None
          /\ job[w].kind \in {"create", "cancel_waybill"}
          /\ (job[w].kind = "create") = (awb[o] = None)
          /\ rowLock' = [rowLock EXCEPT ![o] = w]
          /\ loaded' = [loaded EXCEPT ![w] = awb[o]]
          /\ pc' = [pc EXCEPT ![w] = "call"]
          /\ UNCHANGED <<awb, job>>
      BY <1>4, <2>2 DEF LockCarrierRow, Goto, LockInv, rowVars
    <3>2. /\ pc'[w] = "call" /\ loaded'[w] = awb[o] /\ rowLock'[o] = w
          /\ \A v \in Workers \ {w} : pc'[v] = pc[v] /\ loaded'[v] = loaded[v]
          /\ \A p \in Orders : rowLock[p] # None => rowLock'[p] = rowLock[p]
      BY <3>1 DEF TypeOK
    <3>. HIDE DEF o
    <3>3. \A v \in Workers \ {w}, p \in Orders : rowLock[p] = v => rowLock'[p] = v
      BY <3>2, NoneAssumption
    <3>. QED  BY <3>1, <3>2, <3>3, OthersLock DEF Kinds, o
  <2>. QED  BY <2>1, <2>2
<1>5. ASSUME NEW w \in Workers, LockOrder(w)
      PROVE  LockInv'
  <2>1. CASE Finish(w)
    BY <1>2, <1>5, <2>1 DEF LockOrder, rowVars
  <2>2. CASE ~ Finish(w)
    <3>1. /\ pc[w] = "lock" /\ job[w].kind \in {"cancel_order", "declined"}
          /\ job[w].order \in Orders
          /\ \A v \in Workers \ {w} : pc'[v] = pc[v] /\ loaded'[v] = loaded[v]
          /\ UNCHANGED <<awb, rowLock, job>>
      BY <1>5, <2>2 DEF LockOrder, Goto, LockInv, TypeOK, rowVars
    <3>. QED  BY <3>1, OthersLock DEF Kinds
  <2>. QED  BY <2>1, <2>2
<1>6. ASSUME NEW w \in Workers, CallCreate(w)
      PROVE  LockInv'
  <2>1. CASE Finish(w)
    BY <1>2, <1>6, <2>1 DEF CallCreate, rowVars
  <2>2. CASE ~ Finish(w)
    <3>1. /\ Creating(w) /\ pc'[w] = "commit"
          /\ \A v \in Workers \ {w} : pc'[v] = pc[v] /\ loaded'[v] = loaded[v]
          /\ UNCHANGED <<awb, rowLock, job>>
      BY <1>6, <2>2 DEF CallCreate, Goto, TypeOK, rowVars, Creating, Calling
    <3>2. /\ job[w].order \in Orders /\ awb[job[w].order] = None /\ rowLock[job[w].order] = w
      BY <3>1 DEF LockInv, Creating, Calling
    <3>. QED  BY <3>1, <3>2, OthersLock DEF Kinds, Creating
  <2>. QED  BY <2>1, <2>2
<1>7. ASSUME NEW w \in Workers, CallCancel(w)
      PROVE  LockInv'
  <2>1. CASE Finish(w)
    BY <1>2, <1>7, <2>1 DEF CallCancel, rowVars
  <2>2. CASE ~ Finish(w)
    BY <1>7, <2>2 DEF CallCancel, Goto, TypeOK, rowVars, LockInv, Creating, Calling
  <2>. QED  BY <2>1, <2>2
<1>8. ASSUME NEW w \in Workers, CommitCreate(w) \/ CommitCancelWaybill(w)
      PROVE  LockInv'
  <2>1. /\ Calling(w) /\ job[w].kind \in {"create", "cancel_waybill"}
        /\ Finish(w)
        /\ \A o \in Orders \ {job[w].order} : awb'[o] = awb[o]
    BY <1>8 DEF CommitCreate, CommitCancelWaybill, TypeOK, Calling
  <2>2. job[w].order \in Orders /\ rowLock[job[w].order] = w
    BY <2>1 DEF LockInv, Calling
  <2>. QED  BY <1>2, <2>1, <2>2
<1>9. ASSUME NEW w \in Workers, CommitCancelOrder(w)
      PROVE  LockInv'
  <2>1. job[w].order \in Orders
    BY <1>9 DEF CommitCancelOrder, LockInv
  <2>2. /\ Finish(w)
        /\ \A o \in Orders : awb'[o] # awb[o] => rowLock[o] = None
    BY <1>9, <2>1 DEF CommitCancelOrder, TypeOK
  <2>. QED  BY <1>2, <2>2, NoneAssumption
<1>10. ASSUME NEW w \in Workers, Crash(w)
       PROVE  LockInv'
  BY <1>2, <1>10 DEF Crash, rowVars
<1>11. CASE \/ \E p \in Parcels : CarrierDelivers(p)
            \/ SweepRead \/ SweepAsk \/ SweepFails \/ SweepWrite
  BY <1>11 DEF CarrierDelivers, SweepRead, SweepAsk, SweepFails, SweepWrite,
               rowVars, workVars, LockInv, Calling, Creating
<1>. QED  BY <1>1, <1>3, <1>4, <1>5, <1>6, <1>7, <1>8, <1>9, <1>10, <1>11 DEF Next, Serve

-----------------------------------------------------------------------------
\* A step of w leaves the other requests as they are.
Alone(w) ==
  \A v \in Workers \ {w} : pc'[v] = pc[v] /\ job'[v] = job[v] /\ loaded'[v] = loaded[v]

\* A step that leaves rows and shipments alone, and begins no commit that knows one.
LEMMA QuietParcel ==
  ASSUME ParcelInv, UNCHANGED <<awb, parcel>>, NEW w \in Workers, Alone(w),
         pc'[w] = "call" /\ job'[w].kind # "create" =>
           loaded'[w] # None /\ \E o \in Orders : o = job'[w].order /\ loaded'[w] = awb[o],
         pc'[w] = "commit" => job'[w].kind # "create" /\ loaded'[w] = None
  PROVE  ParcelInv'
BY DEF ParcelInv, RowsKnown, CallersKnow, CreatorsKnow, CancellersKnow, CommittersApart,
       Uncreated, Alone

\* The carrier makes p for the order of w, which keeps it in mind or is lost.
LEMMA MakeParcel ==
  ASSUME TypeOK, LockInv, ParcelInv, NEW w \in Workers, Alone(w), UNCHANGED awb,
         Creating(w), job[w].order \in Orders, NEW p \in Parcels, parcel[p].state = "unused",
         \A q \in Parcels \ {p} : parcel'[q] = parcel[q],
         parcel'[p].order = job[w].order, parcel'[p].state = "moving",
         \/ pc'[w] = "idle"
         \/ pc'[w] = "commit" /\ loaded'[w] = p /\ job'[w] = job[w]
  PROVE  ParcelInv'
<1>1. /\ p # None
      /\ \A o \in Orders : awb[o] \in Parcels \cup {None}
      /\ \A v \in Workers : loaded[v] \in Parcels \cup {None}
  BY NoneAssumption DEF TypeOK
<1>2. \A o \in Orders : awb[o] # p
  BY <1>1 DEF ParcelInv, RowsKnown
<1>3. \A v \in Workers \ {w} : pc[v] = "call" /\ job[v].kind # "create" => loaded[v] # p
  BY DEF ParcelInv, CallersKnow
<1>4. \A v \in Workers \ {w} : pc[v] = "commit" => loaded[v] # p
  BY <1>1 DEF ParcelInv, CreatorsKnow, CancellersKnow, Uncreated
<1>5. RowsKnown'
  BY <1>1, <1>2 DEF ParcelInv, RowsKnown
<1>6. CallersKnow'
  BY <1>1, <1>3 DEF ParcelInv, CallersKnow, Alone
<1>7. CreatorsKnow'
  BY <1>1, <1>2, <1>4 DEF ParcelInv, CreatorsKnow, Alone
<1>8. CancellersKnow'
  BY <1>1, <1>4 DEF ParcelInv, CancellersKnow, Uncreated, Alone, Creating
<1>9. CommittersApart'
  BY <1>1, <1>4 DEF ParcelInv, CommittersApart, Alone
<1>. QED  BY <1>5, <1>6, <1>7, <1>8, <1>9 DEF ParcelInv

\* The carrier cancels p, which the row of w names, for w.
LEMMA CancelParcel ==
  ASSUME TypeOK, ParcelInv, NEW w \in Workers, Alone(w), UNCHANGED awb,
         pc[w] = "call", job[w].kind # "create", job[w].order \in Orders,
         NEW p \in Parcels, p = loaded[w], parcel[p].state = "moving",
         \A q \in Parcels \ {p} : parcel'[q] = parcel[q],
         parcel'[p].order = parcel[p].order, parcel'[p].state = "canceled",
         \/ pc'[w] = "idle"
         \/ pc'[w] = "commit" /\ loaded'[w] = p /\ job'[w] = job[w]
  PROVE  ParcelInv'
<1>1. /\ p # None
      /\ \A o \in Orders : awb[o] \in Parcels \cup {None}
      /\ \A v \in Workers : loaded[v] \in Parcels \cup {None}
  BY NoneAssumption DEF TypeOK
<1>2. awb[job[w].order] = p
  BY DEF ParcelInv, CallersKnow
<1>4. \A v \in Workers \ {w} : pc[v] = "commit" => loaded[v] # p
  BY <1>1, <1>2 DEF ParcelInv, CreatorsKnow, CancellersKnow, Uncreated
<1>5. RowsKnown'
  BY <1>1 DEF ParcelInv, RowsKnown
<1>6. CallersKnow'
  BY <1>1 DEF ParcelInv, CallersKnow, Alone
<1>7. CreatorsKnow'
  BY <1>1, <1>4 DEF ParcelInv, CreatorsKnow, Alone
<1>8. CancellersKnow'
  BY <1>1, <1>2, <1>4 DEF ParcelInv, CancellersKnow, Uncreated, Alone
<1>9. CommittersApart'
  BY <1>1, <1>4 DEF ParcelInv, CommittersApart, Alone
<1>. QED  BY <1>5, <1>6, <1>7, <1>8, <1>9 DEF ParcelInv

\* A creation ends with the shipment's number on the row, or at the cost of a fault without.
LEMMA CreateEnds ==
  ASSUME TypeOK, LockInv, ParcelInv, NEW w \in Workers, CommitCreate(w)
  PROVE  /\ UNCHANGED parcel /\ Finish(w) /\ pc[w] = "commit" /\ job[w].kind = "create"
         /\ job[w].order \in Orders /\ loaded[w] # None
         /\ \/ /\ UNCHANGED faults
               /\ awb'[job[w].order] = loaded[w]
               /\ \A q \in Orders \ {job[w].order} : awb'[q] = awb[q]
            \/ awb' = awb /\ Fault
<1>. DEFINE o == job[w].order
<1>1. /\ UNCHANGED parcel /\ Finish(w) /\ pc[w] = "commit" /\ job[w].kind = "create"
      /\ \/ awb' = [awb EXCEPT ![o] = loaded[w]] /\ UNCHANGED faults
         \/ awb' = [awb EXCEPT ![o] = None] /\ Fault
  BY DEF CommitCreate
<1>2. o \in Orders /\ loaded[w] # None /\ awb[o] = None
  BY <1>1 DEF LockInv, Creating, Calling, ParcelInv, CreatorsKnow
<1>3. DOMAIN awb = Orders /\ awb = [q \in Orders |-> awb[q]]
  BY DEF TypeOK
<1>. HIDE DEF o
<1>4. CASE awb' = [awb EXCEPT ![o] = loaded[w]] /\ UNCHANGED faults
  <2>1. awb'[o] = loaded[w] /\ \A q \in Orders \ {o} : awb'[q] = awb[q]
    BY <1>2, <1>3, <1>4
  <2>. QED  BY <1>1, <1>2, <1>4, <2>1 DEF o
<1>5. CASE awb' = [awb EXCEPT ![o] = None] /\ Fault
  <2>1. awb' = awb
    BY <1>2, <1>3, <1>5
  <2>. QED  BY <1>1, <1>2, <1>5, <2>1 DEF o
<1>. QED  BY <1>1, <1>4, <1>5

\* w ends and writes into its row the shipment it made, or clears it of the one it cancelled.
LEMMA WriteRow ==
  ASSUME TypeOK, LockInv, ParcelInv, NEW w \in Workers, Alone(w), UNCHANGED parcel,
         pc[w] = "commit", pc'[w] = "idle", loaded[w] # None,
         NEW o \in Orders, o = job[w].order,
         \A q \in Orders \ {o} : awb'[q] = awb[q],
         IF job[w].kind = "create" THEN awb'[o] = loaded[w] ELSE awb'[o] = None
  PROVE  ParcelInv'
<1>1. \A v \in Workers \ {w} : pc[v] = "commit" => loaded[v] # loaded[w]
  BY DEF ParcelInv, CommittersApart
<1>2. IF job[w].kind = "create" THEN awb[o] = None
      ELSE awb[o] = loaded[w] /\ parcel[loaded[w]].state = "canceled"
  BY DEF ParcelInv, CancellersKnow, Uncreated, LockInv, Creating, Calling
<1>3. \A v \in Workers \ {w} :
        /\ pc[v] = "call" /\ job[v].kind # "create" /\ parcel[loaded[v]].state = "moving" =>
             job[v].order # o
        /\ Uncreated(v) => job[v].order # o
  BY <1>1, <1>2 DEF ParcelInv, CallersKnow, CancellersKnow, Uncreated
<1>5. RowsKnown'
  BY DEF ParcelInv, RowsKnown, CreatorsKnow
<1>6. CallersKnow'
  BY <1>3 DEF ParcelInv, CallersKnow, Alone, LockInv
<1>7. CreatorsKnow'
  BY <1>1 DEF ParcelInv, CreatorsKnow, Alone
<1>8. CancellersKnow'
  BY <1>3 DEF ParcelInv, CancellersKnow, Uncreated, Alone, LockInv
<1>9. CommittersApart'
  BY DEF ParcelInv, CommittersApart, Alone
<1>. QED  BY <1>5, <1>6, <1>7, <1>8, <1>9 DEF ParcelInv

\* Every step keeps ParcelInv: a shipment is made by one request, and cancelled by one.
LEMMA ParcelStep ==
  ASSUME TypeOK, LockInv, ParcelInv, [Next]_vars
  PROVE  ParcelInv'
<1>. USE DEF Alone
<1>1. CASE UNCHANGED vars
  BY <1>1 DEF vars, ParcelInv, RowsKnown, CallersKnow, CreatorsKnow, CancellersKnow,
              CommittersApart, Uncreated
<1>2. ASSUME NEW w \in Workers, Finish(w), UNCHANGED <<awb, parcel>>
      PROVE  ParcelInv'
  BY <1>2, FinishOthers, QuietParcel
<1>3. ASSUME NEW w \in Workers, NEW kind \in Kinds, NEW o \in Orders, Request(w, kind, o)
      PROVE  ParcelInv'
  BY <1>3, QuietParcel DEF Request, Goto, TypeOK, rowVars
<1>4. ASSUME NEW w \in Workers, LockCarrierRow(w)
      PROVE  ParcelInv'
  <2>1. CASE Finish(w)
    BY <1>2, <1>4, <2>1 DEF LockCarrierRow, rowVars
  <2>2. CASE ~ Finish(w)
    <3>1. /\ job[w].order \in Orders /\ UNCHANGED <<awb, parcel, job>>
          /\ (job[w].kind = "create") = (awb[job[w].order] = None)
          /\ pc'[w] = "call" /\ loaded'[w] = awb[job[w].order]
          /\ \A v \in Workers \ {w} : pc'[v] = pc[v] /\ loaded'[v] = loaded[v]
      BY <1>4, <2>2 DEF LockCarrierRow, Goto, LockInv, TypeOK, rowVars
    <3>. QED  BY <3>1, QuietParcel
  <2>. QED  BY <2>1, <2>2
<1>5. ASSUME NEW w \in Workers, LockOrder(w)
      PROVE  ParcelInv'
  <2>1. CASE Finish(w)
    BY <1>2, <1>5, <2>1 DEF LockOrder, rowVars
  <2>2. CASE ~ Finish(w)
    <3>1. /\ job[w].order \in Orders /\ job[w].kind # "create" /\ UNCHANGED <<awb, parcel, job>>
          /\ pc'[w] = (IF awb[job[w].order] = None THEN "commit" ELSE "call")
          /\ loaded'[w] = awb[job[w].order]
          /\ \A v \in Workers \ {w} : pc'[v] = pc[v] /\ loaded'[v] = loaded[v]
      BY <1>5, <2>2 DEF LockOrder, Goto, LockInv, TypeOK, rowVars
    <3>. QED  BY <3>1, QuietParcel
  <2>. QED  BY <2>1, <2>2
<1>6. ASSUME NEW w \in Workers, CallCreate(w)
      PROVE  ParcelInv'
  <2>1. CASE Finish(w) /\ UNCHANGED parcel
    BY <1>2, <1>6, <2>1 DEF CallCreate, rowVars
  <2>2. CASE ~ (Finish(w) /\ UNCHANGED parcel)
    <3>1. PICK p \in Parcels :
            /\ parcel[p].state = "unused"
            /\ parcel' = [parcel EXCEPT ![p] = [order |-> job[w].order, state |-> "moving"]]
            /\ \/ /\ loaded' = [loaded EXCEPT ![w] = p]
                  /\ Goto(w, "commit")
                  /\ UNCHANGED <<orderLock, rowLock, job, faults>>
               \/ Fault /\ Finish(w)
      BY <1>6, <2>2 DEF CallCreate
    <3>2. Creating(w) /\ job[w].order \in Orders /\ UNCHANGED awb
      BY <1>6 DEF CallCreate, Creating, Calling, LockInv, rowVars
    <3>3. /\ \A q \in Parcels \ {p} : parcel'[q] = parcel[q]
          /\ parcel'[p].order = job[w].order /\ parcel'[p].state = "moving"
      BY <3>1 DEF TypeOK
    <3>4. CASE Finish(w)
      BY <3>1, <3>2, <3>3, <3>4, FinishOthers, MakeParcel
    <3>5. CASE /\ loaded' = [loaded EXCEPT ![w] = p]
               /\ Goto(w, "commit")
               /\ UNCHANGED job
      <4>1. pc'[w] = "commit" /\ loaded'[w] = p /\ Alone(w)
        BY <3>5 DEF Goto, TypeOK
      <4>. QED  BY <3>1, <3>2, <3>3, <3>5, <4>1, MakeParcel
    <3>. QED  BY <3>1, <3>4, <3>5
  <2>. QED  BY <2>1, <2>2
<1>7. ASSUME NEW w \in Workers, CallCancel(w)
      PROVE  ParcelInv'
  <2>1. CASE Finish(w) /\ UNCHANGED parcel
    BY <1>2, <1>7, <2>1 DEF CallCancel, rowVars
  <2>2. CASE ~ (Finish(w) /\ UNCHANGED parcel)
    <3>. DEFINE p == loaded[w]
    <3>1. /\ pc[w] = "call" /\ job[w].kind # "create" /\ UNCHANGED awb
          /\ parcel[p].state = "moving"
          /\ parcel' = [parcel EXCEPT ![p].state = "canceled"]
          /\ \/ Goto(w, "commit") /\ UNCHANGED <<job, loaded>>
             \/ Finish(w)
      BY <1>7, <2>2 DEF CallCancel, rowVars
    <3>2. p \in Parcels /\ job[w].order \in Orders
      BY <3>1 DEF ParcelInv, CallersKnow, TypeOK, LockInv
    <3>3. /\ \A q \in Parcels \ {p} : parcel'[q] = parcel[q]
          /\ parcel'[p].order = parcel[p].order /\ parcel'[p].state = "canceled"
      BY <3>1, <3>2 DEF TypeOK
    <3>4. CASE Finish(w)
      BY <3>1, <3>2, <3>3, <3>4, FinishOthers, CancelParcel
    <3>5. CASE Goto(w, "commit") /\ UNCHANGED <<job, loaded>>
      <4>1. pc'[w] = "commit" /\ Alone(w)
        BY <3>5 DEF Goto, TypeOK
      <4>. QED  BY <3>1, <3>2, <3>3, <3>5, <4>1, CancelParcel
    <3>. QED  BY <3>1, <3>4, <3>5
  <2>. QED  BY <2>1, <2>2
<1>8. ASSUME NEW w \in Workers, CommitCreate(w)
      PROVE  ParcelInv'
  <2>1. CASE awb' = awb
    <3>1. Finish(w) /\ UNCHANGED <<awb, parcel>>
      BY <1>8, <2>1, CreateEnds
    <3>. QED  BY <1>2, <3>1
  <2>2. CASE /\ awb'[job[w].order] = loaded[w]
             /\ \A q \in Orders \ {job[w].order} : awb'[q] = awb[q]
    <3>1. /\ job[w].order \in Orders /\ loaded[w] # None
          /\ UNCHANGED parcel /\ Finish(w) /\ pc[w] = "commit" /\ job[w].kind = "create"
      BY <1>8, CreateEnds
    <3>. QED  BY <2>2, <3>1, FinishOthers, WriteRow
  <2>. QED  BY <1>8, <2>1, <2>2, CreateEnds
<1>9. ASSUME NEW w \in Workers, CommitCancelWaybill(w) \/ CommitCancelOrder(w)
      PROVE  ParcelInv'
  <2>. /\ pc[w] = "commit" /\ job[w].kind # "create" /\ job[w].order \in Orders
       /\ UNCHANGED parcel /\ Finish(w)
    BY <1>9 DEF CommitCancelWaybill, CommitCancelOrder, LockInv
  <2>1. CASE loaded[w] = None
    <3>1. CommitCancelOrder(w)
      BY <1>9, <2>1 DEF CommitCancelWaybill, LockInv, Calling
    <3>2. \A o \in Orders : awb'[o] = awb[o]
      BY <2>1, <3>1 DEF CommitCancelOrder, TypeOK
    <3>3. awb' = awb
      BY <2>1, <3>1, <3>2 DEF CommitCancelOrder, TypeOK
    <3>. QED  BY <1>2, <3>3
  <2>2. CASE loaded[w] # None
    <3>1. awb'[job[w].order] = None /\ \A q \in Orders \ {job[w].order} : awb'[q] = awb[q]
      BY <1>9, <2>2 DEF CommitCancelWaybill, CommitCancelOrder, TypeOK
    <3>. QED  BY <2>2, <3>1, FinishOthers, WriteRow
  <2>. QED  BY <2>1, <2>2
<1>10. ASSUME NEW w \in Workers, Crash(w)
       PROVE  ParcelInv'
  BY <1>2, <1>10 DEF Crash, rowVars
<1>11. ASSUME NEW p \in Parcels, CarrierDelivers(p)
       PROVE  ParcelInv'
  <2>1. /\ UNCHANGED <<awb, pc, job, loaded>>
        /\ \A q \in Parcels \ {p} : parcel'[q] = parcel[q]
        /\ parcel'[p].order = parcel[p].order /\ parcel'[p].state = "delivered"
        /\ parcel[p].state = "moving"
    BY <1>11 DEF CarrierDelivers, rowVars, workVars, TypeOK
  <2>2. /\ \A o \in Orders : awb[o] \in Parcels \cup {None}
        /\ \A v \in Workers : loaded[v] \in Parcels \cup {None}
    BY DEF TypeOK
  <2>3. RowsKnown' /\ CallersKnow'
    BY <2>1, <2>2 DEF ParcelInv, RowsKnown, CallersKnow
  <2>4. CreatorsKnow' /\ CancellersKnow' /\ CommittersApart'
    BY <2>1, <2>2 DEF ParcelInv, CreatorsKnow, CancellersKnow, CommittersApart, Uncreated
  <2>. QED  BY <2>3, <2>4 DEF ParcelInv
<1>12. CASE SweepRead \/ SweepAsk \/ SweepFails \/ SweepWrite
  BY <1>12 DEF SweepRead, SweepAsk, SweepFails, SweepWrite, rowVars, workVars, ParcelInv,
               RowsKnown, CallersKnow, CreatorsKnow, CancellersKnow, CommittersApart, Uncreated
<1>. QED  BY <1>1, <1>3, <1>4, <1>5, <1>6, <1>7, <1>8, <1>9, <1>10, <1>11, <1>12 DEF Next, Serve

-----------------------------------------------------------------------------
\* The kinds of step that the properties below tell apart.

\* w ends, begins, or reads a row, without touching rows or shipments.
Quiet(w) ==
  /\ Alone(w) /\ UNCHANGED <<awb, parcel>>
  /\ \/ UNCHANGED faults /\ (pc[w] = "commit" => loaded[w] = None)
     \/ faults' = faults + 1

\* The carrier acts on p for w, which keeps p in mind or is lost to a fault.
Acts(w, p) ==
  /\ Alone(w) /\ UNCHANGED awb
  /\ pc[w] = "call"
  /\ \A q \in Parcels \ {p} : parcel'[q] = parcel[q]
  /\ \/ pc'[w] = "idle" /\ faults' = faults + 1
     \/ pc'[w] = "commit" /\ loaded'[w] = p /\ UNCHANGED faults

Makes(w, p) ==
  /\ Acts(w, p)
  /\ parcel[p].state = "unused"
  /\ parcel'[p].state = "moving"

Cancels(w, p) ==
  /\ Acts(w, p)
  /\ parcel[p].state = "moving"
  /\ parcel'[p].state = "canceled"

\* w ends and writes what it knows of a shipment into its row.
Writes(w) ==
  /\ Alone(w) /\ UNCHANGED <<parcel, faults>>
  /\ pc[w] = "commit" /\ pc'[w] = "idle" /\ loaded[w] # None
  /\ job[w].order \in Orders
  /\ \A q \in Orders \ {job[w].order} : awb'[q] = awb[q]
  /\ awb'[job[w].order] = IF job[w].kind = "create" THEN loaded[w] ELSE None

Delivers(p) ==
  /\ UNCHANGED <<awb, pc, job, loaded, faults>>
  /\ \A q \in Parcels \ {p} : parcel'[q] = parcel[q]
  /\ parcel[p].state = "moving" /\ parcel'[p].state = "delivered"
  /\ parcel'[p].order = parcel[p].order

\* Every step is of one of these kinds, or concerns neither rows nor shipments.
LEMMA StepShape ==
  ASSUME WaybillInv, [Next]_vars
  PROVE  \/ UNCHANGED <<awb, parcel, pc, job, loaded, faults>>
         \/ \E w \in Workers : Quiet(w) \/ Writes(w)
         \/ \E w \in Workers, p \in Parcels : Makes(w, p) \/ Cancels(w, p)
         \/ \E p \in Parcels : Delivers(p)
<1>. TypeOK /\ LockInv /\ ParcelInv
  BY DEF WaybillInv
<1>1. ASSUME NEW w \in Workers, Finish(w)
      PROVE  Alone(w) /\ pc'[w] = "idle"
  BY <1>1, FinishOthers DEF Alone
<1>2. CASE UNCHANGED vars
  BY <1>2 DEF vars
<1>3. ASSUME NEW w \in Workers, NEW kind \in Kinds, NEW o \in Orders, Request(w, kind, o)
      PROVE  Quiet(w)
  BY <1>3 DEF Request, Goto, TypeOK, rowVars, Alone, Quiet
<1>4. ASSUME NEW w \in Workers, LockCarrierRow(w) \/ LockOrder(w)
      PROVE  Quiet(w)
  <2>1. pc[w] = "lock" /\ UNCHANGED <<awb, parcel, faults>>
    BY <1>4 DEF LockCarrierRow, LockOrder, rowVars
  <2>2. Alone(w)
    BY <1>1, <1>4 DEF LockCarrierRow, LockOrder, Goto, TypeOK, Alone
  <2>. QED  BY <2>1, <2>2 DEF Quiet
<1>5. ASSUME NEW w \in Workers, CallCreate(w)
      PROVE  Quiet(w) \/ \E p \in Parcels : Makes(w, p)
  <2>1. pc[w] = "call" /\ UNCHANGED awb
    BY <1>5 DEF CallCreate, rowVars
  <2>2. CASE Finish(w) /\ UNCHANGED <<parcel, faults>>
    BY <1>1, <2>1, <2>2 DEF Quiet
  <2>3. ASSUME NEW p \in Parcels, parcel[p].state = "unused",
               parcel' = [parcel EXCEPT ![p] = [order |-> job[w].order, state |-> "moving"]],
               \/ /\ loaded' = [loaded EXCEPT ![w] = p]
                  /\ Goto(w, "commit")
                  /\ UNCHANGED <<orderLock, rowLock, job, faults>>
               \/ Fault /\ Finish(w)
        PROVE  Makes(w, p)
    <3>1. parcel'[p].state = "moving" /\ \A q \in Parcels \ {p} : parcel'[q] = parcel[q]
      BY <2>3 DEF TypeOK
    <3>2. CASE Fault /\ Finish(w)
      BY <1>1, <2>1, <2>3, <3>1, <3>2 DEF Fault, Acts, Makes
    <3>3. CASE loaded' = [loaded EXCEPT ![w] = p] /\ Goto(w, "commit") /\ UNCHANGED <<job, faults>>
      BY <2>1, <2>3, <3>1, <3>3 DEF Goto, TypeOK, Alone, Acts, Makes
    <3>. QED  BY <2>3, <3>2, <3>3
  <2>. QED  BY <1>5, <2>2, <2>3 DEF CallCreate
<1>6. ASSUME NEW w \in Workers, CallCancel(w)
      PROVE  Quiet(w) \/ \E p \in Parcels : Cancels(w, p)
  <2>1. pc[w] = "call" /\ UNCHANGED awb /\ loaded[w] \in Parcels
    BY <1>6 DEF CallCancel, rowVars, ParcelInv, CallersKnow, TypeOK
  <2>2. CASE Finish(w) /\ UNCHANGED <<parcel, faults>>
    BY <1>1, <2>1, <2>2 DEF Quiet
  <2>3. CASE /\ parcel[loaded[w]].state = "moving"
             /\ parcel' = [parcel EXCEPT ![loaded[w]].state = "canceled"]
             /\ \/ Goto(w, "commit") /\ UNCHANGED <<orderLock, rowLock, job, loaded, faults>>
                \/ Fault /\ Finish(w)
    <3>1. /\ parcel'[loaded[w]].state = "canceled"
          /\ \A q \in Parcels \ {loaded[w]} : parcel'[q] = parcel[q]
      BY <2>1, <2>3 DEF TypeOK
    <3>2. Cancels(w, loaded[w])
      <4>1. CASE Fault /\ Finish(w)
        BY <1>1, <2>1, <2>3, <3>1, <4>1 DEF Fault, Acts, Cancels
      <4>2. CASE Goto(w, "commit") /\ UNCHANGED <<job, loaded, faults>>
        BY <2>1, <2>3, <3>1, <4>2 DEF Goto, TypeOK, Alone, Acts, Cancels
      <4>. QED  BY <2>3, <4>1, <4>2
    <3>. QED  BY <2>1, <3>2
  <2>. QED  BY <1>6, <2>2, <2>3 DEF CallCancel
<1>7. ASSUME NEW w \in Workers, CommitCreate(w)
      PROVE  Quiet(w) \/ Writes(w)
  <2>1. /\ UNCHANGED parcel /\ Alone(w) /\ pc[w] = "commit" /\ pc'[w] = "idle"
        /\ job[w].kind = "create" /\ job[w].order \in Orders /\ loaded[w] # None
    BY <1>1, <1>7, CreateEnds
  <2>2. CASE awb' = awb /\ Fault
    BY <2>1, <2>2 DEF Quiet, Fault
  <2>3. CASE /\ UNCHANGED faults
             /\ awb'[job[w].order] = loaded[w]
             /\ \A q \in Orders \ {job[w].order} : awb'[q] = awb[q]
    BY <2>1, <2>3 DEF Writes
  <2>. QED  BY <1>7, <2>2, <2>3, CreateEnds
<1>8. ASSUME NEW w \in Workers, CommitCancelWaybill(w) \/ CommitCancelOrder(w)
      PROVE  Quiet(w) \/ Writes(w)
  <2>1. /\ pc[w] = "commit" /\ job[w].kind # "create" /\ job[w].order \in Orders
        /\ UNCHANGED <<parcel, faults>> /\ Alone(w) /\ pc'[w] = "idle"
    BY <1>1, <1>8 DEF CommitCancelWaybill, CommitCancelOrder, LockInv
  <2>2. CASE loaded[w] = None
    <3>1. CommitCancelOrder(w)
      BY <1>8, <2>2 DEF CommitCancelWaybill, LockInv, Calling
    <3>2. awb' = awb
      BY <2>2, <3>1 DEF CommitCancelOrder, TypeOK
    <3>. QED  BY <2>1, <2>2, <3>2 DEF Quiet
  <2>3. CASE loaded[w] # None
    <3>1. awb'[job[w].order] = None /\ \A q \in Orders \ {job[w].order} : awb'[q] = awb[q]
      BY <1>8, <2>1, <2>3 DEF CommitCancelWaybill, CommitCancelOrder, TypeOK
    <3>. QED  BY <2>1, <2>3, <3>1 DEF Writes
  <2>. QED  BY <2>2, <2>3
<1>9. ASSUME NEW w \in Workers, Crash(w)
      PROVE  Quiet(w)
  BY <1>1, <1>9 DEF Crash, Fault, Quiet, rowVars
<1>10. ASSUME NEW p \in Parcels, CarrierDelivers(p)
       PROVE  Delivers(p)
  BY <1>10 DEF CarrierDelivers, rowVars, workVars, TypeOK, Delivers
<1>11. CASE SweepRead \/ SweepAsk \/ SweepFails \/ SweepWrite
  BY <1>11 DEF SweepRead, SweepAsk, SweepFails, SweepWrite, rowVars, workVars
<1>. QED  BY <1>2, <1>3, <1>4, <1>5, <1>6, <1>7, <1>8, <1>9, <1>10, <1>11 DEF Next, Serve

\* Types, locks and shipments together.
THEOREM WaybillInvariant == Spec => []WaybillInv
<1>1. Init => WaybillInv
  <2>. SUFFICES ASSUME Init PROVE WaybillInv
    OBVIOUS
  <2>1. TypeOK
    <3>1. RowTypes
      BY DEF Init, RowTypes
    <3>2. ParcelTypes
      BY DEF Init, ParcelTypes
    <3>3. WorkTypes
      BY DEF Init, WorkTypes, NoJob
    <3>4. SweepTypes
      BY DEF Init, SweepTypes, NoRows
    <3>5. FaultTypes
      <4>1. faults = 0
        BY DEF Init
      <4>. QED  BY <4>1, BoundsAssumption DEF FaultTypes
    <3>. QED  BY <3>1, <3>2, <3>3, <3>4, <3>5, TypeParts
  <2>2. LockInv
    BY DEF Init, LockInv, Calling, Creating
  <2>3. ParcelInv
    BY DEF Init, ParcelInv, RowsKnown, CallersKnow, CreatorsKnow, CancellersKnow,
           CommittersApart, Uncreated
  <2>. QED  BY <2>1, <2>2, <2>3 DEF WaybillInv
<1>2. WaybillInv /\ [Next]_vars => WaybillInv'
  BY TypeStep, LockStep, ParcelStep DEF WaybillInv
<1>. QED  BY <1>1, <1>2, PTL DEF Spec

-----------------------------------------------------------------------------
\* Every step keeps NoDeadReference: a shipment on a row is cancelled by a request that
\* then clears the row, or that a fault has stopped.
LEMMA DeadStep ==
  ASSUME WaybillInv, NoDeadReference, [Next]_vars
  PROVE  NoDeadReference'
<1>. ParcelInv /\ LockInv /\ TypeOK
  BY DEF WaybillInv
<1>. faults \in Nat
  BY TypeParts, BoundsAssumption DEF FaultTypes
<1>. \A o \in Orders : awb[o] \in Parcels \cup {None}
  BY DEF WaybillInv, TypeOK
<1>1. CASE UNCHANGED <<awb, parcel, pc, job, loaded, faults>>
  BY <1>1 DEF NoDeadReference
<1>2. ASSUME NEW w \in Workers, Quiet(w)
      PROVE  NoDeadReference'
  BY <1>2 DEF NoDeadReference, Quiet, Alone
<1>3. ASSUME NEW w \in Workers, Writes(w)
      PROVE  NoDeadReference'
  <2>1. CASE job[w].kind = "create"
    <3>1. /\ parcel[loaded[w]].state # "canceled"
          /\ \A q \in Orders : awb[q] # loaded[w]
      BY <1>3, <2>1 DEF Writes, ParcelInv, CreatorsKnow
    <3>. QED  BY <1>3, <2>1, <3>1 DEF NoDeadReference, Writes, Alone
  <2>2. CASE job[w].kind # "create"
    <3>1. awb[job[w].order] = loaded[w]
      BY <1>3, <2>2 DEF Writes, ParcelInv, CancellersKnow, Uncreated
    <3>2. \A q \in Orders : awb[q] = loaded[w] => q = job[w].order
      BY <1>3, <3>1 DEF Writes, ParcelInv, RowsKnown
    <3>. QED  BY <1>3, <2>2, <3>1, <3>2 DEF NoDeadReference, Writes, Alone
  <2>. QED  BY <2>1, <2>2
<1>4. ASSUME NEW w \in Workers, NEW p \in Parcels, Makes(w, p)
      PROVE  NoDeadReference'
  <2>1. \A q \in Orders : awb[q] # p
    BY <1>4, NoneAssumption DEF Makes, ParcelInv, RowsKnown
  <2>. QED  BY <1>4, <2>1 DEF NoDeadReference, Makes, Acts, Alone
<1>5. ASSUME NEW w \in Workers, NEW p \in Parcels, Cancels(w, p)
      PROVE  NoDeadReference'
  BY <1>5 DEF NoDeadReference, Cancels, Acts, Alone
<1>6. ASSUME NEW p \in Parcels, Delivers(p)
      PROVE  NoDeadReference'
  BY <1>6 DEF NoDeadReference, Delivers
<1>. QED  BY <1>1, <1>2, <1>3, <1>4, <1>5, <1>6, StepShape

\* The rows have their types, and as long as nothing fails no row goes on naming a
\* cancelled shipment, whichever of the two row locks a request took.
THEOREM RowsStaySound == Spec => []RowsAreSound
<1>1. Init => NoDeadReference
  BY DEF Init, NoDeadReference
<1>2. WaybillInv /\ NoDeadReference /\ [Next]_vars => NoDeadReference'
  BY DeadStep
<1>3. WaybillInv /\ NoDeadReference => RowsAreSound
  BY DEF WaybillInv, RowsAreSound
<1>. QED  BY <1>1, <1>2, <1>3, WaybillInvariant, PTL DEF Spec

-----------------------------------------------------------------------------
\* OrphansAreFaults, with what makes the cardinalities meaningful.
OrphanInv == \A o \in Orders : IsFiniteSet(Orphans(o)) /\ Cardinality(Orphans(o)) =< faults

\* A step orphans no shipment, or one and a fault pays for it.
LEMMA OrphanCount ==
  ASSUME OrphanInv, NEW f \in Nat, f = faults,
         \/ faults' = f /\ \A o \in Orders : Orphans(o)' \subseteq Orphans(o)
         \/ faults' = f + 1 /\ \E p : \A o \in Orders : Orphans(o)' \subseteq Orphans(o) \cup {p}
  PROVE  OrphanInv'
<1>. SUFFICES ASSUME NEW o \in Orders
              PROVE  IsFiniteSet(Orphans(o)') /\ Cardinality(Orphans(o)') =< faults'
  BY DEF OrphanInv
<1>1. IsFiniteSet(Orphans(o)) /\ Cardinality(Orphans(o)) =< f /\ Cardinality(Orphans(o)) \in Nat
  BY FS_CardinalityType DEF OrphanInv
<1>2. CASE faults' = f /\ Orphans(o)' \subseteq Orphans(o)
  <2>1. /\ IsFiniteSet(Orphans(o)') /\ Cardinality(Orphans(o)') \in Nat
        /\ Cardinality(Orphans(o)') =< Cardinality(Orphans(o))
    BY <1>1, <1>2, FS_Subset, FS_CardinalityType
  <2>. QED  BY <1>1, <1>2, <2>1
<1>3. ASSUME NEW p, faults' = f + 1, Orphans(o)' \subseteq Orphans(o) \cup {p}
      PROVE  IsFiniteSet(Orphans(o)') /\ Cardinality(Orphans(o)') =< faults'
  <2>. DEFINE S == Orphans(o) \cup {p}
  <2>1. IsFiniteSet(S) /\ Cardinality(S) =< Cardinality(Orphans(o)) + 1 /\ Cardinality(S) \in Nat
    <3>1. /\ IsFiniteSet(S)
          /\ Cardinality(S) = Cardinality(Orphans(o)) \/ Cardinality(S) = Cardinality(Orphans(o)) + 1
      BY <1>1, FS_AddElement
    <3>. HIDE DEF S
    <3>. QED  BY <1>1, <3>1
  <2>2. /\ IsFiniteSet(Orphans(o)') /\ Cardinality(Orphans(o)') \in Nat
        /\ Cardinality(Orphans(o)') =< Cardinality(S)
    BY <1>3, <2>1, FS_Subset, FS_CardinalityType
  <2>. HIDE DEF S
  <2>. QED  BY <1>1, <1>3, <2>1, <2>2
<1>. QED  BY <1>2, <1>3

\* Every step keeps OrphanInv.
LEMMA OrphanStep ==
  ASSUME WaybillInv, OrphanInv, [Next]_vars
  PROVE  OrphanInv'
<1>. ParcelInv /\ LockInv /\ TypeOK
  BY DEF WaybillInv
<1>. faults \in Nat
  BY TypeParts, BoundsAssumption DEF FaultTypes
<1>1. CASE UNCHANGED <<awb, parcel, pc, job, loaded, faults>>
  BY <1>1, OrphanCount DEF Orphans
<1>2. ASSUME NEW w \in Workers, Quiet(w)
      PROVE  OrphanInv'
  <2>1. CASE UNCHANGED faults /\ (pc[w] = "commit" => loaded[w] = None)
    <3>1. \A o \in Orders : Orphans(o)' \subseteq Orphans(o)
      BY <1>2, <2>1, NoneAssumption DEF Orphans, Quiet, Alone
    <3>. QED  BY <2>1, <3>1, OrphanCount
  <2>2. CASE faults' = faults + 1
    <3>1. \A o \in Orders : Orphans(o)' \subseteq Orphans(o) \cup {loaded[w]}
      BY <1>2, <2>2 DEF Orphans, Quiet, Alone
    <3>. QED  BY <2>2, <3>1, OrphanCount
  <2>. QED  BY <1>2, <2>1, <2>2 DEF Quiet
<1>3. ASSUME NEW w \in Workers, Writes(w)
      PROVE  OrphanInv'
  <2>1. CASE job[w].kind = "create"
    <3>1. awb[job[w].order] = None /\ parcel[loaded[w]].order = job[w].order
      BY <1>3, <2>1 DEF Writes, ParcelInv, CreatorsKnow, LockInv, Creating, Calling
    <3>2. \A o \in Orders : Orphans(o)' \subseteq Orphans(o)
      BY <1>3, <2>1, <3>1, NoneAssumption DEF Orphans, Writes, Alone
    <3>. QED  BY <1>3, <3>2, OrphanCount DEF Writes
  <2>2. CASE job[w].kind # "create"
    <3>1. awb[job[w].order] = loaded[w] /\ parcel[loaded[w]].state = "canceled"
      BY <1>3, <2>2 DEF Writes, ParcelInv, CancellersKnow, Uncreated
    <3>2. \A o \in Orders : Orphans(o)' \subseteq Orphans(o)
      BY <1>3, <2>2, <3>1 DEF Orphans, Writes, Alone
    <3>. QED  BY <1>3, <3>2, OrphanCount DEF Writes
  <2>. QED  BY <2>1, <2>2
<1>4. ASSUME NEW w \in Workers, NEW p \in Parcels, Makes(w, p) \/ Cancels(w, p)
      PROVE  OrphanInv'
  <2>1. \A o \in Orders : Orphans(o)' \subseteq Orphans(o) \cup {p}
    BY <1>4 DEF Orphans, Makes, Cancels, Acts, Alone
  <2>2. CASE faults' = faults + 1
    BY <2>1, <2>2, OrphanCount
  <2>3. CASE UNCHANGED faults /\ pc'[w] = "commit" /\ loaded'[w] = p
    <3>1. \A o \in Orders : p \notin Orphans(o)'
      BY <2>3 DEF Orphans
    <3>. QED  BY <2>1, <2>3, <3>1, OrphanCount
  <2>. QED  BY <1>4, <2>2, <2>3 DEF Makes, Cancels, Acts
<1>5. ASSUME NEW p \in Parcels, Delivers(p)
      PROVE  OrphanInv'
  <2>1. \A o \in Orders : Orphans(o)' \subseteq Orphans(o)
    BY <1>5 DEF Orphans, Delivers
  <2>. QED  BY <1>5, <2>1, OrphanCount DEF Delivers
<1>. QED  BY <1>1, <1>2, <1>3, <1>4, <1>5, StepShape

\* However many requests create and cancel at once, the shipments of an order that the
\* shop does not know of are no more than the answers and requests that were lost.
THEOREM OrphansAccounted == Spec => []OrphansAreFaults
<1>1. Init => OrphanInv
  <2>. SUFFICES ASSUME Init, NEW o \in Orders
                PROVE  IsFiniteSet(Orphans(o)) /\ Cardinality(Orphans(o)) =< faults
    BY DEF OrphanInv
  <2>1. Orphans(o) = {}
    BY DEF Init, Orphans
  <2>2. IsFiniteSet({}) /\ Cardinality({}) = 0
    BY FS_EmptySet
  <2>3. faults = 0
    BY DEF Init
  <2>. QED  BY <2>1, <2>2, <2>3
<1>2. WaybillInv /\ OrphanInv /\ [Next]_vars => OrphanInv'
  BY OrphanStep
<1>3. OrphanInv => OrphansAreFaults
  BY DEF OrphanInv, OrphansAreFaults
<1>. QED  BY <1>1, <1>2, <1>3, WaybillInvariant, PTL DEF Spec
=============================================================================
