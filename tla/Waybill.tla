------------------------------- MODULE Waybill -------------------------------
(***************************************************************************)
(* The Nova Post shipment of a carrier order: created and cancelled by     *)
(* staff under a lock on the carrier row, cancelled as part of cancelling  *)
(* the order (which locks the order row and reads the carrier row without  *)
(* a lock), and tracked by a periodic sweep that reads, asks the carrier   *)
(* and writes in one transaction without any lock until it writes.  The    *)
(* fulfilment machine itself is in OrderLifecycle; here an order is open   *)
(* (new or confirmed) or canceled.                                         *)
(***************************************************************************)
EXTENDS Naturals, FiniteSets

CONSTANTS
  Orders, Workers,
  Parcels,     \* shipments the carrier can still make; bounds creations
  Declined,    \* orders whose card payment maib declined
  MaxFaults,   \* bound on crashes and carrier answers that are lost or hold no number
  None

ASSUME NoneAssumption == None \notin Orders \cup Workers \cup Parcels
ASSUME BoundsAssumption == MaxFaults \in Nat /\ Declined \subseteq Orders

VARIABLES
  status,      \* "open" | "canceled"
  awb,         \* the shipment the carrier row names, or None
  text,        \* status_text of the carrier row: "", "moving" or "finished"
  parcel,      \* the carrier's own record: [order, state]
  orderLock, rowLock,
  pc, job,     \* where each request is, and what it was asked
  loaded,      \* the shipment a request read or was given, or None
  sweep,       \* where the sweep is: "idle", "ask", "write"
  rows,        \* the open rows the sweep loaded: [order -> shipment], or None
  answers,     \* what the carrier said about them
  faults

rowVars == <<status, awb, text>>
workVars == <<orderLock, rowLock, pc, job, loaded>>
sweepVars == <<sweep, rows, answers>>
vars == <<status, awb, text, parcel, orderLock, rowLock, pc, job, loaded,
          sweep, rows, answers, faults>>

Kinds == {"create", "cancel_waybill", "cancel_order", "declined"}
NoJob == [kind |-> "none", order |-> None]
NoRows == [o \in Orders |-> None]

Init ==
  /\ status = [o \in Orders |-> "open"]
  /\ awb = [o \in Orders |-> None]
  /\ text = [o \in Orders |-> ""]
  /\ parcel = [p \in Parcels |-> [order |-> None, state |-> "unused"]]
  /\ orderLock = [o \in Orders |-> None]
  /\ rowLock = [o \in Orders |-> None]
  /\ pc = [w \in Workers |-> "idle"]
  /\ job = [w \in Workers |-> NoJob]
  /\ loaded = [w \in Workers |-> None]
  /\ sweep = "idle"
  /\ rows = NoRows
  /\ answers = NoRows
  /\ faults = 0

-----------------------------------------------------------------------------
\* Requests

Goto(w, step) == pc' = [pc EXCEPT ![w] = step]

Released(locks, w) == [o \in Orders |-> IF locks[o] = w THEN None ELSE locks[o]]

\* The request ends, by commit or by rollback, and its locks go.
Finish(w) ==
  /\ Goto(w, "idle")
  /\ job' = [job EXCEPT ![w] = NoJob]
  /\ loaded' = [loaded EXCEPT ![w] = None]
  /\ orderLock' = Released(orderLock, w)
  /\ rowLock' = Released(rowLock, w)

Fault == faults < MaxFaults /\ faults' = faults + 1

\* Staff creates or cancels a shipment or cancels the order; maib reports a
\* declined payment for as long as the order stands.
Request(w, kind, o) ==
  /\ pc[w] = "idle"
  /\ kind = "declined" => o \in Declined /\ status[o] = "open"
  /\ job' = [job EXCEPT ![w] = [kind |-> kind, order |-> o]]
  /\ Goto(w, "lock")
  /\ UNCHANGED <<rowVars, parcel, orderLock, rowLock, loaded, sweepVars, faults>>

\* Fault: the carrier row is read without FOR UPDATE.
LockCarrierRowWithoutWaiting(w) ==
  LET o == job[w].order
  IN  /\ pc[w] = "lock"
      /\ job[w].kind \in {"create", "cancel_waybill"}
      /\ IF (job[w].kind = "create") = (awb[o] = None)
         THEN /\ loaded' = [loaded EXCEPT ![w] = awb[o]]
              /\ Goto(w, "call")
              /\ UNCHANGED <<orderLock, rowLock, job>>
         ELSE Finish(w)
      /\ UNCHANGED <<rowVars, parcel, sweepVars, faults>>

\* create_waybill, cancel_waybill: the carrier row FOR UPDATE, then the check that
\* it has no shipment, or has one.  Nobody asks for the order's status.
LockCarrierRow(w) ==
  LET o == job[w].order
  IN  /\ pc[w] = "lock"
      /\ job[w].kind \in {"create", "cancel_waybill"}
      /\ rowLock[o] = None
      /\ IF (job[w].kind = "create") = (awb[o] = None)
         THEN /\ rowLock' = [rowLock EXCEPT ![o] = w]
              /\ loaded' = [loaded EXCEPT ![w] = awb[o]]
              /\ Goto(w, "call")
              /\ UNCHANGED <<orderLock, job>>
         ELSE Finish(w)
      /\ UNCHANGED <<rowVars, parcel, sweepVars, faults>>

\* Cancelling the order: the order row FOR UPDATE, an open order only; the carrier
\* row is read without a lock.  The callback of a declined payment has no carrier
\* client, so a shipment on the row makes it raise.
LockOrder(w) ==
  LET o == job[w].order
  IN  /\ pc[w] = "lock"
      /\ job[w].kind \in {"cancel_order", "declined"}
      /\ orderLock[o] = None
      /\ IF status[o] # "open" \/ (job[w].kind = "declined" /\ awb[o] # None)
         THEN Finish(w)
         ELSE /\ orderLock' = [orderLock EXCEPT ![o] = w]
              /\ loaded' = [loaded EXCEPT ![w] = awb[o]]
              /\ Goto(w, IF awb[o] = None THEN "commit" ELSE "call")
              /\ UNCHANGED <<rowLock, job>>
      /\ UNCHANGED <<rowVars, parcel, sweepVars, faults>>

\* POST /shipments.  Refused, or accepted; the answer of an accepted call may time
\* out, and then nothing is written.
CallCreate(w) ==
  /\ pc[w] = "call"
  /\ job[w].kind = "create"
  /\ \/ /\ \E p \in Parcels :
             /\ parcel[p].state = "unused"
             /\ parcel' = [parcel EXCEPT ![p] = [order |-> job[w].order, state |-> "moving"]]
             /\ \/ /\ loaded' = [loaded EXCEPT ![w] = p]
                   /\ Goto(w, "commit")
                   /\ UNCHANGED <<orderLock, rowLock, job, faults>>
                \/ Fault /\ Finish(w)
     \/ Finish(w) /\ UNCHANGED <<parcel, faults>>
  /\ UNCHANGED <<rowVars, sweepVars>>

\* DELETE /shipments/{id}: the carrier cancels a shipment that is under way, and
\* refuses any other.
CallCancel(w) ==
  LET p == loaded[w]
  IN  /\ pc[w] = "call"
      /\ job[w].kind # "create"
      /\ \/ /\ parcel[p].state = "moving"
            /\ parcel' = [parcel EXCEPT ![p].state = "canceled"]
            /\ \/ Goto(w, "commit") /\ UNCHANGED <<orderLock, rowLock, job, loaded, faults>>
               \/ Fault /\ Finish(w)
         \/ Finish(w) /\ UNCHANGED <<parcel, faults>>
      /\ UNCHANGED <<rowVars, sweepVars>>

\* The new number, if the carrier's answer holds one, and its first status text.
CommitCreate(w) ==
  LET o == job[w].order
  IN  /\ pc[w] = "commit"
      /\ job[w].kind = "create"
      /\ \/ awb' = [awb EXCEPT ![o] = loaded[w]] /\ UNCHANGED faults
         \/ awb' = [awb EXCEPT ![o] = None] /\ Fault
      /\ text' = [text EXCEPT ![o] = "moving"]
      /\ Finish(w)
      /\ UNCHANGED <<status, parcel, sweepVars>>

\* The row forgets the shipment.
CommitCancelWaybill(w) ==
  LET o == job[w].order
  IN  /\ pc[w] = "commit"
      /\ job[w].kind = "cancel_waybill"
      /\ awb' = [awb EXCEPT ![o] = None]
      /\ text' = [text EXCEPT ![o] = ""]
      /\ Finish(w)
      /\ UNCHANGED <<status, parcel, sweepVars, faults>>

\* Fault: the row keeps the number of the shipment that was cancelled.
CommitCancelOrderOnly(w) ==
  /\ pc[w] = "commit"
  /\ job[w].kind \in {"cancel_order", "declined"}
  /\ status' = [status EXCEPT ![job[w].order] = "canceled"]
  /\ Finish(w)
  /\ UNCHANGED <<awb, text, parcel, sweepVars, faults>>

\* The order is canceled; a row that had a shipment when it was read is cleared,
\* whatever it holds by then, once its lock is free.
CommitCancelOrder(w) ==
  LET o == job[w].order
      had == loaded[w] # None
  IN  /\ pc[w] = "commit"
      /\ job[w].kind \in {"cancel_order", "declined"}
      /\ had => rowLock[o] = None
      /\ status' = [status EXCEPT ![o] = "canceled"]
      /\ awb' = [awb EXCEPT ![o] = IF had THEN None ELSE @]
      /\ text' = [text EXCEPT ![o] = IF had THEN "" ELSE @]
      /\ Finish(w)
      /\ UNCHANGED <<parcel, sweepVars, faults>>

Crash(w) ==
  /\ pc[w] # "idle"
  /\ Fault
  /\ Finish(w)
  /\ UNCHANGED <<rowVars, parcel, sweepVars>>

-----------------------------------------------------------------------------
\* The carrier and the tracking sweep

CarrierDelivers(p) ==
  /\ parcel[p].state = "moving"
  /\ parcel' = [parcel EXCEPT ![p].state = "delivered"]
  /\ UNCHANGED <<rowVars, workVars, sweepVars, faults>>

IsTerminal(t) == t = "finished"

\* Fault: only rows without any status yet are polled.
SweepReadFresh ==
  /\ sweep = "idle"
  /\ rows' = [o \in Orders |-> IF text[o] # "" THEN None ELSE awb[o]]
  /\ rows' # NoRows
  /\ sweep' = "ask"
  /\ UNCHANGED <<rowVars, parcel, workVars, answers, faults>>

\* Every row with a shipment whose stored text is not terminal.
SweepRead ==
  /\ sweep = "idle"
  /\ rows' = [o \in Orders |-> IF IsTerminal(text[o]) THEN None ELSE awb[o]]
  /\ rows' # NoRows
  /\ sweep' = "ask"
  /\ UNCHANGED <<rowVars, parcel, workVars, answers, faults>>

\* The carrier's word for a shipment.
Tracked(p) == IF parcel[p].state = "moving" THEN "moving" ELSE "finished"

SweepAsk ==
  /\ sweep = "ask"
  /\ answers' = [o \in Orders |-> IF rows[o] = None THEN None ELSE Tracked(rows[o])]
  /\ sweep' = "write"
  /\ UNCHANGED <<rowVars, parcel, workVars, rows, faults>>

\* An outage costs this sweep.
SweepFails ==
  /\ sweep = "ask"
  /\ sweep' = "idle"
  /\ rows' = NoRows
  /\ UNCHANGED <<rowVars, parcel, workVars, answers, faults>>

\* Changed answers are stored by order, whichever shipment the row names by then;
\* "moving" is what every open row was loaded with.
SweepWrite ==
  LET changed == {o \in Orders : answers[o] = "finished"}
  IN  /\ sweep = "write"
      /\ \A o \in changed : rowLock[o] = None
      /\ text' = [o \in Orders |-> IF o \in changed THEN answers[o] ELSE text[o]]
      /\ sweep' = "idle"
      /\ rows' = NoRows
      /\ answers' = NoRows
      /\ UNCHANGED <<status, awb, parcel, workVars, faults>>

-----------------------------------------------------------------------------
Serve(w) ==
  \/ LockCarrierRow(w)
  \/ LockOrder(w)
  \/ CallCreate(w)
  \/ CallCancel(w)
  \/ CommitCreate(w)
  \/ CommitCancelWaybill(w)
  \/ CommitCancelOrder(w)

Next ==
  \/ \E w \in Workers, kind \in Kinds, o \in Orders : Request(w, kind, o)
  \/ \E w \in Workers : Serve(w) \/ Crash(w)
  \/ \E p \in Parcels : CarrierDelivers(p)
  \/ SweepRead \/ SweepAsk \/ SweepFails \/ SweepWrite

Spec == Init /\ [][Next]_vars

\* Requests that have begun end; the sweep runs every half hour, gets an answer in
\* the end and its row locks too; maib repeats a callback until it is answered.
FairSpec ==
  /\ Spec
  /\ \A w \in Workers : SF_vars(Serve(w))
  /\ WF_vars(SweepRead) /\ SF_vars(SweepAsk) /\ SF_vars(SweepWrite)
  /\ \A o \in Orders : SF_vars(\E w \in Workers : Request(w, "declined", o))

-----------------------------------------------------------------------------
\* Properties

\* Every variable has its type.
TypeOK ==
  /\ status \in [Orders -> {"open", "canceled"}]
  /\ awb \in [Orders -> Parcels \cup {None}]
  /\ text \in [Orders -> {"", "moving", "finished"}]
  /\ parcel \in [Parcels -> [order : Orders \cup {None},
                             state : {"unused", "moving", "delivered", "canceled"}]]
  /\ orderLock \in [Orders -> Workers \cup {None}]
  /\ rowLock \in [Orders -> Workers \cup {None}]
  /\ pc \in [Workers -> {"idle", "lock", "call", "commit"}]
  /\ job \in [Workers -> [kind : Kinds \cup {"none"}, order : Orders \cup {None}]]
  /\ loaded \in [Workers -> Parcels \cup {None}]
  /\ sweep \in {"idle", "ask", "write"}
  /\ rows \in [Orders -> Parcels \cup {None}]
  /\ answers \in [Orders -> {"moving", "finished", None}]
  /\ faults \in 0 .. MaxFaults

\* Shipments under way for an order that no row names and no request is about to
\* write down.
Orphans(o) ==
  {p \in Parcels : /\ parcel[p].order = o
                   /\ parcel[p].state = "moving"
                   /\ awb[o] # p
                   /\ ~ \E w \in Workers : pc[w] = "commit" /\ loaded[w] = p}

\* A double click never buys a second shipment, and no cancellation hides one: a
\* shipment the shop does not know of costs a crash or a failed answer each, also
\* when creating, cancelling the shipment and cancelling the order overlap.
OrphansAreFaults == \A o \in Orders : Cardinality(Orphans(o)) =< faults

\* A row never goes on naming a shipment the carrier has cancelled, unless the
\* request that cancelled it is about to clear the row or was lost.
NoDeadReference ==
  \A o \in Orders :
    /\ awb[o] # None
    /\ parcel[awb[o]].state = "canceled"
    => \/ faults > 0
       \/ \E w \in Workers : pc[w] = "commit" /\ loaded[w] = awb[o]

\* A delivered parcel is shown as finished in the end, as long as the row still
\* names it: the sweep keeps asking about every open row.
DeliveredIsShown ==
  \A o \in Orders, p \in Parcels :
    awb[o] = p /\ parcel[p].state = "delivered" ~> text[o] = "finished" \/ awb[o] # p

\* The rows the shop keeps have their shape and name no dead shipment (create_waybill,
\* cancel_waybill, transition).
RowsAreSound == TypeOK /\ NoDeadReference
=============================================================================
