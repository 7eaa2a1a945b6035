----------------------------- MODULE Inventory -----------------------------
(***************************************************************************)
(* What the shop promises about stock, free of transactions, locks, carts, *)
(* coupons and payments: an order takes all of its units in one step or    *)
(* none of them, never more than there are; a cancelled order gives its    *)
(* units back in one step and at most once; otherwise only the back office *)
(* writes a stock row.  Checkout and OrderLifecycle implement it.          *)
(***************************************************************************)
EXTENDS Naturals

CONSTANTS
  Orders, Skus,
  EditableSkus   \* the stock rows the back office may overwrite

VARIABLES
  qty,     \* units on the shelf of each stock row (product.qty, product_variant.qty)
  held,    \* the units each order took
  phase    \* "none" -> "held" -> "returned"

vars == <<qty, held, phase>>

NoUnits == [s \in Skus |-> 0]

Init ==
  /\ qty \in [Skus -> Nat]
  /\ held = [o \in Orders |-> NoUnits]
  /\ phase = [o \in Orders |-> "none"]

\* An order takes its units: every line is covered and all are taken together.
Reserve(o) ==
  /\ phase[o] = "none"
  /\ phase' = [phase EXCEPT ![o] = "held"]
  /\ held'[o] \in [Skus -> Nat]
  /\ held'[o] # NoUnits
  /\ held' = [held EXCEPT ![o] = held'[o]]
  /\ \A s \in Skus : held'[o][s] =< qty[s]
  /\ qty' = [s \in Skus |-> qty[s] - held'[o][s]]

\* A cancelled order gives back exactly what it took.
Return(o) ==
  /\ phase[o] = "held"
  /\ phase' = [phase EXCEPT ![o] = "returned"]
  /\ qty' = [s \in Skus |-> qty[s] + held[o][s]]
  /\ UNCHANGED held

\* The back office overwrites one stock row.
SetQty(s) ==
  /\ qty'[s] \in Nat
  /\ qty' = [qty EXCEPT ![s] = qty'[s]]
  /\ UNCHANGED <<held, phase>>

Next ==
  \/ \E o \in Orders : Reserve(o) \/ Return(o)
  \/ \E s \in EditableSkus : SetQty(s)

Spec == Init /\ [][Next]_vars
=============================================================================
