----------------------------- MODULE MCCheckout -----------------------------
(***************************************************************************)
(* Small shops for TLC.  In one a double submit of a cart (r1, r2) and a   *)
(* second cart (r3) race for a coupon over two products; in the other both *)
(* stock rows are variants of one product, where the lines of two carts    *)
(* (r1, r3) may be taken in any order, beside a quick buy (r2).            *)
(***************************************************************************)
EXTENDS Checkout, TLC

CONSTANTS r1, r2, r3, s1, s2, cartA, cartB, limited, open

ShopProductId == (s1 :> 1) @@ (s2 :> 2)
VariantProductId == (s1 :> 1) @@ (s2 :> 1)

\* Ten percent of 4 MDL rounds to nothing, ten percent of 5 MDL to one MDL.
ShopPrice == (s1 :> 400) @@ (s2 :> 500)
ShopPromo ==
  (limited :> [type |-> "percent", value |-> 1000, minOrder |-> None, limit |-> 1]) @@
  (open :> [type |-> "fixed", value |-> 200, minOrder |-> 500, limit |-> None])

CartsAndQuick == (r1 :> cartA) @@ (r2 :> None) @@ (r3 :> cartB)
TwoCarts == (r1 :> cartA) @@ (r2 :> cartA) @@ (r3 :> cartB)

ShopQuick == [r \in Requests |-> (s1 :> 0) @@ (s2 :> 1)]

OneCode == (r1 :> limited) @@ (r2 :> None) @@ (r3 :> None)
TwoCodes == (r1 :> limited) @@ (r2 :> open) @@ (r3 :> limited)

ScarceStock == (s1 :> 2) @@ (s2 :> 1)
TwoEach == (s1 :> 2) @@ (s2 :> 2)
TwoAndOne == [c \in Carts |-> (s1 :> 2) @@ (s2 :> 1)]
BothLines == [c \in Carts |-> (s1 :> 1) @@ (s2 :> 1)]
=============================================================================
