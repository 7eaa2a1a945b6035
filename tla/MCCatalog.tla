----------------------------- MODULE MCCatalog -----------------------------
(***************************************************************************)
(* Two variants of different prices, so that a card shows a range, and two *)
(* requests, so that a save overlaps another.                               *)
(***************************************************************************)
EXTENDS Catalog, TLC

CONSTANTS v1, v2

\* The search index is followed from a product just created, for fewer saves.
FromScratch ==
  /\ edits = IF elastic THEN 1 ELSE 0
  /\ elastic => /\ ~product.active /\ ~product.variable /\ texts = {}
                /\ \A v \in Variants : variant[v] = "none"

MCInit == Init /\ FromScratch

MCSpec == MCInit /\ [][Next]_vars /\ Fairness

TwoPrices == v1 :> 1 @@ v2 :> 2
=============================================================================
