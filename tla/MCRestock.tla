----------------------------- MODULE MCRestock -----------------------------
(***************************************************************************)
(* One product and one customer, whose language the product may lack; two  *)
(* workers, so that a task and the sweep overlap.                           *)
(***************************************************************************)
EXTENDS Restock
=============================================================================
