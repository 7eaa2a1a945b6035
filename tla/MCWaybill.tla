------------------------------ MODULE MCWaybill ------------------------------
(***************************************************************************)
(* One carrier order, a few requests at once and as many shipments as they *)
(* could buy.                                                              *)
(***************************************************************************)
EXTENDS Waybill

CONSTANT o1
=============================================================================
