----------------------------- MODULE MCSupport -----------------------------
(***************************************************************************)
(* Two updates and two webhook requests, so that deliveries of one update  *)
(* and of two overlap; an operator, a worker, and one erasure.              *)
(***************************************************************************)
EXTENDS Support
=============================================================================
