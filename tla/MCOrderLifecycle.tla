-------------------------- MODULE MCOrderLifecycle --------------------------
(***************************************************************************)
(* One card order with a few requests racing for it; the moves staff ask   *)
(* for differ from run to run.                                              *)
(***************************************************************************)
EXTENDS OrderLifecycle, TLC

CONSTANTS o1, s1

OneCard == o1 :> "card"
OneUnitEach == [o \in Orders |-> s1 :> 1]
TwoUnits == s1 :> 2
AllAxes == {<<"confirmed", None>>, <<"done", None>>, <<"canceled", None>>,
            <<None, "paid">>, <<"confirmed", "paid">>, <<None, "refunded">>}
Closing == {<<"confirmed", None>>, <<"canceled", None>>, <<None, "paid">>}
CancelOnly == {<<"canceled", None>>}
RaceSymmetry == Permutations(Workers)
=============================================================================
