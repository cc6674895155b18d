-------------------------- MODULE MCSubscriptions --------------------------
(***************************************************************************)
(* Instances of Subscriptions: cycles of one day and of three, one day of  *)
(* grace, and a week, in which a short period can lapse, be renewed and    *)
(* lapse again.                                                            *)
(***************************************************************************)
EXTENDS Subscriptions

CONSTANTS o1, w1, w2

OneOrg == {o1}
OneWorker == {w1}
TwoWorkers == {w1, w2}
MCCycles == {1, 3}
=============================================================================
