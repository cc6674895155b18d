------------------------- MODULE MCMetricForwarding -------------------------
(***************************************************************************)
(* Instances of MetricForwarding: three rows, batches of two, so that a    *)
(* full batch, a partial one and an overtaken row all occur.               *)
(***************************************************************************)
EXTENDS MetricForwarding, TLC

CONSTANTS i1, i2

MCRows == 1..3
One == {i1}
Two == {i1, i2}
=============================================================================
