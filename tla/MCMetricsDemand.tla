--------------------------- MODULE MCMetricsDemand ---------------------------
(* Model-checking root of MetricsDemand.                                   *)
EXTENDS MetricsDemand
=============================================================================
