-------------------------- MODULE MCTrafficRollup --------------------------
(* An instance of TrafficRollup for TLC: a bucket of two units, an hour of    *)
(* one bucket, a day of two.                                                  *)
EXTENDS TrafficRollup

CONSTANTS n1, n2, w1, w2

TwoNodes == {n1, n2}
TwoWorkers == {w1, w2}
OneWorker == {w1}
Retention == [g \in {"5m", "1h", "1d"} |-> CASE g = "5m" -> 6 [] g = "1h" -> 7 [] g = "1d" -> 8]
=============================================================================
