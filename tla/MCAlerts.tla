------------------------------- MODULE MCAlerts -------------------------------
(* Instances of Alerts for TLC: one channel with two alerts of one cluster and *)
(* one of another, and two channels that share an alert.                       *)
EXTENDS Alerts, TLC

CONSTANT other   \* the alert of the second cluster

MCClusterOf == [a \in Alerts |-> IF a = other THEN "k2" ELSE "k1"]
MCRouted == {p \in Channels \X Alerts \X Ranks : p[2] = other => p[3] = 1}
Symmetry == Permutations(Alerts \ {other})

\* For a property that reads no history: no guard does either.
Program == <<marks, pending, opened, lastRun, jobs, cancelled>>
=============================================================================
