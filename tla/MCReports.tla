------------------------------ MODULE MCReports ------------------------------
(* An instance of Reports for TLC: two findings and three teams, two of which  *)
(* share an email; one finding's namespace may be labelled anew.               *)
EXTENDS Reports, TLC

CONSTANTS k1, k2, t1, t2, t3, m1, m2

MCMailingOf == t1 :> m1 @@ t2 :> m2 @@ t3 :> m2
MCLabels == k1 :> {t1, t2} @@ k2 :> {t2}
MCScans == {{[key |-> k1, team |-> t1], [key |-> k2, team |-> t2]}, {[key |-> k1, team |-> t3]}}
Symmetry == Permutations(Ids)
=============================================================================
