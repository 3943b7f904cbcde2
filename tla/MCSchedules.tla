----------------------------- MODULE MCSchedules -----------------------------
(* Instances of Schedules for TLC.  Users, ids and goroutines are model values *)
(* that no definition of Schedules tells apart, except the CHOOSE of Tick,     *)
(* whose choice is unique because each due id has a goroutine of its own.      *)
EXTENDS Schedules, TLC

Symmetry == Permutations(Users) \cup Permutations(Ids) \cup Permutations(Runs)
=============================================================================
