---------------------------- MODULE MCScopeCache ----------------------------
(* Instances of ScopeCache for TLC.  Users share nothing but the locks, so one *)
(* is enough; regions are not told apart.                                      *)
EXTENDS ScopeCache, TLC

Symmetry == Permutations(Regions) \cup Permutations(Callers)
=============================================================================
