------------------------------- MODULE MCChat -------------------------------
(* Instances of Chat for TLC: one thread, its users and posts not told apart.  *)
EXTENDS Chat, TLC

MCRequests == {{}} \cup {{use} : use \in Uses}
Symmetry == Permutations(Users) \cup Permutations(Posts) \cup Permutations(Uses)
=============================================================================
