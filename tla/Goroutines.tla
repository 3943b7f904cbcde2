----------------------------- MODULE Goroutines -----------------------------
(* The turns of the agent that run side by side, each on a goroutine of its  *)
(* own, which Models and ToolServers share.                                  *)
CONSTANTS Turns, None

ASSUME GoroutinesConstants == None \notin Turns
=============================================================================
