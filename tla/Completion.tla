----------------------------- MODULE Completion -----------------------------
(***************************************************************************)
(* What the agent is promised of a model (agent.LLM of internal/agent, which *)
(* Failover implements): a request that was asked is answered or fails, once, *)
(* and it fails only with an excuse: its caller left, or the backup, which is *)
(* the last resort, refused it.  That the primary refused it is none.         *)
(***************************************************************************)
EXTENDS FiniteSets

CONSTANT Turns

VARIABLES
  phase,    \* of each turn's request
  excused   \* whether it may fail

vars == <<phase, excused>>

Init ==
  /\ phase = [t \in Turns |-> "idle"]
  /\ excused = [t \in Turns |-> FALSE]

\* A caller may have left before it asks.
Ask(t) ==
  /\ phase[t] # "asked"
  /\ phase' = [phase EXCEPT ![t] = "asked"]
  /\ \E gone \in BOOLEAN : excused' = [excused EXCEPT ![t] = gone]

Excuse(t) ==
  /\ phase[t] = "asked" /\ ~excused[t]
  /\ excused' = [excused EXCEPT ![t] = TRUE]
  /\ UNCHANGED phase

Answer(t) ==
  /\ phase[t] = "asked"
  /\ phase' = [phase EXCEPT ![t] = "answered"]
  /\ UNCHANGED excused

Fail(t) ==
  /\ phase[t] = "asked" /\ excused[t]
  /\ phase' = [phase EXCEPT ![t] = "failed"]
  /\ UNCHANGED excused

\* The caller has what it asked for, and its turn ends.
Leave(t) ==
  /\ phase[t] \in {"answered", "failed"}
  /\ phase' = [phase EXCEPT ![t] = "idle"]
  /\ excused' = [excused EXCEPT ![t] = FALSE]

Next == \E t \in Turns : Ask(t) \/ Excuse(t) \/ Answer(t) \/ Fail(t) \/ Leave(t)

Spec == Init /\ [][Next]_vars /\ \A t \in Turns : WF_vars(Answer(t) \/ Fail(t))
=============================================================================
