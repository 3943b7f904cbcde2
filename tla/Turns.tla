------------------------------- MODULE Turns -------------------------------
(***************************************************************************)
(* Posts that arrive on the websocket (listenOnce of internal/mattermost/    *)
(* ws.go), each handled by a goroutine of a bounded pool, whose turn lists   *)
(* the cluster's tools, asks the model, calls a tool it asks for, and asks    *)
(* again (Run of internal/agent/agent.go, as far as it uses the two).         *)
(*                                                                           *)
(* It composes ToolServers and Models: all turns share one mux and one        *)
(* breaker, and a slow backend keeps a handler, which keeps the next post.     *)
(***************************************************************************)
EXTENDS ToolServers, Models

CONSTANTS
  Pool,    \* maxConcurrentHandlers
  Rounds   \* of tool calls in a turn

ASSUME TurnsConstants == Pool \in Nat \ {0} /\ Rounds \in Nat

VARIABLES
  trouble,    \* which backends fail in this behaviour: not both kinds (a bound of the model)
  waiting,    \* the read loop holds a post and waits for the pool
  slot,       \* whose pool a handler's slot is of: this connection's or an earlier one's
  stage,      \* where each handler's turn is
  rounds

handlerVars == <<trouble, waiting, slot, stage, rounds>>
vars == <<serverVars, modelVars, handlerVars>>

\* The state the three modules keep.
TypeOK ==
  /\ ServersTypeOK /\ ModelsTypeOK
  /\ trouble \in {"servers", "models"} /\ waiting \in BOOLEAN
  /\ slot \in [Turns -> {None, "this", "earlier"}]
  /\ stage \in [Turns -> {"idle", "listing", "asking", "calling"}]
  /\ rounds \in [Turns -> 0..Rounds]

Init ==
  /\ ServersInit /\ ModelsInit
  /\ trouble = (IF initDone = {} THEN "servers" ELSE "models") /\ waiting = FALSE
  /\ slot = [t \in Turns |-> None] /\ stage = [t \in Turns |-> "idle"]
  /\ rounds = [t \in Turns |-> 0]

-----------------------------------------------------------------------------
(* The connection. *)

\* The connection breaks and is made again.  Only a loop that reads notices; the new
\* connection has a pool of its own, and the handlers of the old one run on.
Reconnect ==
  /\ ~waiting /\ \E t \in Turns : slot[t] = "this"
  /\ slot' = [t \in Turns |-> IF slot[t] = "this" THEN "earlier" ELSE slot[t]]
  /\ UNCHANGED <<serverVars, modelVars, trouble, waiting, stage, rounds>>

Receive ==
  /\ ~waiting /\ waiting' = TRUE
  /\ UNCHANGED <<serverVars, modelVars, trouble, slot, stage, rounds>>

HasRoom == Cardinality({t \in Turns : slot[t] = "this"}) < Pool

\* The post gets a slot and a goroutine, which begins its turn.
Dispatch(t) ==
  /\ waiting /\ HasRoom /\ slot[t] = None /\ stage[t] = "idle"
  /\ waiting' = FALSE
  /\ slot' = [slot EXCEPT ![t] = "this"]
  /\ stage' = [stage EXCEPT ![t] = "listing"]
  /\ StartListing(t)
  /\ UNCHANGED <<modelVars, trouble, rounds>>

-----------------------------------------------------------------------------
(* A turn. *)

List(t) ==
  /\ stage[t] = "listing"
  /\ ListStep(t) \/ (trouble = "servers" /\ MissServer(t))
  /\ UNCHANGED <<modelVars, handlerVars>>

Listed(t) == stage[t] = "listing" /\ told[t] # None
CallIsOver(t) == stage[t] = "calling" /\ calling[t] = None

Think(t) ==
  /\ Listed(t) \/ CallIsOver(t)
  /\ Ask(t)
  /\ stage' = [stage EXCEPT ![t] = "asking"]
  /\ UNCHANGED <<serverVars, trouble, waiting, slot, rounds>>

\* With the servers in trouble, the model is well and calls a tool.
Calls(o) == o.kind = "ok" /\ o.content.calls # {}
Hear(t) == \E o \in Outcomes : (trouble = "models" \/ Calls(o)) /\ Attempt(t, o)

Complete(t) ==
  stage[t] = "asking" /\ (Hear(t) \/ Settle(t)) /\ UNCHANGED <<serverVars, handlerVars>>

Heeded(t) == stage[t] = "asking" /\ asking[t] = None
WantsTool(t) ==
  Heeded(t) /\ Calls(reply[t]) /\ rounds[t] < Rounds

\* The model calls a tool its turn was told of; the mux may not know it any more,
\* and then the result is that it is unknown.
CallTool(t, x) ==
  /\ WantsTool(t) /\ told[t].found[x] # None
  /\ stage' = [stage EXCEPT ![t] = "calling"]
  /\ rounds' = [rounds EXCEPT ![t] = @ + 1]
  /\ Route(t, x) \/ (~Reachable(x) /\ UNCHANGED serverVars)
  /\ UNCHANGED <<modelVars, trouble, waiting, slot>>

CallStep(t) ==
  stage[t] = "calling" /\ (CallGreet(t) \/ EndCall(t)) /\ UNCHANGED <<modelVars, handlerVars>>

\* The handler returns, and what its turn held is gone.
Over(t) ==
  /\ stage' = [stage EXCEPT ![t] = "idle"]
  /\ rounds' = [rounds EXCEPT ![t] = 0]
  /\ told' = [told EXCEPT ![t] = None]
  /\ alone' = [alone EXCEPT ![t] = FALSE]
  /\ reply' = [reply EXCEPT ![t] = None]
  /\ left' = [left EXCEPT ![t] = FALSE]
  /\ excused' = [excused EXCEPT ![t] = FALSE]
  /\ UNCHANGED <<initDone, forgotten, owner, failed, listing, calling,
                 failures, openFor, asking, trouble, waiting>>

GiveBack(t) == slot' = [slot EXCEPT ![t] = None]

\* The turn ends: no server answered its listing, the model failed, gave a text,
\* or has used its rounds.
End(t) ==
  /\ \/ stage[t] = "listing" /\ listing[t] = None /\ told[t] = None
     \/ Heeded(t) /\ ~WantsTool(t)
  /\ Over(t) /\ GiveBack(t)

\* The handler's own code panics, and the deferred calls of the pool run.
PanicKeepsSlot(t) ==
  /\ Listed(t) \/ CallIsOver(t) \/ Heeded(t)
  /\ Over(t) /\ UNCHANGED slot
Panic(t) ==
  /\ Listed(t) \/ CallIsOver(t) \/ Heeded(t)
  /\ Over(t) /\ GiveBack(t)

Abort(t) == trouble = "models" /\ stage[t] = "asking" /\ Leave(t) /\ UNCHANGED <<serverVars, handlerVars>>

TurnStep(t) ==
  \/ List(t) \/ Think(t) \/ Complete(t) \/ CallStep(t) \/ End(t)
  \/ \E x \in Tools : CallTool(t, x)

Clock == Cool /\ UNCHANGED <<serverVars, handlerVars>>
Forget == trouble = "servers" /\ (\E s \in Hosts : Restart(s)) /\ UNCHANGED <<modelVars, handlerVars>>

Next ==
  \/ Receive \/ Reconnect \/ Clock \/ Forget
  \/ \E t \in Turns : Dispatch(t) \/ TurnStep(t) \/ Panic(t) \/ Abort(t)

Spec == Init /\ [][Next]_vars

\* Every request has a timeout, so each step of a turn ends; the loop is served by
\* whichever handler returns first; time passes.
FairSpec ==
  /\ Spec
  /\ WF_vars(Clock) /\ WF_vars(\E t \in Turns : Dispatch(t))
  /\ \A t \in Turns : WF_vars(TurnStep(t))

-----------------------------------------------------------------------------
(* Properties. *)

\* The agent gets whole answers: text and arguments that broke off are asked for again
\* or refused.  Only the model's own output limit, which the reply then tells, may cut.
NothingPartial ==
  \A t \in Turns : reply[t] # None /\ reply[t].kind = "ok" =>
    LET c == reply[t].content IN
    /\ \A b \in c.calls : b.parts >= ArgsParts \/ (c.truncated /\ b.parts = 0)
    /\ \A b \in c.texts : b.parts >= TextParts \/ c.truncated

\* As long as no other turn has published a listing since its own, a turn is told
\* exactly the servers that failed it, and the mux routes every tool to the server
\* the turn was offered it by.
AloneIsRight ==
  \A t \in Turns : told[t] # None /\ alone[t] =>
    /\ told[t].degraded = told[t].missing
    /\ owner = told[t].found

\* A request of a turn is answered or fails, once, and fails only for a reason that
\* is not the primary's: Models implements Completion.
C == INSTANCE Completion WITH
       phase <- [t \in Turns |->
                   IF asking[t] # None THEN "asked"
                   ELSE IF reply[t] = None THEN "idle"
                   ELSE IF reply[t].kind = "ok" THEN "answered" ELSE "failed"]
Completes == C!Spec

PrimaryRefuses ==
  \E t \in Turns :
    /\ asking[t] # None /\ asking[t].model = "primary" /\ asking[t].heard = None /\ ~left[t]
    /\ asking'[t] # None /\ asking'[t].heard # None /\ asking'[t].heard.kind # "ok"

\* When the primary refuses nobody any more, traffic goes back to it and stays, whatever
\* callers that give up and a failing backup do.
FailsBack == <>[][~PrimaryRefuses]_vars => <>[]UsePrimary

ServerRefuses ==
  \E t \in Turns : /\ AtServer(t) /\ Answers(Here(t)) /\ listing'[t] # None
                   /\ listing'[t].missing # listing[t].missing

Publishes == \E t \in Turns : PublishFailed(t)

\* When the servers are back, turns that go on listing stop being told that they are
\* missing; a server that forgot its session is the exception, for ever.
Recovers ==
  (<>[][~ServerRefuses]_vars /\ []<><<Publishes>>_vars) => <>[](failed \subseteq forgotten)

\* A post that was read is handled: no turn keeps its handler for ever.
EveryPostHandled == waiting ~> ~waiting
=============================================================================
