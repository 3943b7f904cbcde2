----------------------------- MODULE TurnsProofs -----------------------------
(***************************************************************************)
(* Turns' types, that a turn which lists alone is told and routed right,     *)
(* that the model keeps the promise of Completion, and that what it answers  *)
(* is whole, for any number of turns, servers and tools and whatever the     *)
(* models send.                                                              *)
(***************************************************************************)
EXTENDS Turns, FiniteSetTheorems, TLAPS

-----------------------------------------------------------------------------
(* Types of the tool servers *)

LEMMA HostsType == \A i \in 1..Len(Servers) : Servers[i] \in Hosts
BY ToolServersConstants

LEMMA MoveToType ==
  ASSUME NEW l \in Listing, NEW i \in 1..(Len(Servers) + 3)
  PROVE  MoveTo(l, i) \in Listing /\ MoveTo(l, i).found = l.found
         /\ MoveTo(l, i).missing = l.missing /\ MoveTo(l, i).at = i
<1>1. (i <= Len(Servers) /\ MustGreet(Servers[i])) \in BOOLEAN
  BY DEF MustGreet
<1> QED BY <1>1 DEF MoveTo, Listing

LEMMA ClaimType ==
  ASSUME NEW found \in Owners, NEW s \in Hosts
  PROVE  Claim(found, s) \in Owners
BY DEF Claim, Owners

LEMMA StartListingType ==
  ASSUME ServersTypeOK, NEW t \in Turns, StartListing(t)
  PROVE  ServersTypeOK'
<1>1. Len(Servers) \in Nat
  BY ToolServersConstants
<1>2. [at |-> 1, greet |-> FALSE, found |-> Unowned, missing |-> {}] \in Listing
  BY <1>1 DEF Listing, Owners, Unowned
<1> QED BY <1>1, <1>2, MoveToType DEF StartListing, ServersTypeOK

LEMMA WalkType ==
  ASSUME ServersTypeOK, NEW t \in Turns, ListGreet(t) \/ ListServer(t) \/ MissServer(t)
  PROVE  ServersTypeOK'
<1>0. Len(Servers) \in Nat
  BY ToolServersConstants
<1>1. listing[t] \in Listing /\ AtServer(t)
  BY DEF ServersTypeOK, ListGreet, ListServer, MissServer, AtServer
<1>2. Here(t) \in Hosts
  BY <1>0, <1>1, HostsType DEF AtServer, Here, Listing
<1>3. CASE ListGreet(t)
  <2>1. [listing[t] EXCEPT !.greet = FALSE] \in Listing
    BY <1>1 DEF Listing
  <2> QED BY <1>2, <1>3, <2>1 DEF ListGreet, Greet, ServersTypeOK
<1>4. CASE ListServer(t)
  <2>1. [listing[t] EXCEPT !.found = Claim(listing[t].found, Here(t))] \in Listing
    BY <1>1, <1>2, ClaimType DEF Listing
  <2>2. listing[t].at + 1 \in 1..(Len(Servers) + 3)
    BY <1>0, <1>1 DEF AtServer, Listing
  <2>3. MoveTo([listing[t] EXCEPT !.found = Claim(listing[t].found, Here(t))],
             listing[t].at + 1) \in Listing
    BY <2>1, <2>2, MoveToType
  <2> QED BY <1>4, <2>3 DEF ListServer, ServersTypeOK
<1>5. CASE MissServer(t)
  <2>1. [listing[t] EXCEPT !.missing = listing[t].missing \cup {Here(t)}] \in Listing
    BY <1>1, <1>2 DEF Listing
  <2>2. listing[t].at + 1 \in 1..(Len(Servers) + 3)
    BY <1>0, <1>1 DEF AtServer, Listing
  <2>3. MoveTo([listing[t] EXCEPT !.missing = listing[t].missing \cup {Here(t)}],
             listing[t].at + 1) \in Listing
    BY <2>1, <2>2, MoveToType
  <2> QED BY <1>5, <2>3 DEF MissServer, ServersTypeOK
<1> QED BY <1>3, <1>4, <1>5

LEMMA PublishType ==
  ASSUME ServersTypeOK, NEW t \in Turns, PublishFailed(t) \/ PublishOwner(t) \/ ReadFailures(t)
  PROVE  ServersTypeOK'
<1>0. Len(Servers) \in Nat
  BY ToolServersConstants
<1>1. listing[t] \in Listing
  BY DEF ServersTypeOK, PublishFailed, PublishOwner, ReadFailures
<1>2. CASE PublishFailed(t)
  <2>1. AfterFailures(listing[t]) \in Listing \cup {None}
    BY <1>0, <1>1, <1>2 DEF PublishFailed, AfterFailures, Listing
  <2> QED BY <1>1, <1>2, <2>1 DEF PublishFailed, Failures, Listing, ServersTypeOK
<1>3. CASE PublishOwner(t)
  <2>1. [listing[t] EXCEPT !.at = @ + 1] \in Listing
    BY <1>0, <1>1, <1>3 DEF PublishOwner, Listing
  <2>2. (alone')  \in [Turns -> BOOLEAN]
    BY <1>3 DEF PublishOwner, ServersTypeOK
  <2> QED BY <1>1, <1>3, <2>1, <2>2 DEF PublishOwner, Routes, Listing, ServersTypeOK
<1>4. CASE ReadFailures(t)
  <2>1. [found |-> listing[t].found, missing |-> listing[t].missing, degraded |-> failed] \in Told
    BY <1>1 DEF Listing, Told, ServersTypeOK
  <2> QED BY <1>4, <2>1 DEF ReadFailures, ServersTypeOK
<1> QED BY <1>2, <1>3, <1>4

LEMMA CallType ==
  ASSUME ServersTypeOK, NEW t \in Turns,
         (\E x \in Tools : Route(t, x)) \/ CallGreet(t) \/ EndCall(t)
  PROVE  ServersTypeOK'
<1>1. ASSUME NEW x \in Tools, Route(t, x) PROVE ServersTypeOK'
  <2>1. owner[x] \in Hosts
    BY <1>1 DEF Route, Reachable, ServersTypeOK, Owners
  <2>2. [tool |-> x, server |-> owner[x], greet |-> MustGreet(owner[x])] \in Call
    BY <2>1 DEF Call, MustGreet
  <2> QED BY <1>1, <2>2 DEF Route, ServersTypeOK
<1>2. CASE CallGreet(t)
  <2>1. calling[t] \in Call
    BY <1>2 DEF CallGreet, ServersTypeOK
  <2>2. [calling[t] EXCEPT !.greet = FALSE] \in Call /\ calling[t].server \in Hosts
    BY <2>1 DEF Call
  <2> QED BY <1>2, <2>2 DEF CallGreet, Greet, ServersTypeOK
<1>3. CASE EndCall(t)
  BY <1>3 DEF EndCall, ServersTypeOK
<1> QED BY <1>1, <1>2, <1>3

-----------------------------------------------------------------------------
(* Types of the models *)

LEMMA VerdictKind ==
  ASSUME NEW o
  PROVE  (Verdict(o).kind = "ok") <=> (o.kind = "ok")
BY DEF Verdict, Refused

LEMMA RequestType ==
  /\ \A m \in {"primary", "backup"} : First(m) \in Request
  /\ \A m \in {"primary", "backup"}, o \in Outcomes : Closed(m, Verdict(o)) \in Request
BY ModelsConstants DEF First, Closed, Request, Heard

LEMMA AskType ==
  ASSUME ModelsTypeOK, NEW t \in Turns, Ask(t)
  PROVE  ModelsTypeOK'
BY RequestType DEF Ask, ModelsTypeOK, Heard

LEMMA AttemptType ==
  ASSUME ModelsTypeOK, NEW t \in Turns, NEW o \in Outcomes, Attempt(t, o)
  PROVE  ModelsTypeOK'
<1>1. asking[t] \in Request
  BY DEF ModelsTypeOK, Attempt
<1>2. asking[t].model \in {"primary", "backup"}
  BY <1>1 DEF Request
<1>3. Again(t, o) => [asking[t] EXCEPT !.attempt = @ + 1] \in Request
  BY <1>1, ModelsConstants DEF Again, Request
<1>4. Closed(asking[t].model, Verdict(o)) \in Request
  BY <1>2, RequestType
<1>5. asking' \in [Turns -> Request \cup {None}]
  BY <1>3, <1>4 DEF Attempt, ModelsTypeOK
<1>6. excused' \in [Turns -> BOOLEAN]
  <2>1. (asking[t].model = "backup" /\ ~Again(t, o) /\ o.kind # "ok") \in BOOLEAN
    OBVIOUS
  <2>2. (excused[t] \/ (asking[t].model = "backup" /\ ~Again(t, o) /\ o.kind # "ok")) \in BOOLEAN
    OBVIOUS
  <2> QED BY <2>2 DEF Attempt, ModelsTypeOK
<1> QED BY <1>5, <1>6 DEF Attempt, ModelsTypeOK

LEMMA RecordType ==
  ASSUME ModelsTypeOK, NEW ok \in BOOLEAN, Record(ok)
  PROVE  failures' \in 0..Threshold /\ openFor' \in 0..Cooldown
BY ModelsConstants DEF Record, ModelsTypeOK

LEMMA SettleType ==
  ASSUME ModelsTypeOK, NEW t \in Turns, Settle(t)
  PROVE  ModelsTypeOK'
<1>1. asking[t] \in Request /\ asking[t].heard \in Heard
  BY DEF ModelsTypeOK, Settle, Request
<1>2. failures' \in 0..Threshold /\ openFor' \in 0..Cooldown
  BY RecordType DEF Settle, Learn, ModelsTypeOK
<1>3. asking' \in [Turns -> Request \cup {None}] /\ reply' \in [Turns -> Heard]
  BY <1>1, RequestType DEF Settle, ModelsTypeOK
<1> QED BY <1>2, <1>3 DEF Settle, ModelsTypeOK

LEMMA LeaveType ==
  ASSUME ModelsTypeOK, NEW t \in Turns, Leave(t)
  PROVE  ModelsTypeOK'
BY DEF Leave, ModelsTypeOK

LEMMA CoolType == ModelsTypeOK /\ Cool => ModelsTypeOK'
BY ModelsConstants DEF Cool, ModelsTypeOK

-----------------------------------------------------------------------------
(* Types of the turns *)

HandlersTypeOK ==
  /\ trouble \in {"servers", "models"} /\ waiting \in BOOLEAN
  /\ slot \in [Turns -> {None, "this", "earlier"}]
  /\ stage \in [Turns -> {"idle", "listing", "asking", "calling"}]
  /\ rounds \in [Turns -> 0..Rounds]

LEMMA Unchanged ==
  /\ ServersTypeOK /\ UNCHANGED serverVars => ServersTypeOK'
  /\ ModelsTypeOK /\ UNCHANGED modelVars => ModelsTypeOK'
  /\ HandlersTypeOK /\ UNCHANGED handlerVars => HandlersTypeOK'
BY DEF ServersTypeOK, ModelsTypeOK, HandlersTypeOK, serverVars, modelVars, handlerVars

LEMMA OverType ==
  ASSUME TypeOK, NEW t \in Turns, Over(t), slot' \in [Turns -> {None, "this", "earlier"}]
  PROVE  TypeOK'
<1>1. ServersTypeOK'
  BY DEF Over, TypeOK, ServersTypeOK
<1>2. ModelsTypeOK'
  BY DEF Over, TypeOK, ModelsTypeOK, Heard
<1>3. stage' \in [Turns -> {"idle", "listing", "asking", "calling"}] /\ rounds' \in [Turns -> 0..Rounds]
  BY TurnsConstants DEF Over, TypeOK
<1> QED BY <1>1, <1>2, <1>3 DEF Over, TypeOK

\* Every variable of the three modules keeps its type; above all, the index of a
\* walk over the servers stays within it, and an attempt within the attempts.
THEOREM TurnsTypeCorrect == Spec => []TypeOK
<1>1. Init => TypeOK
  <2>1. Init => ServersTypeOK
    BY DEF Init, ServersInit, ServersTypeOK, Unowned, Owners
  <2>2. Init => ModelsTypeOK
    BY ModelsConstants DEF Init, ModelsInit, ModelsTypeOK, Heard
  <2>3. Init => rounds \in [Turns -> 0..Rounds]
    BY TurnsConstants DEF Init
  <2>4. Init => /\ trouble \in {"servers", "models"} /\ waiting \in BOOLEAN
                /\ slot \in [Turns -> {None, "this", "earlier"}]
                /\ stage \in [Turns -> {"idle", "listing", "asking", "calling"}]
    BY DEF Init
  <2> QED BY <2>1, <2>2, <2>3, <2>4 DEF TypeOK
<1>2. TypeOK /\ [Next]_vars => TypeOK'
  <2> SUFFICES ASSUME TypeOK, [Next]_vars PROVE TypeOK'
    OBVIOUS
  <2>0. ServersTypeOK /\ ModelsTypeOK /\ HandlersTypeOK
    BY DEF TypeOK, HandlersTypeOK
  <2>a. ServersTypeOK' /\ ModelsTypeOK' /\ HandlersTypeOK' => TypeOK'
    BY DEF TypeOK, HandlersTypeOK
  <2>1. CASE Receive
    BY <2>1, <2>0, <2>a, Unchanged DEF Receive, HandlersTypeOK
  <2>2. CASE Reconnect
    <3>1. HandlersTypeOK'
      BY <2>2, <2>0 DEF Reconnect, HandlersTypeOK
    <3> QED BY <2>2, <2>0, <2>a, <3>1, Unchanged DEF Reconnect
  <2>3. CASE Clock
    BY <2>3, <2>0, <2>a, CoolType, Unchanged DEF Clock
  <2>4. CASE Forget
    <3>1. ServersTypeOK'
      BY <2>4, <2>0 DEF Forget, Restart, ServersTypeOK
    <3> QED BY <2>4, <2>0, <2>a, <3>1, Unchanged DEF Forget
  <2>5. ASSUME NEW t \in Turns, Dispatch(t) PROVE TypeOK'
    <3>1. ServersTypeOK'
      BY <2>5, <2>0, StartListingType DEF Dispatch
    <3>2. HandlersTypeOK'
      BY <2>5, <2>0 DEF Dispatch, HandlersTypeOK
    <3> QED BY <2>5, <2>0, <2>a, <3>1, <3>2, Unchanged DEF Dispatch
  <2>6. ASSUME NEW t \in Turns, List(t) PROVE TypeOK'
    <3>1. ServersTypeOK'
      BY <2>6, <2>0, WalkType, PublishType DEF List, ListStep
    <3> QED BY <2>6, <2>0, <2>a, <3>1, Unchanged DEF List
  <2>7. ASSUME NEW t \in Turns, Think(t) PROVE TypeOK'
    <3>1. ModelsTypeOK'
      BY <2>7, <2>0, AskType DEF Think
    <3>2. HandlersTypeOK'
      BY <2>7, <2>0 DEF Think, HandlersTypeOK
    <3> QED BY <2>7, <2>0, <2>a, <3>1, <3>2, Unchanged DEF Think
  <2>8. ASSUME NEW t \in Turns, Complete(t) PROVE TypeOK'
    <3>1. ModelsTypeOK'
      BY <2>8, <2>0, AttemptType, SettleType DEF Complete, Hear
    <3> QED BY <2>8, <2>0, <2>a, <3>1, Unchanged DEF Complete
  <2>9. ASSUME NEW t \in Turns, CallStep(t) PROVE TypeOK'
    <3>1. ServersTypeOK'
      BY <2>9, <2>0, CallType DEF CallStep
    <3> QED BY <2>9, <2>0, <2>a, <3>1, Unchanged DEF CallStep
  <2>10. ASSUME NEW t \in Turns, End(t) PROVE TypeOK'
    <3>1. slot' \in [Turns -> {None, "this", "earlier"}]
      BY <2>10 DEF End, GiveBack, TypeOK
    <3> QED BY <2>10, <3>1, OverType DEF End
  <2>11. ASSUME NEW t \in Turns, NEW x \in Tools, CallTool(t, x) PROVE TypeOK'
    <3>1. ServersTypeOK'
      BY <2>11, <2>0, CallType, Unchanged DEF CallTool
    <3>2. HandlersTypeOK'
      BY <2>11, <2>0, TurnsConstants DEF CallTool, WantsTool, HandlersTypeOK
    <3> QED BY <2>11, <2>0, <2>a, <3>1, <3>2, Unchanged DEF CallTool
  <2>12. ASSUME NEW t \in Turns, Panic(t) PROVE TypeOK'
    <3>1. slot' \in [Turns -> {None, "this", "earlier"}]
      BY <2>12 DEF Panic, GiveBack, TypeOK
    <3> QED BY <2>12, <3>1, OverType DEF Panic
  <2>13. ASSUME NEW t \in Turns, Abort(t) PROVE TypeOK'
    <3>1. ModelsTypeOK'
      BY <2>13, <2>0, LeaveType DEF Abort
    <3> QED BY <2>13, <2>0, <2>a, <3>1, Unchanged DEF Abort
  <2>14. CASE UNCHANGED vars
    BY <2>14, <2>0, <2>a, Unchanged DEF vars
  <2> QED
    BY <2>1, <2>2, <2>3, <2>4, <2>5, <2>6, <2>7, <2>8, <2>9, <2>10, <2>11, <2>12, <2>13, <2>14
    DEF Next, TurnStep
<1> QED BY <1>1, <1>2, PTL DEF Spec

-----------------------------------------------------------------------------
(* A turn that lists alone *)

\* From its publication on, what a turn wrote to the mux is what it found.
OwnListing(t) ==
  /\ listing[t] # None => told[t] = None
  /\ listing[t] # None /\ alone[t] =>
       /\ listing[t].at > Len(Servers) + 1
       /\ failed = listing[t].missing
       /\ listing[t].at = Len(Servers) + 3 => owner = listing[t].found
  /\ told[t] # None /\ alone[t] => told[t].degraded = told[t].missing /\ owner = told[t].found

AloneInv == \A t \in Turns : OwnListing(t)

\* A step that leaves the mux, and the turns but one, alone.
LEMMA OnlyOne ==
  ASSUME ServersTypeOK, AloneInv, NEW t \in Turns, UNCHANGED <<owner, failed>>, OwnListing(t)',
         \A u \in Turns \ {t} : /\ listing'[u] = listing[u] /\ told'[u] = told[u]
                                /\ alone'[u] = alone[u]
  PROVE  AloneInv'
<1> SUFFICES ASSUME NEW u \in Turns \ {t} PROVE OwnListing(u)'
  BY DEF AloneInv
<1> QED BY DEF AloneInv, OwnListing

LEMMA WalkAlone ==
  ASSUME ServersTypeOK, AloneInv, NEW t \in Turns, ListGreet(t) \/ ListServer(t) \/ MissServer(t)
  PROVE  AloneInv'
<1>0. Len(Servers) \in Nat
  BY ToolServersConstants
<1>1. listing[t] \in Listing /\ listing[t] # None /\ listing[t].at \in Nat /\ listing[t].at <= Len(Servers)
  BY <1>0 DEF ListGreet, ListServer, MissServer, AtServer, ServersTypeOK, Listing
<1>2. ~alone[t] /\ told[t] = None
  BY <1>0, <1>1 DEF AloneInv, OwnListing
<1>3. UNCHANGED <<owner, failed, told, alone>>
  BY DEF ListGreet, ListServer, MissServer
<1>4. \A u \in Turns \ {t} : listing'[u] = listing[u]
  BY DEF ListGreet, ListServer, MissServer, ServersTypeOK
<1>5. OwnListing(t)'
  BY <1>2, <1>3 DEF OwnListing
<1> QED BY <1>3, <1>4, <1>5, OnlyOne

LEMMA PublishFailedAlone ==
  ASSUME ServersTypeOK, AloneInv, NEW t \in Turns, PublishFailed(t)
  PROVE  AloneInv'
<1>0. Len(Servers) \in Nat
  BY ToolServersConstants
<1>1. listing[t] \in Listing /\ listing[t] # None /\ listing[t].at = Len(Servers) + 1 /\ told[t] = None
  BY DEF PublishFailed, ServersTypeOK, AloneInv, OwnListing
<1>2. \A u \in Turns : alone'[u] <=> u = t
  BY DEF PublishFailed
<1>3. UNCHANGED <<owner, told>> /\ failed' = listing[t].missing
  BY DEF PublishFailed, Failures
<1>4. \A u \in Turns \ {t} : listing'[u] = listing[u]
  BY DEF PublishFailed, ServersTypeOK
<1>5. listing'[t] = AfterFailures(listing[t])
  BY DEF PublishFailed, ServersTypeOK
<1>6. listing'[t] # None => listing'[t].missing = listing[t].missing /\ listing'[t].at = Len(Servers) + 2
  BY <1>0, <1>1, <1>5 DEF AfterFailures, Listing
<1>7. OwnListing(t)'
  BY <1>0, <1>1, <1>3, <1>6 DEF OwnListing
<1>8. ASSUME NEW u \in Turns \ {t} PROVE OwnListing(u)'
  BY <1>2, <1>3, <1>4 DEF AloneInv, OwnListing
<1> QED BY <1>7, <1>8 DEF AloneInv

LEMMA PublishOwnerAlone ==
  ASSUME ServersTypeOK, AloneInv, NEW t \in Turns, PublishOwner(t)
  PROVE  AloneInv'
<1>0. Len(Servers) \in Nat
  BY ToolServersConstants
<1>1. listing[t] \in Listing /\ listing[t] # None /\ listing[t].at = Len(Servers) + 2 /\ told[t] = None
  BY DEF PublishOwner, ServersTypeOK, AloneInv, OwnListing
<1>2. alone[t] => failed = listing[t].missing
  BY <1>1 DEF AloneInv, OwnListing
<1>3. \A u \in Turns : alone'[u] <=> u = t /\ alone[t]
  BY DEF PublishOwner
<1>4. UNCHANGED <<failed, told>> /\ owner' = listing[t].found
  BY DEF PublishOwner, Routes
<1>5. \A u \in Turns \ {t} : listing'[u] = listing[u]
  BY DEF PublishOwner, ServersTypeOK
<1>6. /\ listing'[t].missing = listing[t].missing /\ listing'[t].found = listing[t].found
      /\ listing'[t].at = Len(Servers) + 3
  BY <1>0, <1>1 DEF PublishOwner, ServersTypeOK, Listing
<1>7. OwnListing(t)'
  BY <1>0, <1>1, <1>2, <1>3, <1>4, <1>6 DEF OwnListing
<1>8. ASSUME NEW u \in Turns \ {t} PROVE OwnListing(u)'
  BY <1>3, <1>4, <1>5 DEF AloneInv, OwnListing
<1> QED BY <1>7, <1>8 DEF AloneInv

LEMMA ReadFailuresAlone ==
  ASSUME ServersTypeOK, AloneInv, NEW t \in Turns, ReadFailures(t)
  PROVE  AloneInv'
<1>1. listing[t] # None /\ listing[t].at = Len(Servers) + 3
  BY DEF ReadFailures
<1>2. alone[t] => failed = listing[t].missing /\ owner = listing[t].found
  BY <1>1 DEF AloneInv, OwnListing
<1>3. UNCHANGED <<owner, failed, alone>> /\ listing'[t] = None
  BY DEF ReadFailures, ServersTypeOK
<1>4. /\ told'[t].degraded = failed /\ told'[t].missing = listing[t].missing
      /\ told'[t].found = listing[t].found
  BY DEF ReadFailures, ServersTypeOK
<1>5. OwnListing(t)'
  BY <1>2, <1>3, <1>4 DEF OwnListing
<1>6. \A u \in Turns \ {t} : listing'[u] = listing[u] /\ told'[u] = told[u]
  BY DEF ReadFailures, ServersTypeOK
<1> QED BY <1>3, <1>5, <1>6, OnlyOne

\* A turn begins to list, or is over: it has been told nothing.
LEMMA NothingTold ==
  ASSUME ServersTypeOK, AloneInv, NEW t \in Turns, UNCHANGED <<owner, failed>>,
         told' = [told EXCEPT ![t] = None], alone' = [alone EXCEPT ![t] = FALSE],
         \A u \in Turns \ {t} : listing'[u] = listing[u]
  PROVE  AloneInv'
<1>1. told'[t] = None /\ ~alone'[t]
  BY DEF ServersTypeOK
<1>2. OwnListing(t)'
  BY <1>1 DEF OwnListing
<1> QED BY <1>2, OnlyOne DEF ServersTypeOK

LEMMA AloneUnchanged ==
  AloneInv /\ UNCHANGED <<owner, failed, listing, told, alone>> => AloneInv'
BY DEF AloneInv, OwnListing

\* As long as no other turn has published since, a turn is told exactly the servers
\* that failed it, and its tools are routed where it found them (mux.go), however
\* many turns share the mux.
THEOREM AloneCorrect == Spec => []AloneIsRight
<1>1. Init => AloneInv
  BY DEF Init, ServersInit, AloneInv, OwnListing
<1>2. TypeOK /\ AloneInv /\ [Next]_vars => AloneInv'
  <2> SUFFICES ASSUME TypeOK, AloneInv, [Next]_vars PROVE AloneInv'
    OBVIOUS
  <2>0. ServersTypeOK
    BY DEF TypeOK
  <2>1. CASE Receive \/ Reconnect \/ Clock \/ Forget
    BY <2>1, AloneUnchanged DEF Receive, Reconnect, Clock, Forget, Restart, serverVars
  <2>2. ASSUME NEW t \in Turns, Dispatch(t) PROVE AloneInv'
    <3>1. \A u \in Turns \ {t} : listing'[u] = listing[u]
      BY <2>2, <2>0 DEF Dispatch, StartListing, ServersTypeOK
    <3> QED BY <2>2, <2>0, <3>1, NothingTold DEF Dispatch, StartListing
  <2>3. ASSUME NEW t \in Turns, List(t) PROVE AloneInv'
    BY <2>3, <2>0, WalkAlone, PublishFailedAlone, PublishOwnerAlone, ReadFailuresAlone
    DEF List, ListStep
  <2>4. ASSUME NEW t \in Turns, Think(t) \/ Complete(t) \/ CallStep(t) \/ Abort(t)
        PROVE  AloneInv'
    BY <2>4, AloneUnchanged
    DEF Think, Complete, CallStep, CallGreet, EndCall, Abort, serverVars
  <2>5. ASSUME NEW t \in Turns, NEW x \in Tools, CallTool(t, x) PROVE AloneInv'
    BY <2>5, AloneUnchanged DEF CallTool, Route, serverVars
  <2>6. ASSUME NEW t \in Turns, End(t) \/ Panic(t) PROVE AloneInv'
    BY <2>6, <2>0, NothingTold DEF End, Panic, Over
  <2>7. CASE UNCHANGED vars
    BY <2>7, AloneUnchanged DEF vars, serverVars
  <2> QED BY <2>1, <2>2, <2>3, <2>4, <2>5, <2>6, <2>7 DEF Next, TurnStep
<1>3. AloneInv => AloneIsRight
  BY DEF AloneInv, OwnListing, AloneIsRight
<1> QED BY <1>1, <1>2, <1>3, TurnsTypeCorrect, PTL DEF Spec

-----------------------------------------------------------------------------
(* The model keeps the promise of Completion *)

\* A request belongs to a turn that asks.  It is excused when its caller has left, or
\* when the backup refused it, and before the turn asks there is nothing to excuse.
RequestOK(t) ==
  /\ asking[t] # None =>
       /\ stage[t] = "asking" /\ reply[t] = None
       /\ left[t] => excused[t]
       /\ asking[t].model = "backup" /\ asking[t].heard # None /\ asking[t].heard.kind # "ok"
            => excused[t]
  /\ asking[t] = None /\ reply[t] = None => ~excused[t]

RequestsOK == \A t \in Turns : RequestOK(t)

Phase(t) ==
  IF asking[t] # None THEN "asked"
  ELSE IF reply[t] = None THEN "idle"
  ELSE IF reply[t].kind = "ok" THEN "answered" ELSE "failed"
phase == [t \in Turns |-> Phase(t)]

\* What a step of one turn is to Completion.
Kept(t) ==
  /\ RequestOK(t)'
  /\ \/ Phase(t)' = Phase(t) /\ excused'[t] = excused[t]
     \/ Phase(t) # "asked" /\ Phase(t)' = "asked"
     \/ Phase(t) = "asked" /\ ~excused[t] /\ Phase(t)' = "asked" /\ excused'[t]
     \/ Phase(t) = "asked" /\ Phase(t)' = "answered" /\ excused'[t] = excused[t]
     \/ Phase(t) = "asked" /\ excused[t] /\ Phase(t)' = "failed" /\ excused'[t] = excused[t]
     \/ Phase(t) \in {"answered", "failed"} /\ Phase(t)' = "idle" /\ ~excused'[t]

LEMMA OneTurnKept ==
  ASSUME ModelsTypeOK, ModelsTypeOK', RequestsOK, NEW t \in Turns, Kept(t),
         \A u \in Turns \ {t} :
           /\ asking'[u] = asking[u] /\ reply'[u] = reply[u] /\ left'[u] = left[u]
           /\ excused'[u] = excused[u] /\ stage'[u] = stage[u]
  PROVE  RequestsOK' /\ [C!Next]_(C!vars)
<1>1. ASSUME NEW u \in Turns \ {t} PROVE RequestOK(u)' /\ Phase(u)' = Phase(u)
  BY <1>1 DEF RequestsOK, RequestOK, Phase
<1>2. RequestsOK'
  BY <1>1 DEF RequestsOK, Kept
<1>3. phase' = [phase EXCEPT ![t] = Phase(t)']
  BY <1>1 DEF phase
<1>4. excused \in [Turns -> BOOLEAN] /\ excused' \in [Turns -> BOOLEAN]
  BY DEF ModelsTypeOK
<1>5. excused' = [excused EXCEPT ![t] = excused'[t]]
  BY <1>4
<1>6. phase[t] = Phase(t)
  BY DEF phase
<1>7. CASE Phase(t)' = Phase(t) /\ excused'[t] = excused[t]
  <2>1. phase' = phase /\ excused' = excused
    BY <1>3, <1>4, <1>5, <1>7 DEF phase
  <2> QED BY <1>2, <2>1 DEF C!vars, phase, Phase
<1>8. CASE Phase(t) # "asked" /\ Phase(t)' = "asked"
  <2>1. \E gone \in BOOLEAN : excused' = [excused EXCEPT ![t] = gone]
    BY <1>4, <1>5
  <2>2. phase[t] # "asked" /\ phase' = [phase EXCEPT ![t] = "asked"]
    BY <1>3, <1>6, <1>8
  <2>3. C!Ask(t)
    BY <2>1, <2>2 DEF C!Ask, phase, Phase
  <2> QED BY <1>2, <2>3 DEF C!Next
<1>9. CASE Phase(t) = "asked" /\ ~excused[t] /\ Phase(t)' = "asked" /\ excused'[t]
  <2>1. phase' = phase
    BY <1>3, <1>6, <1>9 DEF phase
  <2>2. excused' = [excused EXCEPT ![t] = TRUE]
    BY <1>4, <1>5, <1>9
  <2>3. C!Excuse(t)
    BY <1>6, <1>9, <2>1, <2>2 DEF C!Excuse, phase, Phase
  <2> QED BY <1>2, <2>3 DEF C!Next
<1>10. CASE Phase(t) = "asked" /\ Phase(t)' = "answered" /\ excused'[t] = excused[t]
  <2>1. excused' = excused
    BY <1>4, <1>5, <1>10
  <2>2. C!Answer(t)
    BY <1>3, <1>6, <1>10, <2>1 DEF C!Answer, phase, Phase
  <2> QED BY <1>2, <2>2 DEF C!Next
<1>11. CASE Phase(t) = "asked" /\ excused[t] /\ Phase(t)' = "failed" /\ excused'[t] = excused[t]
  <2>1. excused' = excused
    BY <1>4, <1>5, <1>11
  <2>2. C!Fail(t)
    BY <1>3, <1>6, <1>11, <2>1 DEF C!Fail, phase, Phase
  <2> QED BY <1>2, <2>2 DEF C!Next
<1>12. CASE Phase(t) \in {"answered", "failed"} /\ Phase(t)' = "idle" /\ ~excused'[t]
  <2>1. excused' = [excused EXCEPT ![t] = FALSE]
    BY <1>4, <1>5, <1>12
  <2>2. C!Leave(t)
    BY <1>3, <1>6, <1>12, <2>1 DEF C!Leave, phase, Phase
  <2> QED BY <1>2, <2>2 DEF C!Next
<1> QED BY <1>7, <1>8, <1>9, <1>10, <1>11, <1>12 DEF Kept

LEMMA AskKept ==
  ASSUME TypeOK, RequestsOK, NEW t \in Turns, Think(t)
  PROVE  Kept(t)
<1>1. First("primary") # None /\ First("backup") # None
  BY RequestType, NoneIsNoRequest
<1>2. asking[t] = None /\ asking'[t] # None /\ asking'[t].heard = None
  BY <1>1 DEF Think, Ask, First, TypeOK, ModelsTypeOK
<1>3. reply'[t] = None /\ excused'[t] = left[t] /\ left'[t] = left[t]
  BY DEF Think, Ask, TypeOK, ModelsTypeOK
<1>4. stage'[t] = "asking"
  BY DEF Think, TypeOK
<1> QED BY <1>2, <1>3, <1>4 DEF Kept, RequestOK, Phase

LEMMA AttemptKept ==
  ASSUME ModelsTypeOK, RequestsOK, NEW t \in Turns, NEW o \in Outcomes,
         Attempt(t, o), UNCHANGED handlerVars
  PROVE  Kept(t)
<1>1. asking[t] \in Request /\ asking[t] # None /\ asking[t].heard = None
  BY DEF Attempt, ModelsTypeOK
<1>2. Again(t, o) => [asking[t] EXCEPT !.attempt = @ + 1] \in Request
  BY <1>1, ModelsConstants DEF Again, Request
<1>3. Closed(asking[t].model, Verdict(o)) \in Request
  BY <1>1, RequestType DEF Request
<1>4. asking'[t] = IF Again(t, o) THEN [asking[t] EXCEPT !.attempt = @ + 1]
                   ELSE Closed(asking[t].model, Verdict(o))
  BY DEF Attempt, ModelsTypeOK
<1>5. asking'[t] # None
  BY <1>2, <1>3, <1>4, NoneIsNoRequest
<1>6. asking'[t].model = asking[t].model
  BY <1>1, <1>4 DEF Closed, Request
<1>7. Again(t, o) => asking'[t].heard = None
  BY <1>1, <1>4 DEF Request
<1>8. ~Again(t, o) => (asking'[t].heard.kind = "ok" <=> o.kind = "ok")
  BY <1>4, VerdictKind DEF Closed
<1>9. reply'[t] = reply[t] /\ left'[t] = left[t] /\ stage'[t] = stage[t]
  BY DEF Attempt, handlerVars
<1>10. excused'[t] <=> excused[t] \/ (asking[t].model = "backup" /\ ~Again(t, o) /\ o.kind # "ok")
  BY DEF Attempt, ModelsTypeOK
<1>11. RequestOK(t)'
  BY <1>1, <1>5, <1>6, <1>7, <1>8, <1>9, <1>10 DEF RequestsOK, RequestOK
<1>12. Phase(t) = "asked" /\ Phase(t)' = "asked"
  BY <1>1, <1>5 DEF Phase
<1>13. excused[t] \in BOOLEAN /\ excused'[t] \in BOOLEAN
  <2>1. excused[t] \in BOOLEAN
    BY DEF ModelsTypeOK
  <2> QED BY <2>1, AttemptType DEF ModelsTypeOK
<1> QED BY <1>10, <1>11, <1>12, <1>13 DEF Kept

LEMMA SettleKept ==
  ASSUME ModelsTypeOK, RequestsOK, NEW t \in Turns, Settle(t), UNCHANGED handlerVars
  PROVE  Kept(t)
<1>1. asking[t] \in Request /\ asking[t] # None /\ asking[t].heard # None /\ reply[t] = None
  BY DEF Settle, ModelsTypeOK, RequestsOK, RequestOK
<1>2. asking[t].model \in {"primary", "backup"}
  BY <1>1 DEF Request
<1>3. left'[t] = left[t] /\ stage'[t] = stage[t] /\ excused'[t] = excused[t]
  BY DEF Settle, handlerVars
<1>4. CASE FallsBack(t)
  <2>1. asking'[t] = First("backup") /\ reply'[t] = reply[t]
    BY <1>4 DEF Settle, ModelsTypeOK
  <2>2. asking'[t] # None /\ asking'[t].heard = None
    BY <2>1, RequestType, NoneIsNoRequest DEF First
  <2>3. RequestOK(t)'
    BY <1>1, <1>3, <2>1, <2>2 DEF RequestsOK, RequestOK
  <2> QED BY <1>1, <1>3, <2>2, <2>3 DEF Kept, Phase
<1>5. CASE ~FallsBack(t)
  <2>1. asking'[t] = None /\ reply'[t] = asking[t].heard
    BY <1>5 DEF Settle, ModelsTypeOK
  <2>2. RequestOK(t)'
    BY <1>1, <2>1 DEF RequestOK
  <2>3. asking[t].heard.kind # "ok" => excused[t]
    BY <1>1, <1>2, <1>5 DEF FallsBack, RequestsOK, RequestOK
  <2> QED BY <1>1, <1>3, <2>1, <2>2, <2>3 DEF Kept, Phase
<1> QED BY <1>4, <1>5

LEMMA LeaveKept ==
  ASSUME ModelsTypeOK, RequestsOK, NEW t \in Turns, Leave(t), UNCHANGED handlerVars
  PROVE  Kept(t)
<1>1. asking[t] # None /\ asking'[t] = asking[t] /\ reply'[t] = reply[t] /\ stage'[t] = stage[t]
  BY DEF Leave, handlerVars
<1>2. excused'[t]
  BY DEF Leave, ModelsTypeOK
<1>3. RequestOK(t)'
  BY <1>1, <1>2 DEF RequestsOK, RequestOK
<1>4. excused[t] \in BOOLEAN
  BY DEF ModelsTypeOK
<1> QED BY <1>1, <1>2, <1>3, <1>4 DEF Kept, Phase

LEMMA OverKept ==
  ASSUME TypeOK, RequestsOK, NEW t \in Turns, Over(t), asking[t] = None
  PROVE  Kept(t)
<1>1. asking'[t] = None /\ reply'[t] = None /\ ~excused'[t]
  BY DEF Over, TypeOK, ModelsTypeOK
<1>2. RequestOK(t)'
  BY <1>1 DEF RequestOK
<1>3. excused[t] \in BOOLEAN /\ excused'[t] \in BOOLEAN
  BY DEF Over, TypeOK, ModelsTypeOK
<1>4. CASE reply[t] = None
  <2>1. ~excused[t]
    BY <1>4 DEF RequestsOK, RequestOK
  <2> QED BY <1>1, <1>2, <1>3, <1>4, <2>1 DEF Kept, Phase
<1>5. CASE reply[t] # None
  BY <1>1, <1>2, <1>5 DEF Kept, Phase
<1> QED BY <1>4, <1>5

LEMMA NoRequestChanges ==
  ASSUME RequestsOK, UNCHANGED <<asking, reply, left, excused>>,
         \A u \in Turns : asking[u] # None => stage'[u] = stage[u]
  PROVE  RequestsOK' /\ [C!Next]_(C!vars)
<1>1. RequestsOK'
  BY DEF RequestsOK, RequestOK
<1>2. UNCHANGED C!vars
  BY DEF C!vars
<1> QED BY <1>1, <1>2

\* Every request of a turn is answered, or fails because its caller left or the
\* backup refused it (anthropic.go, failover.go): the steps of Turns are steps of
\* Completion, whatever the models answer and however often the breaker moves.
THEOREM ImplementsCompletion == Spec => C!Init /\ [][C!Next]_(C!vars)
<1>1. Init => C!Init /\ RequestsOK
  BY DEF Init, ModelsInit, C!Init, RequestsOK, RequestOK
<1>2. TypeOK /\ TypeOK' /\ RequestsOK /\ [Next]_vars => RequestsOK' /\ [C!Next]_(C!vars)
  <2> SUFFICES ASSUME TypeOK, TypeOK', RequestsOK, [Next]_vars
               PROVE  RequestsOK' /\ [C!Next]_(C!vars)
    OBVIOUS
  <2>0. ModelsTypeOK /\ ModelsTypeOK'
    BY DEF TypeOK
  <2>1. CASE Receive \/ Reconnect \/ Clock \/ Forget
    BY <2>1, NoRequestChanges DEF Receive, Reconnect, Clock, Cool, Forget, modelVars, handlerVars
  <2>2. ASSUME NEW t \in Turns, Dispatch(t) PROVE RequestsOK' /\ [C!Next]_(C!vars)
    <3>1. asking[t] = None
      BY <2>2 DEF Dispatch, RequestsOK, RequestOK
    <3>2. \A u \in Turns : asking[u] # None => stage'[u] = stage[u]
      BY <2>2, <3>1 DEF Dispatch, TypeOK
    <3> QED BY <2>2, <3>2, NoRequestChanges DEF Dispatch, modelVars
  <2>3. ASSUME NEW t \in Turns, List(t) \/ CallStep(t) PROVE RequestsOK' /\ [C!Next]_(C!vars)
    BY <2>3, NoRequestChanges DEF List, CallStep, modelVars, handlerVars
  <2>4. ASSUME NEW t \in Turns, NEW x \in Tools, CallTool(t, x)
        PROVE  RequestsOK' /\ [C!Next]_(C!vars)
    <3>1. asking[t] = None
      BY <2>4 DEF CallTool, WantsTool, Heeded
    <3>2. \A u \in Turns : asking[u] # None => stage'[u] = stage[u]
      BY <2>4, <3>1 DEF CallTool, TypeOK
    <3> QED BY <2>4, <3>2, NoRequestChanges DEF CallTool, modelVars
  <2>5. ASSUME NEW t \in Turns, Think(t) PROVE RequestsOK' /\ [C!Next]_(C!vars)
    <3>1. \A u \in Turns \ {t} :
             /\ asking'[u] = asking[u] /\ reply'[u] = reply[u] /\ left'[u] = left[u]
             /\ excused'[u] = excused[u] /\ stage'[u] = stage[u]
      BY <2>5 DEF Think, Ask, TypeOK, ModelsTypeOK
    <3> QED BY <2>0, <2>5, <3>1, AskKept, OneTurnKept
  <2>6. ASSUME NEW t \in Turns, NEW o \in Outcomes, Attempt(t, o), UNCHANGED handlerVars
        PROVE  RequestsOK' /\ [C!Next]_(C!vars)
    <3>1. \A u \in Turns \ {t} :
             /\ asking'[u] = asking[u] /\ reply'[u] = reply[u] /\ left'[u] = left[u]
             /\ excused'[u] = excused[u] /\ stage'[u] = stage[u]
      BY <2>0, <2>6 DEF Attempt, handlerVars, ModelsTypeOK
    <3> QED BY <2>0, <2>6, <3>1, AttemptKept, OneTurnKept
  <2>7. ASSUME NEW t \in Turns, Settle(t), UNCHANGED handlerVars
        PROVE  RequestsOK' /\ [C!Next]_(C!vars)
    <3>1. \A u \in Turns \ {t} :
             /\ asking'[u] = asking[u] /\ reply'[u] = reply[u] /\ left'[u] = left[u]
             /\ excused'[u] = excused[u] /\ stage'[u] = stage[u]
      BY <2>0, <2>7 DEF Settle, handlerVars, ModelsTypeOK
    <3> QED BY <2>0, <2>7, <3>1, SettleKept, OneTurnKept
  <2>8. ASSUME NEW t \in Turns, Abort(t) PROVE RequestsOK' /\ [C!Next]_(C!vars)
    <3>1. Leave(t) /\ UNCHANGED handlerVars
      BY <2>8 DEF Abort
    <3>2. \A u \in Turns \ {t} :
             /\ asking'[u] = asking[u] /\ reply'[u] = reply[u] /\ left'[u] = left[u]
             /\ excused'[u] = excused[u] /\ stage'[u] = stage[u]
      BY <2>0, <3>1 DEF Leave, handlerVars, ModelsTypeOK
    <3> QED BY <2>0, <3>1, <3>2, LeaveKept, OneTurnKept
  <2>9. ASSUME NEW t \in Turns, End(t) \/ Panic(t) PROVE RequestsOK' /\ [C!Next]_(C!vars)
    <3>1. Over(t) /\ asking[t] = None
      BY <2>9 DEF End, Panic, Listed, CallIsOver, Heeded, RequestsOK, RequestOK
    <3>2. \A u \in Turns \ {t} :
             /\ asking'[u] = asking[u] /\ reply'[u] = reply[u] /\ left'[u] = left[u]
             /\ excused'[u] = excused[u] /\ stage'[u] = stage[u]
      BY <2>0, <3>1 DEF Over, TypeOK, ModelsTypeOK
    <3> QED BY <2>0, <3>1, <3>2, OverKept, OneTurnKept
  <2>10. CASE UNCHANGED vars
    BY <2>10, NoRequestChanges DEF vars, modelVars, handlerVars
  <2> QED
    BY <2>1, <2>2, <2>3, <2>4, <2>5, <2>6, <2>7, <2>8, <2>9, <2>10
    DEF Next, TurnStep, Complete, Hear
<1> QED BY <1>1, <1>2, TurnsTypeCorrect, PTL DEF Spec
-----------------------------------------------------------------------------
(* Whole answers *)

LEMMA PiecesCount ==
  ASSUME NEW w \in Wires, NEW i \in Starts(w)
  PROVE  Cardinality(Pieces(w, i)) \in Nat
<1>1. w.events \in Seq([type: {"text", "tool", "delta", "stop", "max_tokens", "end", "error"},
                       index: Nat])
  BY ModelsConstants DEF Wire
<1>2. PICK n \in Nat : DOMAIN w.events = 1..n
  BY <1>1
<1>3. IsFiniteSet(1..n)
  <2>1. 1 \in Int /\ n \in Int
    OBVIOUS
  <2> QED BY <2>1, FS_Interval
<1>4. Pieces(w, i) \subseteq 1..n
  BY <1>2 DEF Pieces
<1>5. IsFiniteSet(Pieces(w, i))
  BY <1>3, <1>4, FS_Subset
<1> QED BY <1>5, FS_CardinalityType

\* What passes the parser is whole: each way in which a block can be partial is one that
\* Stream refuses, except the output limit.
LEMMA PassedIsWhole ==
  ASSUME NEW w \in Wires, Stream(w).kind = "ok"
  PROVE  LET c == Stream(w).content IN
         /\ \A b \in c.calls : b.parts >= ArgsParts \/ (c.truncated /\ b.parts = 0)
         /\ \A b \in c.texts : b.parts >= TextParts \/ c.truncated
<1>1. /\ w.status = 200 /\ ~Incomplete(w) /\ ~Leaked(w)
      /\ Stream(w) = [kind |-> "ok", content |-> Content(w)]
  <2>1. w.status \in {0, 200, 400, 429, 500}
    BY ModelsConstants DEF Wire
  <2> QED BY <2>1 DEF Stream, Retryable, Permanent
<1>2. /\ Stream(w).content.texts = Blocks(w, "text") /\ Stream(w).content.calls = Blocks(w, "tool")
      /\ Stream(w).content.truncated = Truncated(w)
  BY <1>1 DEF Content
<1>3. ASSUME NEW i \in Starts(w), ~Truncated(w)
      PROVE  Cardinality(Pieces(w, i)) >= IF w.events[i].type = "text" THEN TextParts ELSE ArgsParts
  BY <1>1, <1>3, WholeAtTheEnd DEF Incomplete
<1>4. ASSUME NEW b \in Blocks(w, "tool")
      PROVE  b.parts >= ArgsParts \/ (Truncated(w) /\ b.parts = 0)
  <2>1. PICK i \in Starts(w) : w.events[i].type = "tool" /\ b.parts = Cardinality(Pieces(w, i))
    BY <1>4 DEF Blocks
  <2>2. b.parts \in Nat /\ ArgsParts \in Nat
    BY <2>1, PiecesCount, ModelsConstants
  <2>3. ~(b.parts \in 1..(ArgsParts - 1))
    BY <1>1 DEF Incomplete, Unparsed
  <2>4. b.parts = 0 \/ b.parts >= ArgsParts
    BY <2>2, <2>3
  <2> QED BY <1>3, <2>1, <2>4
<1>5. ASSUME NEW b \in Blocks(w, "text") PROVE b.parts >= TextParts \/ Truncated(w)
  <2>1. PICK i \in Starts(w) : w.events[i].type = "text" /\ b.parts = Cardinality(Pieces(w, i))
    BY <1>5 DEF Blocks
  <2> QED BY <1>3, <2>1
<1> QED BY <1>2, <1>4, <1>5

\* Whatever breaks off, errs or is retried, on either model, the agent gets whole answers
\* (parseStream, parseJSON and Client.Complete of anthropic.go, Failover.Complete).
THEOREM AnswersAreWhole == Spec => []NothingPartial
<1>1. TypeOK => NothingPartial
  <2> SUFFICES ASSUME TypeOK, NEW t \in Turns, reply[t] # None, reply[t].kind = "ok"
               PROVE  LET c == reply[t].content IN
                      /\ \A b \in c.calls : b.parts >= ArgsParts \/ (c.truncated /\ b.parts = 0)
                      /\ \A b \in c.texts : b.parts >= TextParts \/ c.truncated
    BY DEF NothingPartial
  <2>1. reply[t] \in Heard
    BY DEF TypeOK, ModelsTypeOK
  <2>2. PICK w \in Wires : reply[t] = Verdict(Stream(w))
    BY <2>1 DEF Heard, Outcomes
  <2>3. reply[t] = Stream(w) /\ Stream(w).kind = "ok"
    BY <2>2 DEF Verdict, Refused
  <2> QED BY <2>3, PassedIsWhole
<1> QED BY <1>1, TurnsTypeCorrect, PTL
=============================================================================
