--------------------------- MODULE ScopeCacheProofs ---------------------------
(***************************************************************************)
(* Access propagates through the cache for every number of users, regions    *)
(* and callers, every TTL and every timeout.                                 *)
(***************************************************************************)
EXTENDS ScopeCache, TLAPS

LEMMA HorizonType == Horizon \in Nat /\ TTL <= Horizon /\ QueryTimeout < Horizon
BY ScopeConstants DEF Horizon

LEMMA LesserType ==
  ASSUME NEW m \in Nat, NEW n \in Nat
  PROVE  Lesser(m, n) \in 0..n /\ Lesser(m, n) <= m /\ (m <= n => Lesser(m, n) = m)
BY DEF Lesser

\* The shape of a flight at each of its stages.
LEMMA FlightShape ==
  ASSUME TypeOK, NEW u \in Users
  PROVE  /\ Flying(u, "check") \/ Flying(u, "query") =>
              /\ flight[u] \in [stage: {"check", "query"},
                                heard: [Regions -> Says \cup {None}], elapsed: 0..QueryTimeout]
         /\ Flying(u, "found") => flight[u] \in [stage: {"found"}, got: Answers]
BY DEF TypeOK, Flying, Flight

LEMMA AskingQuery ==
  ASSUME TypeOK, NEW u \in Users, Flying(u, "query"), AllHeard(u)
  PROVE  flight[u].heard \in Answers
BY FlightShape DEF AllHeard, Answers

-----------------------------------------------------------------------------
(* Types *)

\* Entries, flights and callers keep their shape: a flight holds whole answers
\* once it has found them, and no query lasts longer than the timeout.
THEOREM ScopeTypeCorrect == Spec => []TypeOK
<1>1. Init => TypeOK
  BY HorizonType DEF Init, TypeOK
<1>2. TypeOK /\ [Next]_vars => TypeOK'
  <2> SUFFICES ASSUME TypeOK, [Next]_vars PROVE TypeOK'
    OBVIOUS
  <2>1. ASSUME NEW c \in Callers, NEW u \in Users, Call(c, u)
        PROVE  TypeOK'
    <3>1. LongKnown(u) \in [Regions -> {"granted", "none", None}]
      BY DEF LongKnown, TypeOK
    <3> QED BY <2>1, <3>1 DEF Call, Caller, TypeOK
  <2>2. ASSUME NEW c \in Callers, NEW u \in Users, Refresh(c, u)
        PROVE  TypeOK'
    <3>1. access[u] \in [Regions -> {"granted", "none", None}]
      BY DEF TypeOK
    <3> QED BY <2>2, <3>1 DEF Refresh, Caller, TypeOK
  <2>3. ASSUME NEW c \in Callers, LookUp(c)
        PROVE  TypeOK'
    <3>1. callers[c] \in Caller /\ callers[c].user \in Users
      BY <2>3 DEF LookUp, At, TypeOK, Caller
    <3>2. Fresh(callers[c].user) => entries[callers[c].user].says \in Answers
      BY <3>1 DEF Fresh, TypeOK, Entry
    <3>3. callers' \in [Callers -> Caller \cup {None}]
      BY <2>3, <3>1, <3>2 DEF LookUp, Caller, TypeOK
    <3> QED BY <2>3, <3>3 DEF LookUp, TypeOK
  <2>4. ASSUME NEW c \in Callers, Join(c)
        PROVE  TypeOK'
    <3>1. callers[c] \in Caller /\ callers[c].user \in Users
      BY <2>4 DEF Join, At, TypeOK, Caller
    <3>2. [stage |-> "check", heard |-> [r \in Regions |-> None], elapsed |-> 0] \in Flight
      BY ScopeConstants DEF Flight
    <3>3. flight' \in [Users -> Flight \cup {None}]
      BY <2>4, <3>1, <3>2 DEF Join, TypeOK
    <3>4. callers' \in [Callers -> Caller \cup {None}]
      BY <2>4, <3>1 DEF Join, Caller, TypeOK
    <3> QED BY <2>4, <3>3, <3>4 DEF Join, TypeOK
  <2>5. ASSUME NEW u \in Users, Recheck(u)
        PROVE  TypeOK'
    <3>1. Fresh(u) => [stage |-> "found", got |-> entries[u].says] \in Flight
      BY DEF Fresh, TypeOK, Entry, Flight
    <3>2. [flight[u] EXCEPT !.stage = "query"] \in Flight
      BY <2>5, FlightShape DEF Recheck, Flight
    <3>3. flight' \in [Users -> Flight \cup {None}]
      BY <2>5, <3>1, <3>2 DEF Recheck, Found, TypeOK
    <3> QED BY <2>5, <3>3 DEF Recheck, TypeOK
  <2>6. ASSUME NEW u \in Users, NEW r \in Regions, Hear(u, r)
        PROVE  TypeOK'
    <3>1. PICK answer \in {access[u][r], "failed"} :
            flight' = [flight EXCEPT ![u].heard[r] = answer]
      BY <2>6 DEF Hear
    <3>2. answer \in Says
      BY DEF TypeOK, Says
    <3>3. [flight[u] EXCEPT !.heard[r] = answer] \in Flight
      BY <2>6, <3>2, FlightShape DEF Hear, Flight
    <3>4. flight' \in [Users -> Flight \cup {None}]
      BY <3>1, <3>3 DEF TypeOK
    <3> QED BY <2>6, <3>4 DEF Hear, TypeOK
  <2>7. ASSUME NEW u \in Users, Conclude(u)
        PROVE  TypeOK'
    <3>1. flight[u].heard \in Answers
      BY <2>7, AskingQuery DEF Conclude
    <3>2. [stage |-> "found", got |-> flight[u].heard] \in Flight
      BY <3>1 DEF Flight
    <3>3. [says |-> flight[u].heard, age |-> 0] \in Entry
      BY <3>1, ScopeConstants DEF Entry
    <3>4. flight' \in [Users -> Flight \cup {None}]
      BY <2>7, <3>2 DEF Conclude, Found, TypeOK
    <3>5. entries' \in [Users -> Entry \cup {None}]
      BY <2>7, <3>3 DEF Conclude, Store, TypeOK
    <3> QED BY <2>7, <3>4, <3>5 DEF Conclude, TypeOK
  <2>8. ASSUME NEW u \in Users, Deliver(u)
        PROVE  TypeOK'
    <3>1. flight[u].got \in Answers
      BY <2>8, FlightShape DEF Deliver
    <3>2. \A c \in Callers : At(c, "wait") =>
            [callers[c] EXCEPT !.stage = "done", !.got = flight[u].got] \in Caller
      BY <3>1 DEF At, TypeOK, Caller
    <3>3. callers' \in [Callers -> Caller \cup {None}]
      BY <2>8, <3>2 DEF Deliver, TypeOK
    <3> QED BY <2>8, <3>3 DEF Deliver, TypeOK
  <2>9. ASSUME NEW c \in Callers, Return(c)
        PROVE  TypeOK'
    BY <2>9 DEF Return, TypeOK
  <2>10. ASSUME NEW u \in Users, Evict(u)
         PROVE  TypeOK'
    BY <2>10 DEF Evict, TypeOK
  <2>11. ASSUME NEW u \in Users, NEW r \in Regions, Change(u, r)
         PROVE  TypeOK'
    <3>1. access' \in [Users -> [Regions -> {"granted", "none"}]]
      BY <2>11 DEF Change, TypeOK
    <3>2. since' \in [Users -> [Regions -> 0..Horizon]]
      BY <2>11, HorizonType DEF Change, TypeOK
    <3>3. \A c \in Callers : callers[c] # None => [callers[c] EXCEPT !.was[r] = None] \in Caller
      BY DEF TypeOK, Caller
    <3>4. callers' \in [Callers -> Caller \cup {None}]
      BY <2>11, <3>3 DEF Change, TypeOK
    <3> QED BY <2>11, <3>1, <3>2, <3>4 DEF Change, TypeOK
  <2>12. CASE Pass
    <3>1. since' \in [Users -> [Regions -> 0..Horizon]]
      <4>1. \A u \in Users, r \in Regions : Lesser(since[u][r] + 1, Horizon) \in 0..Horizon
        <5> SUFFICES ASSUME NEW u \in Users, NEW r \in Regions
                     PROVE  Lesser(since[u][r] + 1, Horizon) \in 0..Horizon
          OBVIOUS
        <5>1. since[u][r] + 1 \in Nat
          BY HorizonType DEF TypeOK
        <5> QED BY <5>1, HorizonType, LesserType
      <4> QED BY <2>12, <4>1 DEF Pass, Aged
    <3>2. \A u \in Users : entries[u] # None =>
            [entries[u] EXCEPT !.age = Lesser(@ + 1, TTL + 1)] \in Entry
      <4> SUFFICES ASSUME NEW u \in Users, entries[u] # None
                   PROVE  [entries[u] EXCEPT !.age = Lesser(@ + 1, TTL + 1)] \in Entry
        OBVIOUS
      <4>1. entries[u] \in Entry /\ entries[u].age + 1 \in Nat /\ TTL + 1 \in Nat
        BY ScopeConstants DEF TypeOK, Entry
      <4>2. Lesser(entries[u].age + 1, TTL + 1) \in 0..(TTL + 1)
        BY <4>1, LesserType
      <4> QED BY <4>1, <4>2 DEF Entry
    <3>3. entries' \in [Users -> Entry \cup {None}]
      BY <2>12, <3>2 DEF Pass, Aged, TypeOK
    <3>4. \A u \in Users : Flying(u, "query") =>
            [flight[u] EXCEPT !.elapsed = @ + 1] \in Flight
      BY <2>12, FlightShape, ScopeConstants DEF Pass, Flight
    <3>5. flight' \in [Users -> Flight \cup {None}]
      BY <2>12, <3>4 DEF Pass, Aged, TypeOK
    <3> QED BY <2>12, <3>1, <3>3, <3>5 DEF Pass, TypeOK
  <2>13. CASE UNCHANGED vars
    BY <2>13 DEF vars, TypeOK
  <2> QED BY <2>1, <2>2, <2>3, <2>4, <2>5, <2>6, <2>7, <2>8, <2>9, <2>10, <2>11, <2>12,
             <2>13 DEF Next, CallerStep, FlightStep
<1> QED BY <1>1, <1>2, PTL DEF Spec
-----------------------------------------------------------------------------
(* Propagation *)

\* What was heard of the regions of u is right, or changed at most t ago.
Right(u, says, t) ==
  \A r \in Regions : says[r] \in {"failed", access[u][r]} \/ since[u][r] <= t

\* An entry aged by its age and by the sweep that made it.
EntriesRight ==
  \A u \in Users : entries[u] # None =>
    Right(u, entries[u].says, entries[u].age + QueryTimeout)

\* A sweep has heard nothing before it asks, and then nothing older than itself.
SweepsRight ==
  \A u \in Users, r \in Regions :
    /\ Flying(u, "check") => flight[u].heard[r] = None
    /\ Flying(u, "query") =>
         flight[u].heard[r] \in {None, "failed", access[u][r]} \/ since[u][r] <= flight[u].elapsed

\* What a flight hands over is younger than the horizon.
FindsRight ==
  \A u \in Users : Flying(u, "found") => Right(u, flight[u].got, Horizon - 1)

\* What a caller counts on still holds while it waits, and has held long.
CountsRight ==
  \A c \in Callers : callers[c] # None =>
    \A r \in Regions : callers[c].was[r] # None =>
      LET u == callers[c].user IN
      /\ callers[c].was[r] = access[u][r]
      /\ callers[c].kind = "plain" => since[u][r] = Horizon

PropagationInv ==
  TypeOK /\ EntriesRight /\ SweepsRight /\ FindsRight /\ CountsRight /\ Propagation

\* Every invariant survives a step that leaves the answers where they are.
LEMMA KeepsRight ==
  ASSUME PropagationInv, TypeOK', UNCHANGED <<access, since>>
  PROVE  /\ UNCHANGED entries => EntriesRight'
         /\ UNCHANGED flight => SweepsRight' /\ FindsRight'
         /\ UNCHANGED callers => CountsRight' /\ Propagation'
BY DEF PropagationInv, EntriesRight, SweepsRight, FindsRight, CountsRight, Propagation,
       Agrees, At, Right, Flying

\* A fresh entry is younger than the horizon.
LEMMA FreshIsRight ==
  ASSUME PropagationInv, NEW u \in Users, Fresh(u)
  PROVE  Right(u, entries[u].says, Horizon - 1)
<1>1. entries[u] # None /\ entries[u] \in Entry /\ entries[u].age < TTL
  BY DEF Fresh, PropagationInv, TypeOK
<1>2. entries[u].age + QueryTimeout <= Horizon - 1
  BY <1>1, ScopeConstants DEF Entry, Horizon
<1>3. \A r \in Regions : since[u][r] \in 0..Horizon
  BY DEF PropagationInv, TypeOK
<1>4. Right(u, entries[u].says, entries[u].age + QueryTimeout)
  BY <1>1 DEF PropagationInv, EntriesRight
<1>5. entries[u].age + QueryTimeout \in Nat /\ Horizon - 1 \in Nat
  BY <1>1, ScopeConstants, HorizonType DEF Entry
<1> QED BY <1>2, <1>3, <1>4, <1>5 DEF Right

\* An answer younger than the horizon agrees with what an ordinary caller counts on.
LEMMA RightAgrees ==
  ASSUME PropagationInv, NEW c \in Callers, callers[c] # None, callers[c].kind = "plain",
         NEW says, Right(callers[c].user, says, Horizon - 1)
  PROVE  \A r \in Regions : callers[c].was[r] # None => says[r] \in {callers[c].was[r], "failed"}
<1> SUFFICES ASSUME NEW r \in Regions, callers[c].was[r] # None
             PROVE  says[r] \in {callers[c].was[r], "failed"}
  OBVIOUS
<1> DEFINE u == callers[c].user
<1>1. callers[c].was[r] = access[u][r] /\ since[u][r] = Horizon
  BY DEF PropagationInv, CountsRight
<1>2. ~(since[u][r] <= Horizon - 1)
  BY <1>1, HorizonType
<1> QED BY <1>1, <1>2 DEF Right

\* Access propagates: after a TTL and a query's timeout nobody who asks is
\* answered with the access of before, through an entry, a second look or a
\* flight that another caller started.
THEOREM AccessPropagates == Spec => []Propagation
<1>1. Init => PropagationInv
  <2> SUFFICES ASSUME Init PROVE PropagationInv
    OBVIOUS
  <2>1. TypeOK
    BY HorizonType DEF Init, TypeOK
  <2> QED BY <2>1 DEF Init, PropagationInv, EntriesRight, SweepsRight, FindsRight, CountsRight,
                      Propagation, Flying
<1>2. PropagationInv /\ TypeOK' /\ [Next]_vars => PropagationInv'
  <2> SUFFICES ASSUME PropagationInv, TypeOK', [Next]_vars PROVE PropagationInv'
    OBVIOUS
  <2> USE DEF PropagationInv
  <2>1. ASSUME NEW c \in Callers, NEW u \in Users, Call(c, u)
        PROVE  PropagationInv'
    <3>1. CountsRight'
      BY <2>1 DEF Call, CountsRight, LongKnown, TypeOK
    <3>2. Propagation'
      BY <2>1 DEF Call, Propagation, Agrees, At, TypeOK
    <3> QED BY <2>1, <3>1, <3>2, KeepsRight DEF Call
  <2>2. ASSUME NEW c \in Callers, NEW u \in Users, Refresh(c, u)
        PROVE  PropagationInv'
    <3>1. CountsRight'
      BY <2>2 DEF Refresh, CountsRight, TypeOK
    <3>2. Propagation'
      BY <2>2 DEF Refresh, Propagation, Agrees, At, TypeOK
    <3>3. EntriesRight'
      BY <2>2 DEF Refresh, EntriesRight, Right, TypeOK
    <3> QED BY <2>2, <3>1, <3>2, <3>3, KeepsRight DEF Refresh
  <2>3. ASSUME NEW c \in Callers, LookUp(c)
        PROVE  PropagationInv'
    <3> DEFINE u == callers[c].user
    <3>1. callers[c] \in Caller /\ u \in Users /\ callers[c] # None
      BY <2>3 DEF LookUp, At, TypeOK, Caller
    <3>2. CountsRight'
      BY <2>3, <3>1 DEF LookUp, CountsRight, TypeOK, Caller
    <3>3. Propagation'
      <4> SUFFICES ASSUME NEW d \in Callers, callers'[d] # None, callers'[d].kind = "plain", At(d, "done")',
                          NEW r \in Regions, callers'[d].was[r] # None
                   PROVE  callers'[d].got[r] \in {callers'[d].was[r], "failed"}
        BY DEF Propagation, Agrees
      <4>1. CASE d # c
        <5>1. callers'[d] = callers[d]
          BY <2>3, <4>1, <3>1 DEF LookUp, TypeOK
        <5> QED BY <5>1 DEF Propagation, Agrees, At
      <4>2. CASE d = c
        <5>1. Fresh(u) /\ callers'[c] = [callers[c] EXCEPT !.stage = "done", !.got = entries[u].says]
          BY <2>3, <4>2, <3>1 DEF LookUp, At, TypeOK, Caller
        <5>2. Right(u, entries[u].says, Horizon - 1)
          BY <5>1, <3>1, FreshIsRight
        <5>3. callers[c].kind = "plain" /\ callers'[c].was = callers[c].was /\ callers'[c].got = entries[u].says
          BY <4>2, <5>1, <3>1 DEF Caller
        <5> QED BY <4>2, <5>2, <5>3, <3>1, RightAgrees
      <4> QED BY <4>1, <4>2
    <3> QED BY <2>3, <3>2, <3>3, KeepsRight DEF LookUp
  <2>4. ASSUME NEW c \in Callers, Join(c)
        PROVE  PropagationInv'
    <3>1. callers[c] \in Caller /\ callers[c].user \in Users /\ callers[c] # None
      BY <2>4 DEF Join, At, TypeOK, Caller
    <3>2. CountsRight'
      BY <2>4, <3>1 DEF Join, CountsRight, TypeOK, Caller
    <3>3. Propagation'
      BY <2>4, <3>1 DEF Join, Propagation, Agrees, At, TypeOK, Caller
    <3>4. SweepsRight' /\ FindsRight'
      BY <2>4, <3>1 DEF Join, SweepsRight, FindsRight, Flying, Right, TypeOK
    <3> QED BY <2>4, <3>2, <3>3, <3>4, KeepsRight DEF Join
  <2>5. ASSUME NEW u \in Users, Recheck(u)
        PROVE  PropagationInv'
    <3>1. \A v \in Users : v # u => flight'[v] = flight[v]
      BY <2>5 DEF Recheck, Found, TypeOK
    <3>2. CASE Fresh(u)
      <4>1. flight'[u] = [stage |-> "found", got |-> entries[u].says]
        BY <2>5, <3>2 DEF Recheck, Found, TypeOK
      <4>2. Right(u, entries[u].says, Horizon - 1)
        BY <3>2, FreshIsRight
      <4>3. SweepsRight' /\ FindsRight'
        BY <2>5, <3>1, <4>1, <4>2 DEF Recheck, SweepsRight, FindsRight, Flying, Right
      <4> QED BY <2>5, <4>3, KeepsRight DEF Recheck
    <3>3. CASE ~Fresh(u)
      <4>1. flight[u] \in [stage: {"check", "query"}, heard: [Regions -> Says \cup {None}],
                           elapsed: 0..QueryTimeout] /\ Flying(u, "check")
        BY <2>5, FlightShape DEF Recheck
      <4>2. flight'[u] = [flight[u] EXCEPT !.stage = "query"]
        BY <2>5, <3>3 DEF Recheck, TypeOK
      <4>3. flight'[u].stage = "query" /\ flight'[u].heard = flight[u].heard
        BY <4>1, <4>2
      <4>4. SweepsRight' /\ FindsRight'
        BY <2>5, <3>1, <4>1, <4>3 DEF Recheck, SweepsRight, FindsRight, Flying, Right
      <4> QED BY <2>5, <4>4, KeepsRight DEF Recheck
    <3> QED BY <3>2, <3>3
  <2>6. ASSUME NEW u \in Users, NEW r \in Regions, Hear(u, r)
        PROVE  PropagationInv'
    <3>1. PICK answer \in {access[u][r], "failed"} :
            flight' = [flight EXCEPT ![u].heard[r] = answer]
      BY <2>6 DEF Hear
    <3>2. flight[u] \in [stage: {"check", "query"}, heard: [Regions -> Says \cup {None}],
                         elapsed: 0..QueryTimeout] /\ flight[u].stage = "query"
      BY <2>6, FlightShape DEF Hear, Flying
    <3>3. flight'[u].stage = "query" /\ flight'[u].elapsed = flight[u].elapsed
          /\ flight'[u].heard = [flight[u].heard EXCEPT ![r] = answer]
      BY <3>1, <3>2 DEF TypeOK
    <3>4. \A v \in Users : v # u => flight'[v] = flight[v]
      BY <3>1 DEF TypeOK
    <3>5. SweepsRight'
      BY <2>6, <3>2, <3>3, <3>4 DEF Hear, SweepsRight, Flying
    <3>6. FindsRight'
      BY <2>6, <3>3, <3>4 DEF Hear, FindsRight, Flying, Right
    <3> QED BY <2>6, <3>5, <3>6, KeepsRight DEF Hear
  <2>7. ASSUME NEW u \in Users, Conclude(u)
        PROVE  PropagationInv'
    <3>1. /\ flight[u].elapsed \in 0..QueryTimeout
          /\ \A r \in Regions : flight[u].heard[r] \in {"failed", access[u][r]}
                                \/ since[u][r] <= flight[u].elapsed
      BY <2>7, FlightShape DEF Conclude, AllHeard, SweepsRight
    <3>2. \A r \in Regions : since[u][r] \in 0..Horizon
      BY DEF TypeOK
    <3>3. Right(u, flight[u].heard, QueryTimeout) /\ Right(u, flight[u].heard, Horizon - 1)
      BY <3>1, <3>2, ScopeConstants, HorizonType DEF Right
    <3>4. flight'[u] = [stage |-> "found", got |-> flight[u].heard]
          /\ \A v \in Users : v # u => flight'[v] = flight[v]
      BY <2>7 DEF Conclude, Found, TypeOK
    <3>5. SweepsRight' /\ FindsRight'
      BY <2>7, <3>3, <3>4 DEF Conclude, SweepsRight, FindsRight, Flying, Right
    <3>6. EntriesRight'
      <4>1. CASE UNCHANGED entries
        BY <2>7, <4>1, KeepsRight DEF Conclude
      <4>2. CASE Store(u)
        <5>1. entries'[u] = [says |-> flight[u].heard, age |-> 0]
              /\ \A v \in Users : v # u => entries'[v] = entries[v]
          BY <4>2 DEF Store, TypeOK
        <5>2. 0 + QueryTimeout = QueryTimeout
          BY ScopeConstants
        <5> QED BY <2>7, <3>3, <5>1, <5>2 DEF Conclude, EntriesRight, Right
      <4> QED BY <2>7, <4>1, <4>2 DEF Conclude
    <3> QED BY <2>7, <3>5, <3>6, KeepsRight DEF Conclude
  <2>8. ASSUME NEW u \in Users, Deliver(u)
        PROVE  PropagationInv'
    <3>1. Right(u, flight[u].got, Horizon - 1)
      BY <2>8 DEF Deliver, FindsRight
    <3> DEFINE Waits(c) == At(c, "wait") /\ callers[c].user = u
    <3>2. ASSUME NEW c \in Callers
          PROVE  /\ Waits(c) => callers'[c] = [callers[c] EXCEPT !.stage = "done", !.got = flight[u].got]
                 /\ ~Waits(c) => callers'[c] = callers[c]
      BY <2>8 DEF Deliver
    <3>3. ASSUME NEW c \in Callers, callers'[c] # None
          PROVE  /\ callers[c] # None /\ callers'[c].kind = callers[c].kind
                 /\ callers'[c].user = callers[c].user /\ callers'[c].was = callers[c].was
                 /\ Waits(c) => callers'[c].got = flight[u].got
      <4>1. CASE Waits(c)
        <5>1. callers[c] # None /\ callers[c] \in Caller
          BY <4>1 DEF At, TypeOK
        <5> QED BY <3>2, <4>1, <5>1 DEF Caller
      <4>2. CASE ~Waits(c)
        BY <3>2, <3>3, <4>2
      <4> QED BY <4>1, <4>2
    <3>4. CountsRight'
      <4>1. \A c \in Callers : callers'[c] # None =>
              /\ callers[c] # None /\ callers'[c].kind = callers[c].kind
              /\ callers'[c].user = callers[c].user /\ callers'[c].was = callers[c].was
        BY <3>3
      <4>2. access' = access /\ since' = since
        BY <2>8 DEF Deliver
      <4> QED BY <4>1, <4>2 DEF CountsRight
    <3>5. Propagation'
      <4> SUFFICES ASSUME NEW c \in Callers, callers'[c] # None, callers'[c].kind = "plain", At(c, "done")',
                          NEW r \in Regions, callers'[c].was[r] # None
                   PROVE  callers'[c].got[r] \in {callers'[c].was[r], "failed"}
        BY DEF Propagation, Agrees
      <4>1. CASE At(c, "wait") /\ callers[c].user = u
        BY <3>1, <3>3, <4>1, RightAgrees
      <4>2. CASE ~(At(c, "wait") /\ callers[c].user = u)
        <5>1. callers'[c] = callers[c]
          BY <3>2, <4>2
        <5> QED BY <5>1 DEF Propagation, Agrees, At
      <4> QED BY <4>1, <4>2
    <3>6. SweepsRight' /\ FindsRight'
      BY <2>8 DEF Deliver, SweepsRight, FindsRight, Flying, Right, TypeOK
    <3> QED BY <2>8, <3>4, <3>5, <3>6, KeepsRight DEF Deliver
  <2>9. ASSUME NEW c \in Callers, Return(c)
        PROVE  PropagationInv'
    <3>1. CountsRight' /\ Propagation'
      BY <2>9 DEF Return, CountsRight, Propagation, Agrees, At, TypeOK
    <3> QED BY <2>9, <3>1, KeepsRight DEF Return
  <2>10. ASSUME NEW u \in Users, Evict(u)
         PROVE  PropagationInv'
    <3>1. EntriesRight'
      BY <2>10 DEF Evict, EntriesRight, Right, TypeOK
    <3> QED BY <2>10, <3>1, KeepsRight DEF Evict
  <2>11. ASSUME NEW u \in Users, NEW r \in Regions, Change(u, r)
         PROVE  PropagationInv'
    <3>1. \A v \in Users, q \in Regions :
            IF v = u /\ q = r THEN since'[v][q] = 0
            ELSE since'[v][q] = since[v][q] /\ access'[v][q] = access[v][q]
      BY <2>11 DEF Change, TypeOK
    <3>2. EntriesRight'
      <4> SUFFICES ASSUME NEW v \in Users, entries[v] # None
                   PROVE  Right(v, entries[v].says, entries[v].age + QueryTimeout)'
        BY <2>11 DEF Change, EntriesRight, Right
      <4>1. 0 <= entries[v].age + QueryTimeout
        BY ScopeConstants DEF TypeOK, Entry
      <4> QED BY <2>11, <3>1, <4>1 DEF Change, EntriesRight, Right
    <3>3. SweepsRight'
      <4>1. \A v \in Users : Flying(v, "query") => 0 <= flight[v].elapsed
        BY FlightShape, ScopeConstants
      <4> QED BY <2>11, <3>1, <4>1 DEF Change, SweepsRight, Flying
    <3>4. FindsRight'
      <4>1. 0 <= Horizon - 1
        BY HorizonType, ScopeConstants
      <4> QED BY <2>11, <3>1, <4>1 DEF Change, FindsRight, Right, Flying
    <3>5. \A c \in Callers : callers'[c] # None =>
            /\ callers[c] # None /\ callers'[c].user = callers[c].user
            /\ callers'[c].kind = callers[c].kind /\ callers'[c].got = callers[c].got
            /\ callers'[c].stage = callers[c].stage
            /\ \A q \in Regions : callers'[c].was[q] # None =>
                 callers'[c].was[q] = callers[c].was[q] /\ ~(callers[c].user = u /\ q = r)
      <4> SUFFICES ASSUME NEW c \in Callers, callers'[c] # None
                   PROVE  /\ callers[c] # None /\ callers'[c].user = callers[c].user
                          /\ callers'[c].kind = callers[c].kind /\ callers'[c].got = callers[c].got
                          /\ callers'[c].stage = callers[c].stage
                          /\ \A q \in Regions : callers'[c].was[q] # None =>
                               callers'[c].was[q] = callers[c].was[q] /\ ~(callers[c].user = u /\ q = r)
        OBVIOUS
      <4>1. callers[c] # None /\ callers[c] \in Caller
        BY <2>11 DEF Change, TypeOK
      <4>2. callers'[c] = IF callers[c].user = u
                          THEN [callers[c] EXCEPT !.was = [@ EXCEPT ![r] = None]] ELSE callers[c]
        BY <2>11, <4>1 DEF Change
      <4> QED BY <4>1, <4>2 DEF Caller
    <3>6. CountsRight'
      <4>1. \A c \in Callers : callers[c] # None => callers[c].user \in Users
        BY DEF TypeOK, Caller
      <4> QED BY <3>1, <3>5, <4>1 DEF CountsRight
    <3>7. Propagation'
      BY <3>5 DEF Propagation, Agrees, At
    <3> QED BY <3>2, <3>3, <3>4, <3>6, <3>7
  <2>12. CASE Pass
    <3>1. \A u \in Users, r \in Regions :
            /\ since[u][r] \in 0..Horizon
            /\ since'[u][r] <= since[u][r] + 1
            /\ since'[u][r] <= Horizon
            /\ since[u][r] = Horizon => since'[u][r] = Horizon
      <4> SUFFICES ASSUME NEW u \in Users, NEW r \in Regions
                   PROVE  /\ since[u][r] \in 0..Horizon
                          /\ since'[u][r] <= since[u][r] + 1
                          /\ since'[u][r] <= Horizon
                          /\ since[u][r] = Horizon => since'[u][r] = Horizon
        OBVIOUS
      <4>1. since[u][r] \in 0..Horizon
        BY DEF TypeOK
      <4>2. since'[u][r] = Lesser(since[u][r] + 1, Horizon)
        BY <2>12 DEF Pass, Aged
      <4> QED BY <4>1, <4>2, HorizonType DEF Lesser
    <3>2. EntriesRight'
      <4> SUFFICES ASSUME NEW u \in Users, entries'[u] # None
                   PROVE  Right(u, entries[u].says, entries[u].age + QueryTimeout)'
        BY DEF EntriesRight
      <4>1. entries[u] # None /\ entries[u] \in Entry
            /\ entries'[u] = [entries[u] EXCEPT !.age = Lesser(@ + 1, TTL + 1)]
        BY <2>12 DEF Pass, Aged, TypeOK
      <4>2. entries'[u].says = entries[u].says /\ entries'[u].age = Lesser(entries[u].age + 1, TTL + 1)
            /\ entries[u].age \in Nat
        BY <4>1, ScopeConstants DEF Entry
      <4>3. \/ entries'[u].age + QueryTimeout = entries[u].age + QueryTimeout + 1
            \/ entries'[u].age + QueryTimeout >= Horizon
        BY <4>2, ScopeConstants DEF Lesser, Horizon
      <4>4. Right(u, entries[u].says, entries[u].age + QueryTimeout)
        BY <4>1 DEF EntriesRight
      <4>5. entries'[u].age \in Nat /\ access' = access
        BY <2>12, <4>2, ScopeConstants DEF Lesser, Pass
      <4>6. ASSUME NEW r \in Regions
            PROVE  entries'[u].says[r] \in {"failed", access'[u][r]}
                   \/ since'[u][r] <= entries'[u].age + QueryTimeout
        <5>1. since[u][r] \in Nat /\ since'[u][r] \in Nat
          BY <3>1 DEF TypeOK
        <5>2. CASE since[u][r] <= entries[u].age + QueryTimeout
          BY <3>1, <4>2, <4>3, <4>5, <5>1, <5>2, ScopeConstants, HorizonType
        <5>3. CASE entries[u].says[r] \in {"failed", access[u][r]}
          BY <4>2, <4>5, <5>3
        <5> QED BY <4>4, <5>2, <5>3 DEF Right
      <4> QED BY <4>6 DEF Right
    <3>3. SweepsRight'
      <4> SUFFICES ASSUME NEW u \in Users, NEW r \in Regions
                   PROVE  (/\ Flying(u, "check") => flight[u].heard[r] = None
                           /\ Flying(u, "query") =>
                                flight[u].heard[r] \in {None, "failed", access[u][r]}
                                \/ since[u][r] <= flight[u].elapsed)'
        BY DEF SweepsRight
      <4>1. CASE Flying(u, "query")
        <5>1. flight[u] \in [stage: {"check", "query"}, heard: [Regions -> Says \cup {None}],
                             elapsed: 0..QueryTimeout] /\ flight[u].stage = "query"
          BY <4>1, FlightShape DEF Flying
        <5>2. flight'[u] = [flight[u] EXCEPT !.elapsed = @ + 1]
          BY <2>12, <4>1 DEF Pass, Aged
        <5>3. flight'[u].stage = "query" /\ flight'[u].heard = flight[u].heard
              /\ flight'[u].elapsed = flight[u].elapsed + 1 /\ flight[u].elapsed \in Nat
          BY <5>1, <5>2, ScopeConstants
        <5>4. since[u][r] \in Nat /\ since'[u][r] \in Nat /\ access' = access
          BY <2>12, <3>1 DEF TypeOK, Pass
        <5>5. CASE since[u][r] <= flight[u].elapsed
          <6>1. since'[u][r] <= flight'[u].elapsed
            BY <3>1, <5>3, <5>4, <5>5
          <6> QED BY <5>3, <6>1 DEF Flying
        <5>6. CASE flight[u].heard[r] \in {None, "failed", access[u][r]}
          BY <5>3, <5>4, <5>6 DEF Flying
        <5> QED BY <4>1, <5>5, <5>6 DEF SweepsRight
      <4>2. CASE ~Flying(u, "query")
        <5>1. flight'[u] = flight[u]
          BY <2>12, <4>2 DEF Pass, Aged
        <5> QED BY <4>2, <5>1 DEF SweepsRight, Flying
      <4> QED BY <4>1, <4>2
    <3>4. FindsRight'
      <4> SUFFICES ASSUME NEW u \in Users PROVE ~Flying(u, "found")'
        BY DEF FindsRight
      <4>1. ~Flying(u, "found")
        BY <2>12 DEF Pass
      <4>2. CASE Flying(u, "query")
        <5>1. flight'[u] = [flight[u] EXCEPT !.elapsed = @ + 1]
          BY <2>12, <4>2 DEF Pass, Aged
        <5>2. flight'[u].stage = "query"
          BY <4>2, <5>1, FlightShape DEF Flying
        <5> QED BY <5>2 DEF Flying
      <4>3. CASE ~Flying(u, "query")
        BY <2>12, <4>1, <4>3 DEF Pass, Aged, Flying
      <4> QED BY <4>2, <4>3
    <3>5. CountsRight'
      <4>1. \A c \in Callers : callers[c] # None => callers[c].user \in Users
        BY DEF TypeOK, Caller
      <4> QED BY <2>12, <3>1, <4>1 DEF Pass, CountsRight
    <3>6. Propagation'
      BY <2>12 DEF Pass, Propagation, Agrees, At
    <3> QED BY <3>2, <3>3, <3>4, <3>5, <3>6
  <2>13. CASE UNCHANGED vars
    BY <2>13, KeepsRight DEF vars
  <2> QED BY <2>1, <2>2, <2>3, <2>4, <2>5, <2>6, <2>7, <2>8, <2>9, <2>10, <2>11, <2>12,
             <2>13 DEF Next, CallerStep, FlightStep
<1>3. PropagationInv => Propagation
  BY DEF PropagationInv
<1> QED BY <1>1, <1>2, <1>3, ScopeTypeCorrect, PTL DEF Spec
=============================================================================
