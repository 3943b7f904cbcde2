---------------------------- MODULE AlertsProofs ----------------------------
(***************************************************************************)
(* Alerts' types, that a failure never leaves an alert silenced, that no     *)
(* alert passes its cooldown early, and that a batch spends its budget on    *)
(* the worst of its window, for any number of channels, alerts and jobs.     *)
(***************************************************************************)
EXTENDS Alerts, FiniteSetTheorems, TLAPS

-----------------------------------------------------------------------------
(* A budget spent in a strict total order *)

\* Of a finite set in a strict total order, those with less than m before them are
\* at most m, exactly m when any is left out, and all of them before those left out.
LEMMA SpentInOrder ==
  ASSUME NEW S, IsFiniteSet(S), NEW before \in [S -> SUBSET S], NEW m \in Nat \ {0},
         \A a \in S : a \notin before[a],
         \A a, b \in S : a = b \/ a \in before[b] \/ b \in before[a],
         \A a, b \in S : a \in before[b] => before[a] \subseteq before[b],
         NEW taken \in SUBSET S, \A a \in S : a \in taken <=> Cardinality(before[a]) < m
  PROVE  /\ Cardinality(taken) <= m
         /\ taken # S => Cardinality(taken) = m
         /\ \A a \in taken, s \in S \ taken : a \in before[s]
<1>0. /\ \A a \in S : IsFiniteSet(before[a]) /\ Cardinality(before[a]) \in Nat
      /\ IsFiniteSet(taken) /\ Cardinality(taken) \in Nat
  BY FS_Subset, FS_CardinalityType
<1>1. \A a, b \in S : a \in before[b] => Cardinality(before[a]) < Cardinality(before[b])
  <2> SUFFICES ASSUME NEW a \in S, NEW b \in S, a \in before[b]
               PROVE  Cardinality(before[a]) < Cardinality(before[b])
    OBVIOUS
  <2>1. before[a] \subseteq before[b] /\ before[a] # before[b]
    OBVIOUS
  <2> QED BY <1>0, <2>1, FS_Subset
<1>2. IsWellFoundedOn(StrictSubsetOrdering(S), FiniteSubsetsOf(S))
  BY FS_StrictSubsetOrderingWellFounded
<1>3. Cardinality(taken) <= m
  <2>1. CASE taken = {}
    BY <2>1, FS_EmptySet
  <2>2. CASE taken # {}
    \* The last of those taken has the fewest that are not before it.
    <3> DEFINE Rest == {S \ before[a] : a \in taken}
    <3>1. Rest \subseteq FiniteSubsetsOf(S) /\ Rest # {}
      <4>1. \A a \in taken : S \ before[a] \in SUBSET S
        OBVIOUS
      <4>2. \A T \in SUBSET S : IsFiniteSet(T)
        BY FS_Subset
      <4>3. \A a \in taken : S \ before[a] \in FiniteSubsetsOf(S)
        BY <4>1, <4>2 DEF FiniteSubsetsOf
      <4>4. Rest \subseteq FiniteSubsetsOf(S)
        <5> SUFFICES ASSUME NEW r \in Rest PROVE r \in FiniteSubsetsOf(S)
          OBVIOUS
        <5>1. PICK a \in taken : r = S \ before[a]
          OBVIOUS
        <5> QED BY <4>3, <5>1
      <4>5. PICK a \in taken : TRUE
        BY <2>2
      <4>6. S \ before[a] \in Rest
        BY <4>5, Zenon
      <4> QED BY <4>4, <4>6
    <3>2. PICK r \in Rest : \A q \in Rest : <<q, r>> \notin StrictSubsetOrdering(S)
      <4> HIDE DEF Rest
      <4> QED BY <1>2, <3>1, WFMin
    <3>3. PICK last \in taken : r = S \ before[last]
      BY <3>2
    <3>4. taken \subseteq before[last] \cup {last}
      <4> SUFFICES ASSUME NEW a \in taken, a # last, a \notin before[last] PROVE FALSE
        OBVIOUS
      <4>1. last \in before[a] /\ before[last] \subseteq before[a]
        OBVIOUS
      <4>2. S \ before[a] \subseteq r /\ S \ before[a] # r /\ S \ before[a] \in Rest
        BY <3>3, <4>1
      <4>3. <<S \ before[a], r>> \in StrictSubsetOrdering(S)
        BY <3>3, <4>2 DEF StrictSubsetOrdering
      <4> QED BY <3>2, <4>2, <4>3
    <3>5. /\ IsFiniteSet(before[last] \cup {last})
          /\ Cardinality(before[last] \cup {last}) = Cardinality(before[last]) + 1
      BY <1>0, FS_AddElement
    <3>6. Cardinality(taken) <= Cardinality(before[last]) + 1
      BY <3>4, <3>5, FS_Subset
    <3> QED BY <1>0, <3>6
  <2> QED BY <2>1, <2>2
<1>4. ASSUME taken # S PROVE Cardinality(taken) = m
  \* The first of those left out has only taken ones before it.
  <2> DEFINE Befores == {before[a] : a \in S \ taken}
  <2>1. Befores \subseteq FiniteSubsetsOf(S) /\ Befores # {}
    BY <1>0, <1>4 DEF FiniteSubsetsOf
  <2>2. PICK r \in Befores : \A q \in Befores : <<q, r>> \notin StrictSubsetOrdering(S)
    <3> HIDE DEF Befores
    <3> QED BY <1>2, <2>1, WFMin
  <2>3. PICK first \in S \ taken : r = before[first]
    BY <2>2
  <2>4. before[first] \subseteq taken
    <3> SUFFICES ASSUME NEW a \in before[first], a \notin taken PROVE FALSE
      OBVIOUS
    <3>1. before[a] \subseteq r /\ before[a] # r /\ before[a] \in Befores
      BY <2>3
    <3>2. <<before[a], r>> \in StrictSubsetOrdering(S)
      BY <2>3, <3>1 DEF StrictSubsetOrdering
    <3> QED BY <2>2, <3>1, <3>2
  <2>5. Cardinality(before[first]) <= Cardinality(taken)
    BY <1>0, <2>4, FS_Subset
  <2> QED BY <1>0, <1>3, <2>5
<1>5. ASSUME NEW a \in taken, NEW s \in S \ taken PROVE a \in before[s]
  <2>1. s \notin before[a]
    BY <1>0, <1>1
  <2> QED BY <2>1
<1> QED BY <1>3, <1>4, <1>5

-----------------------------------------------------------------------------
(* Types *)

LEMMA LesserType == \A m, n \in Nat : Lesser(m, n) \in Nat /\ Lesser(m, n) <= n /\ Lesser(m, n) <= m
BY DEF Lesser

LEMMA LouderType == \A p \in Buffered : Louder(p) \in Buffered /\ Louder(p).seen = p.seen
                                        /\ Louder(p).rank = p.rank
<1> SUFFICES ASSUME NEW p \in Buffered
             PROVE  Louder(p) \in Buffered /\ Louder(p).seen = p.seen /\ Louder(p).rank = p.rank
  OBVIOUS
<1>1. p.repeat \in 1..MaxRepeat /\ MaxRepeat \in Nat \ {0}
  BY AlertConstants DEF Buffered
<1>2. Lesser(p.repeat + 1, MaxRepeat) \in 1..MaxRepeat
  BY <1>1 DEF Lesser
<1> QED BY <1>2 DEF Louder, Buffered

LEMMA WindowIsFinite ==
  ASSUME NEW c \in Channels
  PROVE  /\ IsFiniteSet(InWindow(c)) /\ Cardinality(InWindow(c)) \in Nat
         /\ \A k : IsFiniteSet(Group(c, k)) /\ Group(c, k) \subseteq Alerts
<1>1. InWindow(c) \in SUBSET Alerts /\ \A k : Group(c, k) \in SUBSET Alerts
  BY DEF InWindow, Group
<1>2. IsFiniteSet(Alerts)
  BY AlertConstants
<1>3. \A T \in SUBSET Alerts : IsFiniteSet(T) /\ Cardinality(T) \in Nat
  BY <1>2, FS_Subset, FS_CardinalityType
<1> QED BY <1>1, <1>3

LEMMA BatchFields ==
  ASSUME NEW b \in Batch
  PROVE  /\ b \in [ch: Channels, inv: SUBSET Alerts, ctx: SUBSET Alerts, skip: SUBSET Alerts,
                   owner: Owners \cup {None}, stage: {"due", "queued", "running"}]
         /\ b.ch \in Channels /\ b.inv \subseteq Alerts
         /\ b.owner = None => b.stage = "due"
BY DEF Batch

\* What a tick emits is due, belongs to a channel whose window closes, and is about
\* something.
LEMMA EmittedType ==
  ASSUME TypeOK, NEW ord
  PROVE  /\ Emitted(ord) \subseteq Batch
         /\ \A b \in Emitted(ord) : b.stage = "due"
<1> SUFFICES ASSUME NEW b \in Emitted(ord) PROVE b \in Batch /\ b.stage = "due"
  OBVIOUS
<1>1. PICK p \in Closing \X Clusters :
        b = [ch |-> p[1], owner |-> None, stage |-> "due",
             inv |-> Subjects(ord, p[1], p[2]),
             ctx |-> {a \in Group(p[1], p[2]) : InBudget(p[1], a) /\ ~Fresh(ord, p[1], a)},
             skip |-> {a \in Group(p[1], p[2]) : ~InBudget(p[1], a)}]
  BY DEF Emitted
<1>2. p[1] \in Channels
  BY <1>1 DEF Closing
<1>3. Group(p[1], p[2]) \subseteq Alerts
  BY DEF Group, InWindow
<1>4. Subjects(ord, p[1], p[2]) \subseteq Alerts
  BY <1>3 DEF Subjects
<1> QED BY <1>1, <1>2, <1>3, <1>4 DEF Batch

\* A tick fills free places with what it emits and leaves the others alone.
LEMMA TickJobs ==
  ASSUME TypeOK, NEW ord \in Orders, NEW put \in Placements(ord), Tick(ord, put)
  PROVE  /\ DOMAIN put = Emitted(ord)
         /\ \A j \in Jobs \ Free : jobs'[j] = jobs[j]
         /\ \A j \in Free : jobs'[j] \in Emitted(ord) \cup {None}
         /\ \A b \in Emitted(ord) : put[b] \in Jobs /\ jobs'[put[b]] = b
         /\ jobs' \in [Jobs -> Batch \cup {None}]
<1>1. put \in [Emitted(ord) -> Free] /\ \A b, d \in Emitted(ord) : put[b] = put[d] => b = d
  BY DEF Placements
<1>2. jobs' = [j \in Jobs |-> IF \E b \in Emitted(ord) : put[b] = j
                              THEN CHOOSE b \in Emitted(ord) : put[b] = j ELSE jobs[j]]
  BY <1>1 DEF Tick
<1>3. Free \subseteq Jobs /\ \A j \in Free : jobs[j] = None
  BY DEF Free
<1>4. \A b \in Emitted(ord) : put[b] \in Jobs /\ jobs'[put[b]] = b
  BY <1>1, <1>2, <1>3
<1>5. \A j \in Jobs \ Free : jobs'[j] = jobs[j]
  BY <1>1, <1>2
<1>6. \A j \in Free : jobs'[j] \in Emitted(ord) \cup {None}
  BY <1>1, <1>2, <1>3
<1>7. jobs' \in [Jobs -> Batch \cup {None}]
  <2>1. \A j \in Jobs : jobs'[j] \in Batch \cup {None}
    BY <1>5, <1>6, EmittedType DEF TypeOK
  <2> QED BY <1>2, <2>1
<1> QED BY <1>1, <1>4, <1>5, <1>6, <1>7

\* Each alert a tick hands out is with the batch that names it, and waits for its fate.
LEMMA TickHistory ==
  ASSUME TypeOK, NEW ord \in Orders, NEW put \in Placements(ord), Tick(ord, put)
  PROVE  /\ by' \in [Alerts -> Jobs \cup {None}] /\ fate' \in [Alerts -> Fates]
         /\ \A a \in HandedOut(Emitted(ord)) \cap Alerts :
              /\ by'[a] \in Free /\ jobs'[by'[a]] \in Batch /\ a \in jobs'[by'[a]].inv
              /\ fate'[a] = "open"
         /\ \A a \in Alerts \ HandedOut(Emitted(ord)) :
              by'[a] = by[a] /\ fate'[a] = fate[a] /\ overtaken'[a] = overtaken[a]
<1> DEFINE B == Emitted(ord)
           batchOf(a) == CHOOSE b \in B : a \in b.inv
<1>1. DOMAIN put = B /\ \A b \in B : jobs'[put[b]] = b /\ b \in Batch
  BY TickJobs, EmittedType
<1>2. \A b \in B : put[b] \in Free
  BY DEF Placements
<1>3. \A a \in HandedOut(B) : batchOf(a) \in B /\ a \in batchOf(a).inv
  BY DEF HandedOut
<1>4. /\ by' = [a \in Alerts |-> IF a \in HandedOut(B) THEN put[batchOf(a)] ELSE by[a]]
      /\ fate' = [a \in Alerts |-> IF a \in HandedOut(B) THEN "open" ELSE fate[a]]
      /\ overtaken' = [a \in Alerts |-> a \notin HandedOut(B) /\ overtaken[a]]
  BY <1>1 DEF Tick
<1> HIDE DEF B, batchOf
<1>5. \A a \in HandedOut(B) \cap Alerts :
        /\ by'[a] \in Free /\ jobs'[by'[a]] \in Batch /\ a \in jobs'[by'[a]].inv
        /\ fate'[a] = "open"
  BY <1>1, <1>2, <1>3, <1>4
<1>6. \A a \in Alerts \ HandedOut(B) :
        by'[a] = by[a] /\ fate'[a] = fate[a] /\ overtaken'[a] = overtaken[a]
  BY <1>4 DEF TypeOK
<1>7. Free \subseteq Jobs
  BY DEF Free
<1>8. by' \in [Alerts -> Jobs \cup {None}] /\ fate' \in [Alerts -> Fates]
  BY <1>4, <1>5, <1>6, <1>7 DEF TypeOK, Fates
<1> QED BY <1>5, <1>6, <1>8 DEF B

\* The time elapsed since a hand-out, as the clock moves it on.
LEMMA PassTimes ==
  ASSUME TypeOK, Pass
  PROVE  /\ opened' \in [Channels -> Nat \cup {None}]
         /\ lastRun' \in [Alerts -> Nat \cup {None}] /\ quiet' \in [Alerts -> Nat]
         /\ \A a \in Alerts :
              /\ quiet'[a] = Lesser(quiet[a] + 1, Cooldown) /\ quiet'[a] # 0
              /\ lastRun'[a] = None <=> lastRun[a] = None
              /\ lastRun[a] # None => lastRun'[a] = Lesser(lastRun[a] + 1, Cooldown + 1)
<1>1. Cooldown \in Nat \ {0} /\ Window \in Nat \ {0} /\ None \notin Nat
  BY AlertConstants
<1>2. \A a \in Alerts : /\ quiet[a] \in Nat /\ lastRun[a] \in Nat \cup {None}
  BY DEF TypeOK
<1>3. \A c \in Channels : opened[c] \in Nat \cup {None}
  BY DEF TypeOK
<1>4. \A c \in Channels : (IF opened[c] = None THEN None ELSE Lesser(opened[c] + 1, Window))
                            \in Nat \cup {None}
  BY <1>1, <1>3 DEF Lesser
<1>5. \A a \in Alerts : (IF lastRun[a] = None THEN None ELSE Lesser(lastRun[a] + 1, Cooldown + 1))
                          \in Nat \cup {None}
  BY <1>1, <1>2 DEF Lesser
<1>6. \A a \in Alerts : Lesser(quiet[a] + 1, Cooldown) \in Nat \ {0}
  BY <1>1, <1>2 DEF Lesser
<1>7. \A a \in Alerts : lastRun[a] # None => Lesser(lastRun[a] + 1, Cooldown + 1) \in Nat
  BY <1>1, <1>2 DEF Lesser
<1> QED BY <1>1, <1>4, <1>5, <1>6, <1>7 DEF Pass

\* The end of a batch settles the fate of the alerts it was the last to be handed.
LEMMA OverTypes ==
  ASSUME TypeOK, NEW j \in Jobs, NEW how \in Fates, Over(j, how)
  PROVE  /\ jobs' \in [Jobs -> Batch \cup {None}] /\ jobs'[j] = None
         /\ \A i \in Jobs \ {j} : jobs'[i] = jobs[i]
         /\ by' \in [Alerts -> Jobs \cup {None}] /\ fate' \in [Alerts -> Fates]
         /\ \A a \in Alerts : by[a] = j => by'[a] = None /\ fate'[a] = how
         /\ \A a \in Alerts : by[a] # j => by'[a] = by[a] /\ fate'[a] = fate[a]
         /\ UNCHANGED <<marks, pending, opened, cancelled, quiet>>
BY DEF Over, TypeOK

THEOREM AlertsTypeCorrect == Spec => []TypeOK
<1>0. /\ Cooldown \in Nat \ {0} /\ Window \in Nat \ {0} /\ None \notin Nat
      /\ None \notin Owners
  BY AlertConstants
<1>1. Init => TypeOK
  <2> SUFFICES ASSUME Init PROVE TypeOK
    OBVIOUS
  <2>1. NoAlerts \in [Alerts -> Buffered \cup {None}]
    BY DEF NoAlerts
  <2>2. pending \in [Channels -> [Alerts -> Buffered \cup {None}]]
    BY <2>1 DEF Init
  <2>3. /\ opened \in [Channels -> Nat \cup {None}]
        /\ marks \in [Channels -> Owners \cup {None}]
        /\ lastRun \in [Alerts -> Nat \cup {None}]
    BY DEF Init
  <2>4. /\ jobs \in [Jobs -> Batch \cup {None}]
        /\ quiet \in [Alerts -> Nat] /\ by \in [Alerts -> Jobs \cup {None}]
        /\ fate \in [Alerts -> Fates] /\ overtaken \in [Alerts -> BOOLEAN]
        /\ cancelled \in BOOLEAN
    BY <1>0 DEF Init, Fates
  <2> QED BY <2>2, <2>3, <2>4 DEF TypeOK
<1>2. TypeOK /\ [Next]_vars => TypeOK'
  <2> SUFFICES ASSUME TypeOK, [Next]_vars PROVE TypeOK'
    OBVIOUS
  <2>1. ASSUME NEW c \in Channels, NEW o \in Owners, Mark(c, o) PROVE TypeOK'
    BY <2>1 DEF Mark, TypeOK, history
  <2>2. ASSUME NEW c \in Channels, Unmark(c) PROVE TypeOK'
    BY <2>2 DEF Unmark, TypeOK, history
  <2>3. ASSUME NEW c \in Channels, NEW a \in Alerts, NEW r \in Ranks, Ingest(c, a, r)
        PROVE  TypeOK'
    <3>1. [rank |-> r, repeat |-> 1, seen |-> Cardinality(InWindow(c))] \in Buffered
      BY WindowIsFinite, AlertConstants DEF Buffered
    <3>2. pending[c] \in [Alerts -> Buffered \cup {None}]
      BY DEF TypeOK
    <3>3. PICK p \in Buffered :
            p = IF pending[c][a] = None
                THEN [rank |-> r, repeat |-> 1, seen |-> Cardinality(InWindow(c))]
                ELSE Louder(pending[c][a])
      BY <3>1, <3>2, LouderType
    <3>4. pending' = [pending EXCEPT ![c][a] = p]
      BY <2>3, <3>3 DEF Ingest
    <3>5. pending' \in [Channels -> [Alerts -> Buffered \cup {None}]]
      BY <3>4 DEF TypeOK
    <3>6. opened' \in [Channels -> Nat \cup {None}]
      BY <2>3 DEF Ingest, TypeOK
    <3> QED BY <2>3, <3>5, <3>6 DEF Ingest, TypeOK, history
  <2>4. ASSUME NEW ord \in Orders, NEW put \in Placements(ord), Tick(ord, put) PROVE TypeOK'
    <3>1. jobs' \in [Jobs -> Batch \cup {None}]
      BY <2>4, TickJobs
    <3>2. pending' \in [Channels -> [Alerts -> Buffered \cup {None}]]
      BY <2>4 DEF Tick, NoAlerts, TypeOK
    <3>3. opened' \in [Channels -> Nat \cup {None}]
      BY <2>4 DEF Tick, TypeOK
    <3>4. lastRun' \in [Alerts -> Nat \cup {None}]
      BY <2>4 DEF Tick, Pruned, TypeOK
    <3>5. quiet' \in [Alerts -> Nat] /\ overtaken' \in [Alerts -> BOOLEAN]
      <4>1. \A a \in Alerts : (a \notin HandedOut(DOMAIN put) /\ overtaken[a]) \in BOOLEAN
        OBVIOUS
      <4> QED BY <2>4, <4>1 DEF Tick, TypeOK
    <3>6. by' \in [Alerts -> Jobs \cup {None}] /\ fate' \in [Alerts -> Fates]
      BY <2>4, TickHistory
    <3> QED BY <2>4, <3>1, <3>2, <3>3, <3>4, <3>5, <3>6 DEF Tick, TypeOK
  <2>5. ASSUME NEW j \in Jobs, Dispatch(j) PROVE TypeOK'
    <3>1. PICK b \in Batch : b = jobs[j] /\ b.ch \in Channels /\ b.inv \subseteq Alerts
      BY <2>5, BatchFields DEF Dispatch, InStage, TypeOK
    <3>2. PICK o \in Owners : o = marks[b.ch]
      BY <2>5, <3>1 DEF Dispatch, TypeOK
    <3>3. [b EXCEPT !.stage = "queued", !.owner = o] \in Batch
      BY <1>0, <3>2 DEF Batch
    <3>4. jobs' = [jobs EXCEPT ![j] = [b EXCEPT !.stage = "queued", !.owner = o]]
      BY <2>5, <3>1, <3>2 DEF Dispatch, TypeOK
    <3> QED BY <2>5, <3>3, <3>4 DEF Dispatch, TypeOK, history
  <2>6. ASSUME NEW j \in Jobs, Acquire(j) PROVE TypeOK'
    <3>1. PICK b \in Batch : b = jobs[j] /\ b.stage = "queued"
      BY <2>6 DEF Acquire, InStage, TypeOK
    <3>2. b.owner # None
      BY <3>1, BatchFields
    <3>3. [b EXCEPT !.stage = "running"] \in Batch
      BY <3>2 DEF Batch
    <3>4. jobs' = [jobs EXCEPT ![j] = [b EXCEPT !.stage = "running"]]
      BY <2>6, <3>1 DEF Acquire, TypeOK
    <3> QED BY <2>6, <3>3, <3>4 DEF Acquire, TypeOK, history
  <2>7. ASSUME NEW j \in Jobs, Failed(j) PROVE TypeOK'
    <3>1. lastRun' \in [Alerts -> Nat \cup {None}] /\ overtaken' \in [Alerts -> BOOLEAN]
      <4>1. \A a \in Alerts : (overtaken[a] \/ (a \in jobs[j].inv /\ by[a] # j)) \in BOOLEAN
        BY DEF TypeOK
      <4> QED BY <2>7, <4>1 DEF Failed, TypeOK
    <3>2. Over(j, "failed") /\ "failed" \in Fates
      BY <2>7 DEF Failed, Fates
    <3> QED BY <3>1, <3>2, OverTypes DEF TypeOK
  <2>8. ASSUME NEW j \in Jobs, Drop(j) \/ Settle(j) PROVE TypeOK'
    <3>1. PICK how \in Fates : Over(j, how)
      BY <2>8 DEF Drop, Settle, Fates
    <3>2. UNCHANGED <<lastRun, overtaken>>
      BY <2>8 DEF Drop, Settle
    <3> QED BY <3>1, <3>2, OverTypes DEF TypeOK
  <2>9. CASE Cancel
    BY <2>9 DEF Cancel, TypeOK, history
  <2>10. CASE Pass
    BY <2>10, PassTimes DEF Pass, TypeOK
  <2>11. CASE UNCHANGED vars
    BY <2>11 DEF vars, history, TypeOK
  <2> QED
    BY <2>1, <2>2, <2>3, <2>4, <2>5, <2>6, <2>7, <2>8, <2>9, <2>10, <2>11
       DEF Next, TickStep, JobStep, Abandon, Fail
<1> QED BY <1>1, <1>2, PTL DEF Spec

-----------------------------------------------------------------------------
(* The cooldown *)

\* What a tick hands out was not in its cooldown, and what it drops from the map
\* suppresses nothing.
LEMMA TickTimes ==
  ASSUME TypeOK, NEW ord \in Orders, NEW put \in Placements(ord), Tick(ord, put),
         NEW a \in Alerts
  PROVE  \/ /\ a \in HandedOut(Emitted(ord))
            /\ ~Cooling(a) /\ lastRun'[a] = 0 /\ quiet'[a] = 0
         \/ /\ a \notin HandedOut(Emitted(ord)) /\ quiet'[a] = quiet[a]
            /\ lastRun'[a] = lastRun[a] \/ (lastRun'[a] = None /\ lastRun[a] > Cooldown)
<1>1. DOMAIN put = Emitted(ord)
  BY TickJobs
<1>2. CASE a \in HandedOut(Emitted(ord))
  <2>1. PICK b \in Emitted(ord) : a \in b.inv
    BY <1>2 DEF HandedOut
  <2>2. PICK p \in Closing \X Clusters : b.inv = Subjects(ord, p[1], p[2])
    BY <2>1 DEF Emitted
  <2>3. ~Cooling(a)
    BY <2>1, <2>2 DEF Subjects, Fresh
  <2> QED BY <1>1, <1>2, <2>3 DEF Tick
<1>3. CASE a \notin HandedOut(Emitted(ord))
  BY <1>1, <1>3 DEF Tick, Pruned, TypeOK
<1> QED BY <1>2, <1>3

\* The ends of a batch that keep the cooldown.
Kept == {"answered"} \cup Unanswered

\* What a step is to the cooldowns and the batches they belong to.
QuietStep ==
  /\ UNCHANGED <<lastRun, history>>
  /\ \A j \in Jobs : jobs[j] # None => jobs'[j] # None /\ jobs'[j].inv = jobs[j].inv
  /\ \A j \in Jobs : jobs[j] = None => jobs'[j] = None

LEMMA StepKinds ==
  ASSUME TypeOK, [Next]_vars
  PROVE  \/ \E ord \in Orders : \E put \in Placements(ord) : Tick(ord, put)
         \/ \E j \in Jobs : Failed(j)
         \/ \E j \in Jobs, how \in Kept : Over(j, how) /\ UNCHANGED <<lastRun, overtaken>>
         \/ Pass
         \/ QuietStep
<1>0. jobs \in [Jobs -> Batch \cup {None}] /\ None \notin Batch
  BY NoneIsNoBatch DEF TypeOK
<1>1. ASSUME NEW j \in Jobs, Dispatch(j) PROVE QuietStep
  <2>1. PICK b \in Batch : b = jobs[j]
    BY <1>0, <1>1 DEF Dispatch, InStage
  <2>2. PICK d : d = [b EXCEPT !.stage = "queued", !.owner = marks[b.ch]]
    OBVIOUS
  <2>3. d.inv = b.inv /\ d.owner = marks[b.ch]
    BY <2>2, BatchFields
  <2>4. marks[b.ch] \in Owners
    BY <1>1, <2>1, BatchFields DEF TypeOK, Dispatch
  <2>5. d \in Batch
    BY <2>2, <2>4, AlertConstants DEF Batch
  <2>6. jobs' = [jobs EXCEPT ![j] = d] /\ UNCHANGED <<lastRun, history>>
    BY <1>0, <1>1, <2>1, <2>2 DEF Dispatch
  <2>7. \A i \in Jobs : jobs'[i] = IF i = j THEN d ELSE jobs[i]
    BY <1>0, <2>6
  <2>8. b # None /\ d # None
    BY <1>0, <2>5
  <2> QED BY <2>1, <2>3, <2>6, <2>7, <2>8 DEF QuietStep
<1>2. ASSUME NEW j \in Jobs, Acquire(j) PROVE QuietStep
  <2>1. PICK b \in Batch : b = jobs[j] /\ b.stage = "queued"
    BY <1>0, <1>2 DEF Acquire, InStage
  <2>2. PICK d : d = [b EXCEPT !.stage = "running"]
    OBVIOUS
  <2>3. d.inv = b.inv /\ d \in Batch
    BY <2>1, <2>2 DEF Batch
  <2>4. jobs' = [jobs EXCEPT ![j] = d] /\ UNCHANGED <<lastRun, history>>
    BY <1>0, <1>2, <2>1, <2>2 DEF Acquire
  <2>5. \A i \in Jobs : jobs'[i] = IF i = j THEN d ELSE jobs[i]
    BY <1>0, <2>4
  <2>6. b # None /\ d # None
    BY <1>0, <2>3
  <2> QED BY <2>1, <2>3, <2>4, <2>5, <2>6 DEF QuietStep
<1>3. ASSUME NEW j \in Jobs, Drop(j) \/ Settle(j)
      PROVE  \E how \in Kept : Over(j, how) /\ UNCHANGED <<lastRun, overtaken>>
  BY <1>3 DEF Drop, Settle, Kept, Unanswered
<1>4. CASE UNCHANGED <<lastRun, jobs, history>>
  BY <1>4 DEF QuietStep
<1> QED
  BY <1>1, <1>2, <1>3, <1>4
     DEF Next, TickStep, JobStep, Abandon, Fail, Mark, Unmark, Ingest, Cancel, vars

\* Of an alert whose last batch is under way, that batch is about it.
ByInv ==
  \A a \in Alerts : by[a] # None =>
    fate[a] = "open" /\ jobs[by[a]] # None /\ a \in jobs[by[a]].inv

\* Until the cooldown is over, the map holds exactly the time since the hand-out,
\* unless a failure took it away.
TimeInv ==
  \A a \in Alerts : quiet[a] < Cooldown =>
    \/ lastRun[a] = quiet[a]
    \/ lastRun[a] = None /\ (fate[a] = "failed" \/ overtaken[a])

\* What still suppresses something belongs to a batch under way or to one that kept it.
CoolInv == \A a \in Alerts : Cooling(a) => by[a] # None \/ fate[a] \in Kept

QuietInv == ByInv /\ TimeInv /\ CoolInv

\* A batch that ends is that of every alert that waits for it.
LEMMA OverKeeps ==
  ASSUME TypeOK, ByInv, NEW j \in Jobs, NEW how \in Fates, Over(j, how)
  PROVE  /\ ByInv'
         /\ \A a \in Alerts : by[a] = j => a \in jobs[j].inv /\ fate[a] = "open"
<1>1. \A a \in Alerts : by[a] = j => a \in jobs[j].inv /\ fate[a] = "open"
  BY AlertConstants DEF ByInv, Jobs
<1>2. ASSUME NEW a \in Alerts, by'[a] # None
      PROVE  fate'[a] = "open" /\ jobs'[by'[a]] # None /\ a \in jobs'[by'[a]].inv
  <2>1. by[a] # j /\ by'[a] = by[a] /\ fate'[a] = fate[a]
    BY <1>2, OverTypes
  <2>2. by[a] \in Jobs \ {j}
    BY <1>2, <2>1 DEF TypeOK
  <2> QED BY <1>2, <2>1, <2>2, OverTypes DEF ByInv
<1> QED BY <1>1, <1>2 DEF ByInv

LEMMA QuietInvariant == Spec => [](TypeOK /\ QuietInv)
<1>0. Cooldown \in Nat \ {0} /\ None \notin Nat /\ None \notin Jobs /\ Kept \subseteq Fates
  BY AlertConstants DEF Jobs, Kept, Unanswered, Fates
<1>1. Init => QuietInv
  BY <1>0 DEF Init, QuietInv, ByInv, TimeInv, CoolInv, Cooling
<1>2. TypeOK /\ QuietInv /\ [Next]_vars => QuietInv'
  <2> SUFFICES ASSUME TypeOK, QuietInv, [Next]_vars PROVE QuietInv'
    OBVIOUS
  <2>0. /\ ByInv /\ TimeInv /\ CoolInv
        /\ \A a \in Alerts : /\ quiet[a] \in Nat /\ lastRun[a] \in Nat \cup {None}
                             /\ by[a] \in Jobs \cup {None}
    BY DEF TypeOK, QuietInv
  <2>1. ASSUME NEW ord \in Orders, NEW put \in Placements(ord), Tick(ord, put) PROVE QuietInv'
    <3> SUFFICES ASSUME NEW a \in Alerts
                 PROVE  /\ by'[a] # None => /\ fate'[a] = "open" /\ jobs'[by'[a]] # None
                                            /\ a \in jobs'[by'[a]].inv
                        /\ quiet'[a] < Cooldown =>
                             \/ lastRun'[a] = quiet'[a]
                             \/ lastRun'[a] = None /\ (fate'[a] = "failed" \/ overtaken'[a])
                        /\ Cooling(a)' => by'[a] # None \/ fate'[a] \in Kept
      BY DEF QuietInv, ByInv, TimeInv, CoolInv
    <3>1. CASE a \in HandedOut(Emitted(ord))
      <4>1. /\ by'[a] \in Free /\ jobs'[by'[a]] \in Batch /\ a \in jobs'[by'[a]].inv
            /\ fate'[a] = "open"
        BY <2>1, <3>1, TickHistory
      <4>2. by'[a] # None /\ jobs'[by'[a]] # None
        BY <1>0, <4>1, NoneIsNoBatch DEF Free
      <4>3. lastRun'[a] = 0 /\ quiet'[a] = 0
        BY <2>1, <3>1, TickTimes
      <4> QED BY <4>1, <4>2, <4>3
    <3>2. CASE a \notin HandedOut(Emitted(ord))
      <4>1. by'[a] = by[a] /\ fate'[a] = fate[a] /\ overtaken'[a] = overtaken[a]
        BY <2>1, <3>2, TickHistory
      <4>2. /\ quiet'[a] = quiet[a]
            /\ lastRun'[a] = lastRun[a] \/ (lastRun'[a] = None /\ lastRun[a] > Cooldown)
        BY <2>1, <3>2, TickTimes
      <4>3. by[a] # None => jobs'[by[a]] = jobs[by[a]]
        <5>1. by[a] # None => by[a] \in Jobs \ Free
          BY <2>0 DEF ByInv, Free
        <5> QED BY <2>1, <5>1, TickJobs
      <4>4. by'[a] # None => /\ fate'[a] = "open" /\ jobs'[by'[a]] # None
                             /\ a \in jobs'[by'[a]].inv
        BY <2>0, <4>1, <4>3 DEF ByInv
      <4>5. Cooling(a)' => Cooling(a)
        BY <4>2 DEF Cooling
      <4>6. quiet[a] < Cooldown => ~(lastRun[a] # None /\ lastRun[a] > Cooldown)
        BY <1>0, <2>0 DEF TimeInv
      <4>7. quiet'[a] < Cooldown =>
              \/ lastRun'[a] = quiet'[a]
              \/ lastRun'[a] = None /\ (fate'[a] = "failed" \/ overtaken'[a])
        BY <1>0, <2>0, <4>1, <4>2, <4>6 DEF TimeInv
      <4> QED BY <2>0, <4>1, <4>4, <4>5, <4>7 DEF CoolInv
    <3> QED BY <3>1, <3>2
  <2>2. ASSUME NEW j \in Jobs, Failed(j) PROVE QuietInv'
    <3>1. Over(j, "failed") /\ "failed" \in Fates
      BY <2>2 DEF Failed, Fates
    <3>2. ByInv' /\ \A a \in Alerts : by[a] = j => a \in jobs[j].inv /\ fate[a] = "open"
      BY <2>0, <3>1, OverKeeps
    <3>3. ASSUME NEW a \in Alerts
          PROVE  /\ quiet'[a] < Cooldown =>
                      \/ lastRun'[a] = quiet'[a]
                      \/ lastRun'[a] = None /\ (fate'[a] = "failed" \/ overtaken'[a])
                 /\ Cooling(a)' => by'[a] # None \/ fate'[a] \in Kept
      <4>1. /\ lastRun'[a] = IF a \in jobs[j].inv THEN None ELSE lastRun[a]
            /\ overtaken'[a] = (overtaken[a] \/ (a \in jobs[j].inv /\ by[a] # j))
        BY <2>2 DEF Failed
      <4>2. /\ by[a] = j => by'[a] = None /\ fate'[a] = "failed"
            /\ by[a] # j => by'[a] = by[a] /\ fate'[a] = fate[a]
            /\ quiet' = quiet
        BY <3>1, OverTypes
      <4>3. CASE a \in jobs[j].inv
        BY <4>1, <4>2, <4>3 DEF Cooling
      <4>4. CASE a \notin jobs[j].inv
        <5>1. by[a] # j
          BY <3>2, <4>4
        <5>2. lastRun'[a] = lastRun[a] /\ by'[a] = by[a] /\ fate'[a] = fate[a]
          BY <4>1, <4>2, <4>4, <5>1
        <5>3. overtaken[a] => overtaken'[a]
          BY <4>1
        <5>4. Cooling(a)' => Cooling(a)
          BY <5>2 DEF Cooling
        <5> QED BY <2>0, <4>2, <5>2, <5>3, <5>4 DEF TimeInv, CoolInv
      <4> QED BY <4>3, <4>4
    <3> QED BY <3>2, <3>3 DEF QuietInv, TimeInv, CoolInv
  <2>3. ASSUME NEW j \in Jobs, NEW how \in Kept, Over(j, how), UNCHANGED <<lastRun, overtaken>>
        PROVE  QuietInv'
    <3>1. how \in Fates
      BY <1>0
    <3>2. ByInv' /\ \A a \in Alerts : by[a] = j => a \in jobs[j].inv /\ fate[a] = "open"
      BY <2>0, <2>3, <3>1, OverKeeps
    <3>3. ASSUME NEW a \in Alerts
          PROVE  /\ quiet'[a] < Cooldown =>
                      \/ lastRun'[a] = quiet'[a]
                      \/ lastRun'[a] = None /\ (fate'[a] = "failed" \/ overtaken'[a])
                 /\ Cooling(a)' => by'[a] # None \/ fate'[a] \in Kept
      <4>1. /\ by[a] = j => by'[a] = None /\ fate'[a] = how
            /\ by[a] # j => by'[a] = by[a] /\ fate'[a] = fate[a]
            /\ quiet' = quiet
        BY <2>3, <3>1, OverTypes
      <4>2. by[a] = j => fate[a] # "failed"
        BY <3>2
      <4>3. Cooling(a)' => Cooling(a)
        BY <2>3 DEF Cooling
      <4> QED BY <2>0, <2>3, <4>1, <4>2, <4>3 DEF TimeInv, CoolInv
    <3> QED BY <3>2, <3>3 DEF QuietInv, TimeInv, CoolInv
  <2>4. CASE Pass
    <3>1. ByInv'
      BY <2>0, <2>4 DEF Pass, ByInv
    <3>2. ASSUME NEW a \in Alerts, quiet'[a] < Cooldown
          PROVE  \/ lastRun'[a] = quiet'[a]
                 \/ lastRun'[a] = None /\ (fate'[a] = "failed" \/ overtaken'[a])
      <4>1. quiet'[a] = Lesser(quiet[a] + 1, Cooldown)
        BY <2>4, PassTimes
      <4>2. quiet[a] + 1 < Cooldown /\ quiet'[a] = quiet[a] + 1
        BY <1>0, <2>0, <3>2, <4>1 DEF Lesser
      <4>3. CASE lastRun[a] = quiet[a]
        <5>1. lastRun[a] # None /\ lastRun'[a] = Lesser(lastRun[a] + 1, Cooldown + 1)
          BY <1>0, <2>0, <2>4, <4>3, PassTimes
        <5> QED BY <1>0, <2>0, <4>2, <4>3, <5>1 DEF Lesser
      <4>4. CASE lastRun[a] = None /\ (fate[a] = "failed" \/ overtaken[a])
        BY <2>4, <4>4, PassTimes DEF Pass
      <4> QED BY <1>0, <2>0, <4>2, <4>3, <4>4 DEF TimeInv
    <3>3. ASSUME NEW a \in Alerts, Cooling(a)' PROVE by'[a] # None \/ fate'[a] \in Kept
      <4>1. lastRun[a] \in Nat /\ lastRun'[a] = Lesser(lastRun[a] + 1, Cooldown + 1)
        BY <2>0, <2>4, <3>3, PassTimes DEF Cooling
      <4>2. Cooling(a)
        BY <1>0, <3>3, <4>1 DEF Cooling, Lesser
      <4> QED BY <2>0, <2>4, <4>2 DEF CoolInv, Pass
    <3> QED BY <3>1, <3>2, <3>3 DEF QuietInv, TimeInv, CoolInv
  <2>5. CASE QuietStep
    <3>1. \A a \in Alerts : by'[a] = by[a] /\ (by[a] # None => by[a] \in Jobs)
      BY <2>0, <2>5 DEF QuietStep, history
    <3>2. ByInv'
      BY <2>0, <2>5, <3>1 DEF QuietStep, ByInv, history
    <3>3. TimeInv' /\ CoolInv'
      BY <2>0, <2>5 DEF QuietStep, TimeInv, CoolInv, Cooling, history
    <3> QED BY <3>2, <3>3 DEF QuietInv
  <2> QED BY <2>1, <2>2, <2>3, <2>4, <2>5, StepKinds
<1> QED BY <1>1, <1>2, AlertsTypeCorrect, PTL DEF Spec

\* The batches of one tick have no alert in common: within a channel they are of
\* different clusters, and of two channels the one that is walked later leaves out what
\* the earlier one hands out.
LEMMA EmittedApart ==
  ASSUME TypeOK, NEW ord \in Orders, NEW b \in Emitted(ord), NEW d \in Emitted(ord), b # d
  PROVE  b.inv \cap d.inv = {}
<1> DEFINE batchOf(p) ==
      [ch |-> p[1], owner |-> None, stage |-> "due",
       inv |-> Subjects(ord, p[1], p[2]),
       ctx |-> {a \in Group(p[1], p[2]) : InBudget(p[1], a) /\ ~Fresh(ord, p[1], a)},
       skip |-> {a \in Group(p[1], p[2]) : ~InBudget(p[1], a)}]
<1>1. PICK p \in Closing \X Clusters : b = batchOf(p)
  BY DEF Emitted
<1>2. PICK q \in Closing \X Clusters : d = batchOf(q)
  BY DEF Emitted
<1>3. b.inv = Subjects(ord, p[1], p[2]) /\ d.inv = Subjects(ord, q[1], q[2])
  BY <1>1, <1>2
<1>4. p # q
  BY <1>1, <1>2
<1> HIDE DEF batchOf
<1> SUFFICES ASSUME NEW a \in b.inv, a \in d.inv PROVE FALSE
  OBVIOUS
<1>5. /\ a \in Group(p[1], p[2]) /\ InBudget(p[1], a) /\ Fresh(ord, p[1], a)
      /\ a \in Group(q[1], q[2]) /\ InBudget(q[1], a) /\ Fresh(ord, q[1], a)
  BY <1>3 DEF Subjects
<1>6. p[2] = q[2] /\ a \in InWindow(p[1]) /\ a \in InWindow(q[1])
  BY <1>5 DEF Group
<1>7. p[1] # q[1] /\ p[1] \in Closing /\ q[1] \in Closing
  BY <1>4, <1>6
<1>8. /\ \A c, e \in Closing : ord[c] = ord[e] => c = e
      /\ ord \in [Closing -> 1..Cardinality(Closing)]
  BY DEF Orders
<1>9. ord[p[1]] \in Int /\ ord[q[1]] \in Int /\ ord[p[1]] # ord[q[1]]
  BY <1>7, <1>8
<1>10. ord[p[1]] < ord[q[1]] \/ ord[q[1]] < ord[p[1]]
  BY <1>9
<1> QED BY <1>5, <1>6, <1>7, <1>10 DEF Fresh

\* No alert is handed out twice at once, nor again within its cooldown, from whatever
\* channel, unless its investigation failed or that of an earlier hand-out did, which
\* was still under way.
THEOREM CooldownKept == Spec => NoEarlyRepeat
<1> DEFINE InTime(j) == \A a \in jobs'[j].inv :
             /\ quiet[a] >= Cooldown \/ fate[a] = "failed" \/ overtaken[a]
             /\ \A i \in Jobs \ {j} : NewJob(i) => a \notin jobs'[i].inv
<1>1. TypeOK /\ QuietInv /\ [Next]_vars => [\A j \in Jobs : NewJob(j) => InTime(j)]_vars
  <2> SUFFICES ASSUME TypeOK, QuietInv, [Next]_vars, NEW j \in Jobs, NewJob(j)
               PROVE  InTime(j)
    OBVIOUS
  <2>0. Cooldown \in Nat \ {0} /\ None \notin Nat
    BY AlertConstants
  <2>1. ASSUME NEW ord \in Orders, NEW put \in Placements(ord), Tick(ord, put)
        PROVE  InTime(j)
    <3> SUFFICES ASSUME NEW a \in jobs'[j].inv
                 PROVE  /\ quiet[a] >= Cooldown \/ fate[a] = "failed" \/ overtaken[a]
                        /\ \A i \in Jobs \ {j} : NewJob(i) => a \notin jobs'[i].inv
      OBVIOUS
    <3>1. \A i \in Jobs : NewJob(i) => jobs'[i] \in Emitted(ord)
      BY <2>1, TickJobs DEF NewJob, Free
    <3>2. a \in HandedOut(Emitted(ord)) /\ a \in Alerts
      <4>1. jobs'[j] \in Emitted(ord) /\ jobs'[j] \in Batch
        BY <3>1, EmittedType
      <4> QED BY <4>1, BatchFields DEF HandedOut
    <3>3. ~Cooling(a)
      BY <2>1, <3>2, TickTimes
    <3>4. quiet[a] >= Cooldown \/ fate[a] = "failed" \/ overtaken[a]
      <4>1. quiet[a] \in Nat /\ lastRun[a] \in Nat \cup {None}
        BY <3>2 DEF TypeOK
      <4> QED BY <2>0, <3>2, <3>3, <4>1 DEF Cooling, QuietInv, TimeInv
    <3>5. ASSUME NEW i \in Jobs \ {j}, NewJob(i) PROVE a \notin jobs'[i].inv
      <4>1. jobs'[i] # jobs'[j]
        <5>1. jobs' = [e \in Jobs |-> IF \E b \in Emitted(ord) : put[b] = e
                                      THEN CHOOSE b \in Emitted(ord) : put[b] = e ELSE jobs[e]]
          <6>1. DOMAIN put = Emitted(ord)
            BY <2>1, TickJobs
          <6> QED BY <2>1, <6>1 DEF Tick
        <5>2. \A e \in Jobs : NewJob(e) => put[jobs'[e]] = e
          BY <5>1 DEF NewJob
        <5> QED BY <3>5, <5>2
      <4> QED BY <3>1, <3>5, <4>1, EmittedApart
    <3> QED BY <3>4, <3>5
  <2>2. ASSUME NEW i \in Jobs, NEW how \in Fates, Over(i, how) PROVE FALSE
    BY <2>2, OverTypes DEF NewJob
  <2>3. ~Pass /\ ~QuietStep
    BY DEF NewJob, Pass, QuietStep
  <2>4. Kept \subseteq Fates /\ "failed" \in Fates
    BY DEF Kept, Unanswered, Fates
  <2> QED BY <2>1, <2>2, <2>3, <2>4, StepKinds DEF Failed
<1> QED BY <1>1, QuietInvariant, PTL DEF Spec, NoEarlyRepeat

\* An alert that is being kept quiet is with the batch it was last handed out to, or was
\* answered by it, or that batch was dropped, panicked or had nothing to say: never did
\* it fail.
THEOREM NoSilentFailure == Spec => []QuietHasALook
<1>1. TypeOK /\ QuietInv => QuietHasALook
  BY DEF TypeOK, QuietInv, ByInv, CoolInv, QuietHasALook, Kept
<1> QED BY <1>1, QuietInvariant, PTL

-----------------------------------------------------------------------------
(* The budget *)

\* No two alerts of a window arrived at the same place, and the next one gets a
\* new place: without it the order of the budget would leave ties, and a batch
\* could hold more, or fewer, than it may.
SeenIn(c) ==
  /\ \A a \in InWindow(c) : pending[c][a].seen < Cardinality(InWindow(c))
  /\ \A a, b \in InWindow(c) : pending[c][a].seen = pending[c][b].seen => a = b
SeenInv == \A c \in Channels : SeenIn(c)

LEMMA Pending ==
  ASSUME TypeOK, NEW c \in Channels, NEW a \in InWindow(c)
  PROVE  /\ a \in Alerts /\ pending[c][a] \in Buffered
         /\ pending[c][a].rank \in Nat /\ pending[c][a].repeat \in Nat /\ pending[c][a].seen \in Nat
<1>1. a \in Alerts /\ pending[c][a] \in Buffered
  BY DEF TypeOK, InWindow
<1>2. PICK p \in Buffered : p = pending[c][a]
  BY <1>1
<1>3. p.rank \in Ranks /\ p.repeat \in 1..MaxRepeat /\ p.seen \in Nat
  BY <1>2 DEF Buffered
<1>4. Ranks \subseteq Nat /\ 1..MaxRepeat \subseteq Nat
  BY AlertConstants
<1> QED BY <1>1, <1>2, <1>3, <1>4

LEMMA IngestSeen ==
  ASSUME TypeOK, SeenInv, NEW c \in Channels, NEW a \in Alerts, NEW r \in Ranks, Ingest(c, a, r),
         NEW d \in Channels
  PROVE  SeenIn(d)'
<1>0. /\ pending \in [Channels -> [Alerts -> Buffered \cup {None}]] /\ None \notin Buffered
      /\ IsFiniteSet(InWindow(c)) /\ Cardinality(InWindow(c)) \in Nat
  BY NoneIsNoBatch, WindowIsFinite DEF TypeOK
<1>1. SeenIn(c) /\ SeenIn(d)
  BY DEF SeenInv
<1>2. CASE d # c
  <2>1. pending'[d] = pending[d]
    BY <1>0, <1>2 DEF Ingest
  <2>2. InWindow(d)' = InWindow(d)
    BY <2>1 DEF InWindow
  <2> QED BY <1>1, <2>1, <2>2 DEF SeenIn
<1>3. CASE d = c /\ a \in InWindow(c)
  <2>1. pending[c][a] \in Buffered /\ pending[c][a] # None
    BY <1>3, Pending DEF InWindow
  <2>2. pending' = [pending EXCEPT ![c][a] = Louder(pending[c][a])]
    BY <2>1 DEF Ingest
  <2>3. \A b \in Alerts : /\ pending'[c][b] = None <=> pending[c][b] = None
                          /\ pending[c][b] # None => pending'[c][b].seen = pending[c][b].seen
    BY <1>0, <2>1, <2>2, LouderType
  <2>4. InWindow(c)' = InWindow(c)
    BY <2>3 DEF InWindow
  <2>5. \A b \in InWindow(c) : pending'[c][b].seen = pending[c][b].seen
    BY <2>3 DEF InWindow
  <2> QED BY <1>1, <1>3, <2>4, <2>5 DEF SeenIn
<1>4. CASE d = c /\ a \notin InWindow(c)
  <2> DEFINE n == Cardinality(InWindow(c))
             p == [rank |-> r, repeat |-> 1, seen |-> n]
  <2>1. pending' = [pending EXCEPT ![c][a] = p]
    BY <1>4 DEF Ingest, InWindow
  <2>2. p \in Buffered
    BY <1>0, AlertConstants DEF Buffered
  <2>3. \A b \in Alerts : pending'[c][b] = IF b = a THEN p ELSE pending[c][b]
    BY <1>0, <2>1
  <2>4. p # None /\ p.seen = n
    BY <1>0, <2>2
  <2> HIDE DEF p
  <2>5. InWindow(c)' = InWindow(c) \cup {a}
    BY <2>3, <2>4 DEF InWindow
  <2>6. Cardinality(InWindow(c)') = n + 1
    BY <1>0, <1>4, <2>5, FS_AddElement
  <2>7. \A b \in InWindow(c)' : pending'[c][b].seen = IF b = a THEN n ELSE pending[c][b].seen
    BY <2>3, <2>4 DEF InWindow
  <2>8. \A b \in InWindow(c) : pending[c][b].seen \in Nat /\ pending[c][b].seen < n
    BY <1>1, Pending DEF SeenIn
  <2> HIDE DEF n
  <2>9. n \in Nat
    BY <1>0 DEF n
  <2>10. \A b \in InWindow(c)' : pending'[c][b].seen < n + 1
    BY <2>5, <2>7, <2>8, <2>9
  <2>11. \A b, e \in InWindow(c)' : pending'[c][b].seen = pending'[c][e].seen => b = e
    BY <1>1, <2>5, <2>7, <2>8, <2>9 DEF SeenIn
  <2> QED BY <1>4, <2>6, <2>10, <2>11 DEF SeenIn
<1> QED BY <1>2, <1>3, <1>4

LEMMA SeenInvariant == Spec => [](TypeOK /\ SeenInv)
<1>1. Init => SeenInv
  BY DEF Init, SeenInv, SeenIn, InWindow, NoAlerts
<1>2. TypeOK /\ SeenInv /\ [Next]_vars => SeenInv'
  <2> SUFFICES ASSUME TypeOK, SeenInv, [Next]_vars, NEW d \in Channels PROVE SeenIn(d)'
    BY DEF SeenInv
  <2>1. ASSUME NEW c \in Channels, NEW a \in Alerts, NEW r \in Ranks, Ingest(c, a, r)
        PROVE  SeenIn(d)'
    BY <2>1, IngestSeen
  <2>2. ASSUME NEW ord \in Orders, NEW put \in Placements(ord), Tick(ord, put) PROVE SeenIn(d)'
    <3>1. pending'[d] = IF d \in Closing THEN NoAlerts ELSE pending[d]
      BY <2>2 DEF Tick
    <3>2. CASE d \in Closing
      <4>1. InWindow(d)' = {}
        BY <3>1, <3>2 DEF InWindow, NoAlerts
      <4> QED BY <4>1 DEF SeenIn
    <3>3. CASE d \notin Closing
      <4>1. InWindow(d)' = InWindow(d) /\ pending'[d] = pending[d]
        BY <3>1, <3>3 DEF InWindow
      <4> QED BY <4>1 DEF SeenIn, SeenInv
    <3> QED BY <3>2, <3>3
  <2>3. CASE UNCHANGED pending
    <3>1. InWindow(d)' = InWindow(d)
      BY <2>3 DEF InWindow
    <3> QED BY <2>3, <3>1 DEF SeenIn, SeenInv
  <2> QED
    BY <2>1, <2>2, <2>3
       DEF Next, TickStep, JobStep, Mark, Unmark, Dispatch, Drop, Acquire, Abandon, Fail, Settle,
           Failed, Over, Cancel, Pass, vars
<1> QED BY <1>1, <1>2, AlertsTypeCorrect, PTL DEF Spec

\* The budget takes the worst of a group, as many as there are or as it may.
LEMMA BudgetSpent ==
  ASSUME TypeOK, SeenInv, NEW c \in Channels, NEW k
  PROVE  LET taken == {a \in Group(c, k) : InBudget(c, a)} IN
         /\ Cardinality(taken) <= MaxPerWindow
         /\ taken # Group(c, k) => Cardinality(taken) = MaxPerWindow
         /\ \A a \in taken, s \in Group(c, k) \ taken : pending[c][a].rank <= pending[c][s].rank
<1> DEFINE S == Group(c, k)
           taken == {a \in S : InBudget(c, a)}
           before == [a \in S |-> {b \in S : Ahead(c, b, a)}]
<1>1. IsFiniteSet(S) /\ S \subseteq InWindow(c) /\ MaxPerWindow \in Nat \ {0}
  BY WindowIsFinite, AlertConstants DEF Group
<1>2. \A a \in S : /\ pending[c][a].rank \in Nat /\ pending[c][a].repeat \in Nat
                   /\ pending[c][a].seen \in Nat
  BY <1>1, Pending
<1>3. \A a, b \in S : pending[c][a].seen = pending[c][b].seen => a = b
  BY <1>1 DEF SeenInv, SeenIn
<1>4. \A a \in S : a \in taken <=> Cardinality(before[a]) < MaxPerWindow
  <2> SUFFICES ASSUME NEW a \in S
               PROVE  InBudget(c, a) <=> Cardinality(before[a]) < MaxPerWindow
    OBVIOUS
  <2>1. Group(c, ClusterOf[a]) = S
    BY DEF Group
  <2> QED BY <2>1 DEF InBudget
<1>5. \A a, b \in S : b \in before[a] <=> Ahead(c, b, a)
  OBVIOUS
<1>6. before \in [S -> SUBSET S] /\ taken \in SUBSET S
  OBVIOUS
<1> HIDE DEF before, taken, S
<1>7. \A a \in S : a \notin before[a]
  BY <1>2, <1>5 DEF Ahead
<1>8. \A a, b \in S : a = b \/ a \in before[b] \/ b \in before[a]
  BY <1>2, <1>3, <1>5 DEF Ahead
<1>9. \A a, b, d \in S : Ahead(c, a, b) /\ Ahead(c, d, a) => Ahead(c, d, b)
  BY <1>2 DEF Ahead
<1>10. \A a, b \in S : a \in before[b] => before[a] \subseteq before[b]
  BY <1>5, <1>6, <1>9
<1>11. /\ Cardinality(taken) <= MaxPerWindow
       /\ taken # S => Cardinality(taken) = MaxPerWindow
       /\ \A a \in taken, s \in S \ taken : a \in before[s]
  BY <1>1, <1>4, <1>6, <1>7, <1>8, <1>10, SpentInOrder
<1>12. \A a \in taken, s \in S \ taken : pending[c][a].rank <= pending[c][s].rank
  BY <1>2, <1>5, <1>6, <1>11 DEF Ahead
<1> QED BY <1>11, <1>12 DEF taken, S

\* A batch spends its cluster's budget on the worst alerts of the window: it is about
\* something new, holds no alert twice, leaves something out only when the budget is
\* spent, and nothing it leaves out is more severe than what it carries.
THEOREM BudgetOnTheWorst == Spec => WorstFirst
<1> DEFINE Right(b) ==
      LET carried == b.inv \cup b.ctx IN
      /\ b.inv # {}
      /\ b.inv \cap b.ctx = {} /\ carried \cap b.skip = {}
      /\ Cardinality(carried) <= MaxPerWindow
      /\ b.skip # {} => Cardinality(carried) = MaxPerWindow
      /\ \A a \in carried, s \in b.skip : pending[b.ch][a].rank <= pending[b.ch][s].rank
<1>1. TypeOK /\ SeenInv /\ [Next]_vars => [\A j \in Jobs : NewJob(j) => Right(jobs'[j])]_vars
  <2> SUFFICES ASSUME TypeOK, SeenInv, [Next]_vars, NEW j \in Jobs, NewJob(j)
               PROVE  Right(jobs'[j])
    OBVIOUS
  <2>1. ASSUME NEW ord \in Orders, NEW put \in Placements(ord), Tick(ord, put)
        PROVE  Right(jobs'[j])
    <3>1. PICK b \in Emitted(ord) : b = jobs'[j]
      BY <2>1, TickJobs DEF NewJob, Free
    <3>2. PICK p \in Closing \X Clusters :
            /\ Subjects(ord, p[1], p[2]) # {}
            /\ b = [ch |-> p[1], owner |-> None, stage |-> "due",
                    inv |-> Subjects(ord, p[1], p[2]),
                    ctx |-> {a \in Group(p[1], p[2]) : InBudget(p[1], a) /\ ~Fresh(ord, p[1], a)},
                    skip |-> {a \in Group(p[1], p[2]) : ~InBudget(p[1], a)}]
      BY DEF Emitted
    <3> DEFINE taken == {a \in Group(p[1], p[2]) : InBudget(p[1], a)}
    <3>3. p[1] \in Channels
      BY <3>2 DEF Closing
    <3>4. /\ b.ch = p[1] /\ b.inv \cup b.ctx = taken /\ b.skip = Group(p[1], p[2]) \ taken
          /\ b.inv # {} /\ b.inv \cap b.ctx = {}
      BY <3>2 DEF Subjects
    <3>5. /\ Cardinality(taken) <= MaxPerWindow
          /\ taken # Group(p[1], p[2]) => Cardinality(taken) = MaxPerWindow
          /\ \A a \in taken, s \in Group(p[1], p[2]) \ taken :
               pending[p[1]][a].rank <= pending[p[1]][s].rank
      BY <3>3, BudgetSpent
    <3> HIDE DEF taken
    <3> QED BY <3>1, <3>4, <3>5
  <2>2. jobs' # jobs
    BY DEF NewJob
  <2>3. ASSUME NEW i \in Jobs, JobStep(i) PROVE FALSE
    <3>1. jobs[i] # None /\ (\A e \in Jobs \ {i} : jobs'[e] = jobs[e])
      BY <2>3 DEF JobStep, Dispatch, Drop, Acquire, Abandon, Fail, Settle, Failed, Over, InStage,
                  TypeOK
    <3> QED BY <3>1 DEF NewJob
  <2> QED
    BY <2>1, <2>2, <2>3 DEF Next, TickStep, Mark, Unmark, Ingest, Cancel, Pass, vars
<1> QED BY <1>1, SeenInvariant, PTL DEF Spec, WorstFirst
=============================================================================
