--------------------------- MODULE SchedulesProofs ---------------------------
(***************************************************************************)
(* What holds of Schedules for every number of users, ids and goroutines    *)
(* and every limit.                                                         *)
(***************************************************************************)
EXTENDS Schedules, FiniteSetTheorems, TLAPS

\* The next slot of an entry is an instant.
LEMMA AdvanceType ==
  ASSUME NEW e \in Entry, NEW t \in Nat
  PROVE  Advance(e, t) \in Nat
<1>1. CASE e.next > t
  BY <1>1 DEF Advance, Entry
<1>2. CASE ~(e.next > t)
  <2> DEFINE q == (t - e.next) \div e.every
  <2>1. e.next \in Nat /\ e.every \in Nat \ {0} /\ t - e.next \in Nat
    BY <1>2 DEF Entry
  <2>2. q \in Nat
    BY <2>1
  <2>3. (q + 1) * e.every \in Nat
    <3> HIDE DEF q
    <3> QED BY <2>1, <2>2
  <2> QED BY <1>2, <2>1, <2>3 DEF Advance
<1> QED BY <1>1, <1>2

\* A result leaves an entry with fewer failures than disable it, or nothing.
LEMMA AfterResultType ==
  ASSUME NEW e \in Entry, NEW failed \in BOOLEAN
  PROVE  AfterResult(e, failed) \in Entry \cup {None}
<1>1. \A n \in 0..(MaxFailures - 1) : [e EXCEPT !.failures = n] \in Entry
  BY DEF Entry
<1>2. CASE ~failed
  BY <1>1, <1>2, ScheduleConstants DEF AfterResult
<1>3. CASE failed /\ e.failures + 1 < MaxFailures
  <2>1. e.failures + 1 \in 0..(MaxFailures - 1)
    BY <1>3, ScheduleConstants DEF Entry
  <2> QED BY <1>1, <1>3, <2>1, ScheduleConstants DEF AfterResult, Entry
<1>4. CASE failed /\ ~(e.failures + 1 < MaxFailures)
  BY <1>4, ScheduleConstants DEF AfterResult, Entry
<1> QED BY <1>2, <1>3, <1>4

-----------------------------------------------------------------------------
(* Types *)

\* Every variable of the store, the loop and the pool keeps its type: in
\* particular a restart loads entries and a tick gives each due id one run.
THEOREM TypeCorrect == Spec => []TypeOK
<1>1. Init => TypeOK
  <2> SUFFICES ASSUME Init PROVE TypeOK
    OBVIOUS
  <2>1. NoEntries \in StoreState
    BY DEF NoEntries, StoreState
  <2> QED BY <2>1 DEF Init, TypeOK
<1>2. TypeOK /\ [Next]_vars => TypeOK'
  <2> SUFFICES ASSUME TypeOK, [Next]_vars PROVE TypeOK'
    OBVIOUS
  <2> USE DEF TypeOK
  <2>1. ASSUME NEW u \in Users, NEW id \in Ids, NEW every \in Intervals,
               NEW next \in FirstRuns, Add(u, id, every, next)
        PROVE  TypeOK'
    <3>1. next \in Nat
      BY ScheduleConstants DEF FirstRuns
    <3>2. [user |-> u, every |-> every, next |-> next, failures |-> 0] \in Entry
      BY <3>1, ScheduleConstants DEF Entry
    <3> QED BY <2>1, <3>2 DEF Add, StoreState
  <2>2. ASSUME NEW u \in Users, NEW id \in Ids, Delete(u, id)
        PROVE  TypeOK'
    BY <2>2 DEF Delete, StoreState
  <2>3. ASSUME NEW u \in Users, NEW id \in Ids, NEW r \in Runs, Trigger(u, id, r)
        PROVE  TypeOK'
    BY <2>3 DEF Trigger, Run
  <2>4. ASSUME NEW go \in Launches, Tick(go)
        PROVE  TypeOK'
    <3>1. \A i \in DueAt(now) : [entries[i] EXCEPT !.next = Advance(entries[i], now)] \in Entry
      <4> SUFFICES ASSUME NEW i \in DueAt(now)
                   PROVE  [entries[i] EXCEPT !.next = Advance(entries[i], now)] \in Entry
        OBVIOUS
      <4>1. entries[i] \in Entry
        BY DEF DueAt, Stored, StoreState
      <4>2. Advance(entries[i], now) \in Nat
        BY <4>1, AdvanceType
      <4> QED BY <4>1, <4>2 DEF Entry
    <3>2. entries' \in StoreState
      BY <2>4, <3>1 DEF Tick, StoreState
    <3>3. DOMAIN go \subseteq Ids
      BY DEF Launches, DueAt, Stored
    <3>4. runs' \in [Runs -> Run \cup {None}]
      BY <2>4, <3>3 DEF Tick, Run
    <3> QED BY <2>4, <3>2, <3>4 DEF Tick
  <2>5. CASE Start
    BY <2>5 DEF Start
  <2>6. CASE FlushBegin
    BY <2>6 DEF FlushBegin
  <2>7. CASE FlushWrite
    BY <2>7 DEF FlushWrite, NoEntries, StoreState
  <2>8. CASE Stopping
    BY <2>8 DEF Stopping
  <2>9. CASE Drained
    BY <2>9 DEF Drained
  <2>10. ASSUME NEW r \in Runs, Acquire(r)
         PROVE  TypeOK'
    BY <2>10, NoneIsNothing DEF Acquire, InStage, Run
  <2>11. ASSUME NEW r \in Runs, Queue(r)
         PROVE  TypeOK'
    BY <2>11, NoneIsNothing DEF Queue, InStage, Run
  <2>12. ASSUME NEW r \in Runs, Abandon(r)
         PROVE  TypeOK'
    BY <2>12, NoneIsNothing DEF Abandon, InStage, Run
  <2>13. ASSUME NEW r \in Runs, NEW outcome \in Outcomes, Finish(r, outcome)
         PROVE  TypeOK'
    <3>1. runs[r] \in Run
      BY <2>13 DEF Finish, InStage
    <3>2. runs' \in [Runs -> Run \cup {None}]
      BY <2>13, <3>1 DEF Finish, Run
    <3>3. ASSUME NEW id \in Ids, NEW failed \in BOOLEAN, RecordResult(id, failed)
          PROVE  entries' \in StoreState /\ dirty' \in BOOLEAN
      <4>1. CASE entries[id] = None \/ (~failed /\ entries[id].failures = 0)
        BY <3>3, <4>1 DEF RecordResult
      <4>2. CASE ~(entries[id] = None \/ (~failed /\ entries[id].failures = 0))
        <5>1. entries[id] \in Entry
          BY <4>2 DEF StoreState
        <5>2. AfterResult(entries[id], failed) \in Entry \cup {None}
          BY <5>1, AfterResultType
        <5> QED BY <3>3, <4>2, <5>2 DEF RecordResult, StoreState
      <4> QED BY <4>1, <4>2
    <3>4. entries' \in StoreState /\ dirty' \in BOOLEAN
      BY <2>13, <3>1, <3>3 DEF Finish, Run
    <3> QED BY <2>13, <3>2, <3>4 DEF Finish
  <2>14. ASSUME NEW r \in Runs, End(r)
         PROVE  TypeOK'
    BY <2>14 DEF End, InStage
  <2>15. CASE Cancel
    BY <2>15 DEF Cancel
  <2>16. CASE Exit
    BY <2>16 DEF Exit
  <2>17. CASE Reboot
    <3>1. NoEntries \in StoreState
      BY DEF NoEntries, StoreState
    <3>2. inFlight' \subseteq Ids /\ sem' \subseteq Runs /\ runs' \in [Runs -> Run \cup {None}]
      BY <2>17 DEF Reboot
    <3>3. /\ entries' \in StoreState /\ disk' \in StoreState /\ snap' \in StoreState
      BY <2>17, <3>1 DEF Reboot
    <3>4. dirty' \in BOOLEAN /\ lost' \in BOOLEAN /\ cancelled' \in BOOLEAN
      BY <2>17 DEF Reboot
    <3>5. loop' = "boot" /\ now' \in Nat /\ boots' \in Nat
      BY <2>17 DEF Reboot
    <3> QED BY <3>2, <3>3, <3>4, <3>5
  <2>18. CASE Pass
    BY <2>18 DEF Pass
  <2>19. CASE UNCHANGED vars
    BY <2>19 DEF vars
  <2> QED
    BY <2>1, <2>2, <2>3, <2>4, <2>5, <2>6, <2>7, <2>8, <2>9, <2>10, <2>11, <2>12, <2>13,
       <2>14, <2>15, <2>16, <2>17, <2>18, <2>19
       DEF Next, UserStep, LoopStep, RunStep, ProcessStep
<1> QED BY <1>1, <1>2, PTL DEF Spec

-----------------------------------------------------------------------------
(* The pool *)

\* The tokens in the channel are those of the running goroutines.
PoolInv == sem = InStage({"running"}) /\ Cardinality(sem) <= Concurrency

\* Timed and manual runs together never exceed RunnerOptions.Concurrency.  The
\* bound is on the channel; that the channel holds one token for each running
\* goroutine and none for the others is what has to be carried along.
THEOREM PoolBounded == Spec => []PoolBound
<1>1. Init => PoolInv
  <2> SUFFICES ASSUME Init PROVE PoolInv
    OBVIOUS
  <2>1. sem = {} /\ InStage({"running"}) = {}
    BY DEF Init, InStage
  <2> QED BY <2>1, FS_EmptySet, ScheduleConstants DEF PoolInv
<1>2. TypeOK /\ PoolInv /\ [Next]_vars => PoolInv'
  <2> SUFFICES ASSUME TypeOK, PoolInv, [Next]_vars PROVE PoolInv'
    OBVIOUS
  <2>0. sem \subseteq Runs /\ IsFiniteSet(sem) /\ Concurrency \in Nat
    BY FS_Subset, ScheduleConstants DEF TypeOK
  <2>1. ASSUME NEW u \in Users, NEW id \in Ids, NEW r \in Runs, Trigger(u, id, r)
        PROVE  PoolInv'
    <3>1. sem' = sem /\ InStage({"running"})' = InStage({"running"})
      BY <2>1, NoneIsNothing DEF Trigger, Idle, InStage, TypeOK, Run
    <3> QED BY <3>1 DEF PoolInv
  <2>2. ASSUME NEW go \in Launches, Tick(go)
        PROVE  PoolInv'
    <3>1. \A i \in DOMAIN go : runs[go[i]] = None
      BY DEF Launches, Idle
    <3>2. InStage({"running"})' = InStage({"running"})
      BY <2>2, <3>1 DEF Tick, InStage
    <3> QED BY <2>2, <3>2 DEF Tick, PoolInv
  <2>3. ASSUME NEW r \in Runs, Acquire(r)
        PROVE  PoolInv'
    <3>1. InStage({"running"})' = InStage({"running"}) \cup {r}
      BY <2>3, NoneIsNothing DEF Acquire, InStage, TypeOK, Run
    <3>2. r \notin sem
      BY <2>3 DEF Acquire, InStage, PoolInv
    <3>3. Cardinality(sem \cup {r}) = Cardinality(sem) + 1
      BY <2>0, <3>2, FS_AddElement
    <3>4. Cardinality(sem) < Concurrency /\ Cardinality(sem) \in Nat
      BY <2>0, <2>3, FS_CardinalityType DEF Acquire
    <3>5. Cardinality(sem \cup {r}) <= Concurrency
      BY <2>0, <3>3, <3>4
    <3> QED BY <2>3, <3>1, <3>5 DEF Acquire, PoolInv
  <2>4. ASSUME NEW r \in Runs, Queue(r) \/ Abandon(r) \/ End(r)
        PROVE  PoolInv'
    <3>1. InStage({"running"})' = InStage({"running"}) /\ sem' = sem
      BY <2>4, NoneIsNothing DEF Queue, Abandon, End, InStage, TypeOK, Run
    <3> QED BY <3>1 DEF PoolInv
  <2>5. ASSUME NEW r \in Runs, NEW outcome \in Outcomes, Finish(r, outcome)
        PROVE  PoolInv'
    <3>1. InStage({"running"})' = InStage({"running"}) \ {r}
      BY <2>5, NoneIsNothing DEF Finish, InStage, TypeOK, Run
    <3>2. sem' = sem \ {r} /\ r \in sem
      BY <2>5 DEF Finish, PoolInv
    <3>3. Cardinality(sem') = Cardinality(sem) - 1 /\ Cardinality(sem) \in Nat
      BY <2>0, <3>2, FS_RemoveElement, FS_CardinalityType
    <3>4. Cardinality(sem') <= Concurrency
      BY <2>0, <3>3 DEF PoolInv
    <3> QED BY <3>1, <3>2, <3>4 DEF PoolInv
  <2>6. CASE Reboot
    <3>1. sem' = {} /\ InStage({"running"})' = {}
      BY <2>6 DEF Reboot, InStage
    <3>2. Cardinality(sem') <= Concurrency
      BY <2>0, <3>1, FS_EmptySet
    <3> QED BY <3>1, <3>2 DEF PoolInv
  <2>7. ASSUME UNCHANGED <<runs, sem>>
        PROVE  PoolInv'
    BY <2>7 DEF PoolInv, InStage
  <2>8. ASSUME NEW u \in Users, NEW id \in Ids, NEW every \in Intervals, NEW next \in FirstRuns,
               Add(u, id, every, next)
        PROVE  PoolInv'
    BY <2>7, <2>8 DEF Add
  <2>9. ASSUME NEW u \in Users, NEW id \in Ids, Delete(u, id)
        PROVE  PoolInv'
    BY <2>7, <2>9 DEF Delete
  <2>10. CASE Start \/ FlushBegin \/ FlushWrite \/ Stopping \/ Drained \/ Cancel \/ Exit \/ Pass
    BY <2>7, <2>10 DEF Start, FlushBegin, FlushWrite, Stopping, Drained, Cancel, Exit, Pass
  <2>11. CASE UNCHANGED vars
    BY <2>7, <2>11 DEF vars
  <2> QED
    BY <2>1, <2>2, <2>3, <2>4, <2>5, <2>6, <2>8, <2>9, <2>10, <2>11
       DEF Next, UserStep, LoopStep, RunStep, ProcessStep
<1>3. PoolInv => PoolBound
  BY DEF PoolInv, PoolBound
<1> QED BY <1>1, <1>2, <1>3, TypeCorrect, PTL DEF Spec

-----------------------------------------------------------------------------
(* The marks of manual runs *)

\* An id is marked exactly while its one manual run exists: Trigger can neither
\* start a second one nor be refused once the first is gone.
THEOREM MarkCorrect == Spec => []MarkFollowsManualRun
<1>1. Init => MarkFollowsManualRun
  BY DEF Init, MarkFollowsManualRun, Manual
<1>2. TypeOK /\ MarkFollowsManualRun /\ [Next]_vars => MarkFollowsManualRun'
  <2> SUFFICES ASSUME TypeOK, MarkFollowsManualRun, [Next]_vars PROVE MarkFollowsManualRun'
    OBVIOUS
  <2> DEFINE ManualRun(q) == runs[q] # None /\ runs[q].kind = "manual"
  <2>0. /\ \A q \in Runs : ManualRun(q) => runs[q].id \in inFlight
        /\ \A id \in inFlight : \E q \in Runs : ManualRun(q) /\ runs[q].id = id
        /\ \A q, r \in Runs : ManualRun(q) /\ ManualRun(r) /\ runs[q].id = runs[r].id => q = r
    <3>1. \A q \in Runs : ManualRun(q) => runs[q].id \in Ids
      BY DEF TypeOK, Run
    <3> QED BY <3>1 DEF MarkFollowsManualRun, Manual
  <2>01. ASSUME /\ \A q \in Runs : ManualRun(q)' => (runs[q].id \in inFlight)'
                /\ \A id \in inFlight' : \E q \in Runs : ManualRun(q)' /\ (runs[q].id = id)'
                /\ \A q, r \in Runs : ManualRun(q)' /\ ManualRun(r)' /\ (runs[q].id = runs[r].id)'
                                        => q = r
         PROVE  MarkFollowsManualRun'
    BY <2>01 DEF MarkFollowsManualRun, Manual
  <2>1. ASSUME NEW u \in Users, NEW id \in Ids, NEW r \in Runs, Trigger(u, id, r)
        PROVE  MarkFollowsManualRun'
    <3>1. /\ inFlight' = inFlight \cup {id} /\ id \notin inFlight
          /\ runs' = [runs EXCEPT ![r] = [id |-> id, kind |-> "manual", stage |-> "new"]]
          /\ runs[r] = None
      BY <2>1 DEF Trigger, Idle
    <3>2. [id |-> id, kind |-> "manual", stage |-> "new"] # None
      BY NoneIsNothing DEF Run
    <3>3. \A q \in Runs : q # r => runs'[q] = runs[q]
      BY <3>1 DEF TypeOK
    <3>4. runs'[r] = [id |-> id, kind |-> "manual", stage |-> "new"]
      BY <3>1 DEF TypeOK
    <3> QED BY <2>0, <2>01, <3>1, <3>2, <3>3, <3>4
  <2>2. ASSUME NEW go \in Launches, Tick(go)
        PROVE  MarkFollowsManualRun'
    <3>1. \A i \in DOMAIN go : runs[go[i]] = None
      BY DEF Launches, Idle
    <3>2. \A q \in Runs : \/ runs'[q] = runs[q]
                          \/ runs[q] = None /\ runs'[q].kind = "timed"
      BY <2>2, <3>1 DEF Tick
    <3>3. inFlight' = inFlight
      BY <2>2 DEF Tick
    <3>4. \A q \in Runs : /\ ManualRun(q)' <=> ManualRun(q)
                          /\ ManualRun(q) => runs'[q] = runs[q]
      BY <3>2
    <3> QED BY <2>0, <2>01, <3>3, <3>4
  <2>3. ASSUME NEW r \in Runs,
               \/ Acquire(r) \/ Queue(r) \/ Abandon(r)
               \/ \E outcome \in Outcomes : Finish(r, outcome)
        PROVE  MarkFollowsManualRun'
    <3>1. /\ inFlight' = inFlight /\ runs[r] \in Run
          /\ \E st \in {"queued", "running", "ended"} : runs' = [runs EXCEPT ![r].stage = st]
      BY <2>3 DEF Acquire, Queue, Abandon, Finish, InStage, TypeOK
    <3>2. /\ \A q \in Runs : q # r => runs'[q] = runs[q]
          /\ runs'[r] \in Run /\ runs'[r].id = runs[r].id /\ runs'[r].kind = runs[r].kind
      BY <3>1 DEF TypeOK, Run
    <3>3. \A q \in Runs : /\ ManualRun(q)' <=> ManualRun(q)
                          /\ ManualRun(q) => runs'[q].id = runs[q].id
      BY <3>1, <3>2, NoneIsNothing
    <3> QED BY <2>0, <2>01, <3>1, <3>3
  <2>4. ASSUME NEW r \in Runs, End(r)
        PROVE  MarkFollowsManualRun'
    <3>1. /\ inFlight' = IF runs[r].kind = "manual" THEN inFlight \ {runs[r].id} ELSE inFlight
          /\ runs[r] # None
          /\ runs'[r] = None
          /\ \A q \in Runs : q # r => runs'[q] = runs[q]
      BY <2>4 DEF End, InStage, TypeOK
    <3> QED BY <2>0, <2>01, <3>1
  <2>5. CASE Reboot
    BY <2>5 DEF Reboot, MarkFollowsManualRun, Manual
  <2>6. ASSUME UNCHANGED <<runs, inFlight>>
        PROVE  MarkFollowsManualRun'
    BY <2>6 DEF MarkFollowsManualRun, Manual
  <2>7. ASSUME NEW u \in Users, NEW id \in Ids, NEW every \in Intervals, NEW next \in FirstRuns,
               Add(u, id, every, next)
        PROVE  MarkFollowsManualRun'
    BY <2>6, <2>7 DEF Add
  <2>8. ASSUME NEW u \in Users, NEW id \in Ids, Delete(u, id)
        PROVE  MarkFollowsManualRun'
    BY <2>6, <2>8 DEF Delete
  <2>9. CASE Start \/ FlushBegin \/ FlushWrite \/ Stopping \/ Drained \/ Cancel \/ Exit \/ Pass
    BY <2>6, <2>9 DEF Start, FlushBegin, FlushWrite, Stopping, Drained, Cancel, Exit, Pass
  <2>10. CASE UNCHANGED vars
    BY <2>6, <2>10 DEF vars
  <2> QED
    BY <2>1, <2>2, <2>3, <2>4, <2>5, <2>7, <2>8, <2>9, <2>10
       DEF Next, UserStep, LoopStep, RunStep, ProcessStep
<1> QED BY <1>1, <1>2, TypeCorrect, PTL DEF Spec

-----------------------------------------------------------------------------
(* The limits *)

\* Stores of a process and lists of a file that keep no more than another one.
Shrinks(s, t) ==
  \A i \in Stored(t) :
    /\ i \in Stored(s)
    /\ t[i].user = s[i].user /\ t[i].every = s[i].every /\ t[i].failures < MaxFailures

\* Taking entries out, resetting or counting failures below the limit and
\* moving the next run stay within the limits.
LEMMA ShrinkKeepsLimits ==
  ASSUME NEW s \in StoreState, NEW t \in StoreState, WithinLimits(s), Shrinks(s, t)
  PROVE  WithinLimits(t)
<1>1. IsFiniteSet(Stored(s)) /\ Stored(t) \subseteq Stored(s)
  BY ScheduleConstants, FS_Subset DEF Stored, Shrinks
<1>2. /\ Cardinality(Stored(t)) \in Nat /\ Cardinality(Stored(s)) \in Nat
      /\ Cardinality(Stored(t)) <= Cardinality(Stored(s))
  BY <1>1, FS_Subset, FS_CardinalityType
<1>3. Cardinality(Stored(t)) <= Total
  BY <1>2, ScheduleConstants DEF WithinLimits
<1>4. ASSUME NEW u \in Users PROVE Cardinality(OwnedBy(t, u)) <= PerUser
  <2>1. OwnedBy(t, u) \subseteq OwnedBy(s, u) /\ IsFiniteSet(OwnedBy(s, u))
    BY <1>1, FS_Subset DEF OwnedBy, Shrinks
  <2>2. /\ Cardinality(OwnedBy(t, u)) \in Nat /\ Cardinality(OwnedBy(s, u)) \in Nat
        /\ Cardinality(OwnedBy(t, u)) <= Cardinality(OwnedBy(s, u))
    BY <2>1, FS_Subset, FS_CardinalityType
  <2> QED BY <2>2, ScheduleConstants DEF WithinLimits
<1>5. \A i \in Stored(t) : t[i].failures < MaxFailures /\ t[i].every >= MinInterval
  BY DEF Shrinks, WithinLimits
<1> QED BY <1>3, <1>4, <1>5 DEF WithinLimits

\* The list Flush copied is within the limits too: it is the next file.
LimitsInv == WithinLimits(entries) /\ WithinLimits(disk) /\ WithinLimits(snap)

LEMMA EmptyWithinLimits == WithinLimits(NoEntries)
<1>1. Stored(NoEntries) = {} /\ \A u \in Users : OwnedBy(NoEntries, u) = {}
  BY DEF Stored, NoEntries, OwnedBy
<1> QED BY <1>1, FS_EmptySet, ScheduleConstants DEF WithinLimits

\* No order of commands, results, flushes, failed writes and restarts takes the
\* store or the file past PerUser or Total, below MinInterval, or keeps an entry
\* whose failures are used up.
THEOREM LimitsCorrect == Spec => []LimitsHold
<1>1. Init => LimitsInv
  BY EmptyWithinLimits DEF Init, LimitsInv
<1>2. TypeOK /\ LimitsInv /\ [Next]_vars => LimitsInv'
  <2> SUFFICES ASSUME TypeOK, LimitsInv, [Next]_vars PROVE LimitsInv'
    OBVIOUS
  <2>1. ASSUME entries' \in StoreState, Shrinks(entries, entries'), UNCHANGED <<disk, snap>>
        PROVE  LimitsInv'
    BY <2>1, ShrinkKeepsLimits DEF LimitsInv, TypeOK, WithinLimits, Stored, OwnedBy
  <2>2. ASSUME UNCHANGED <<entries, disk, snap>>
        PROVE  LimitsInv'
    BY <2>2 DEF LimitsInv, WithinLimits, Stored, OwnedBy
  <2>3. ASSUME NEW u \in Users, NEW id \in Ids, NEW every \in Intervals, NEW next \in FirstRuns,
               Add(u, id, every, next)
        PROVE  LimitsInv'
    <3> DEFINE e == [user |-> u, every |-> every, next |-> next, failures |-> 0]
    <3>1. entries' = [entries EXCEPT ![id] = e] /\ entries[id] = None
      BY <2>3 DEF Add
    <3>2. e # None
      <4>1. next \in Nat
        BY ScheduleConstants DEF FirstRuns, TypeOK
      <4> QED BY <4>1, NoneIsNothing, ScheduleConstants DEF Entry
    <3>3. Stored(entries') = Stored(entries) \cup {id} /\ id \notin Stored(entries)
      <4> HIDE DEF e
      <4> QED BY <3>1, <3>2 DEF Stored, TypeOK, StoreState
    <3>4. IsFiniteSet(Stored(entries))
      BY ScheduleConstants, FS_Subset DEF Stored
    <3>5. Cardinality(Stored(entries')) = Cardinality(Stored(entries)) + 1
      BY <3>3, <3>4, FS_AddElement
    <3>6. Cardinality(Stored(entries)) < Total /\ Cardinality(OwnedBy(entries, u)) < PerUser
      BY <2>3 DEF Add
    <3>7. Cardinality(Stored(entries')) <= Total
      BY <3>4, <3>5, <3>6, FS_CardinalityType, ScheduleConstants
    <3>8. ASSUME NEW v \in Users PROVE Cardinality(OwnedBy(entries', v)) <= PerUser
      <4>1. IsFiniteSet(OwnedBy(entries, v)) /\ id \notin OwnedBy(entries, v)
        BY <3>3, <3>4, FS_Subset DEF OwnedBy
      <4>2. CASE v = u
        <5>1. OwnedBy(entries', v) = OwnedBy(entries, v) \cup {id}
          BY <3>1, <3>3, <4>2 DEF OwnedBy, TypeOK, StoreState, Stored
        <5>2. Cardinality(OwnedBy(entries', v)) = Cardinality(OwnedBy(entries, v)) + 1
          BY <4>1, <5>1, FS_AddElement
        <5> QED BY <3>6, <4>1, <4>2, <5>2, FS_CardinalityType, ScheduleConstants
      <4>3. CASE v # u
        <5>1. OwnedBy(entries', v) = OwnedBy(entries, v)
          BY <3>1, <3>3, <4>3 DEF OwnedBy, TypeOK, StoreState, Stored
        <5> QED BY <5>1 DEF LimitsInv, WithinLimits
      <4> QED BY <4>2, <4>3
    <3>9. ASSUME NEW i \in Stored(entries')
          PROVE  entries'[i].failures < MaxFailures /\ entries'[i].every >= MinInterval
      <4>1. CASE i = id
        BY <2>3, <3>1, <4>1, ScheduleConstants DEF Add, TypeOK, StoreState, Stored
      <4>2. CASE i # id
        BY <3>1, <3>3, <4>2 DEF LimitsInv, WithinLimits, TypeOK, StoreState, Stored
      <4> QED BY <4>1, <4>2
    <3>10. WithinLimits(entries')
      BY <3>7, <3>8, <3>9 DEF WithinLimits
    <3> QED BY <2>3, <3>10 DEF Add, LimitsInv, WithinLimits, Stored, OwnedBy
  <2>4. ASSUME NEW u \in Users, NEW id \in Ids, Delete(u, id)
        PROVE  LimitsInv'
    <3>1. entries' = [entries EXCEPT ![id] = None] /\ UNCHANGED <<disk, snap>>
      BY <2>4 DEF Delete
    <3>2. entries' \in StoreState /\ Shrinks(entries, entries')
      BY <3>1 DEF TypeOK, StoreState, Shrinks, Stored, LimitsInv, WithinLimits
    <3> QED BY <2>1, <3>1, <3>2
  <2>5. ASSUME NEW go \in Launches, Tick(go)
        PROVE  LimitsInv'
    <3>1. /\ entries' = [i \in Ids |-> IF i \in DueAt(now)
                            THEN [entries[i] EXCEPT !.next = Advance(entries[i], now)]
                            ELSE entries[i]]
          /\ UNCHANGED <<disk, snap>>
      BY <2>5 DEF Tick
    <3>2. \A i \in DueAt(now) :
             /\ entries[i] \in Entry
             /\ [entries[i] EXCEPT !.next = Advance(entries[i], now)] \in Entry
      <4> SUFFICES ASSUME NEW i \in DueAt(now)
                   PROVE  /\ entries[i] \in Entry
                          /\ [entries[i] EXCEPT !.next = Advance(entries[i], now)] \in Entry
        OBVIOUS
      <4>1. entries[i] \in Entry /\ now \in Nat
        BY DEF DueAt, Stored, TypeOK, StoreState
      <4>2. Advance(entries[i], now) \in Nat
        BY <4>1, AdvanceType
      <4> QED BY <4>1, <4>2 DEF Entry
    <3>3. entries' \in StoreState
      BY <3>1, <3>2 DEF TypeOK, StoreState
    <3>4. Shrinks(entries, entries')
      <4> SUFFICES ASSUME NEW i \in Stored(entries')
                   PROVE  /\ i \in Stored(entries)
                          /\ entries'[i].user = entries[i].user
                          /\ entries'[i].every = entries[i].every
                          /\ entries'[i].failures < MaxFailures
        BY DEF Shrinks
      <4>1. i \in Ids
        BY DEF Stored
      <4>2. CASE i \in DueAt(now)
        BY <3>1, <3>2, <4>1, <4>2 DEF Entry, DueAt, LimitsInv, WithinLimits
      <4>3. CASE i \notin DueAt(now)
        BY <3>1, <4>1, <4>3 DEF Stored, LimitsInv, WithinLimits
      <4> QED BY <4>2, <4>3
    <3> QED BY <2>1, <3>1, <3>3, <3>4
  <2>6. CASE FlushBegin
    BY <2>6 DEF FlushBegin, LimitsInv, WithinLimits, Stored, OwnedBy
  <2>7. CASE FlushWrite
    BY <2>7, EmptyWithinLimits DEF FlushWrite, LimitsInv, WithinLimits, Stored, OwnedBy
  <2>8. ASSUME NEW r \in Runs, NEW outcome \in Outcomes, Finish(r, outcome)
        PROVE  LimitsInv'
    <3>1. CASE UNCHANGED entries
      BY <2>2, <2>8, <3>1 DEF Finish
    <3>2. ASSUME NEW failed \in BOOLEAN, NEW id \in Ids, entries[id] # None,
                 entries' = [entries EXCEPT ![id] = AfterResult(entries[id], failed)]
          PROVE  LimitsInv'
      <4>1. entries[id] \in Entry
        BY <3>2 DEF TypeOK, StoreState
      <4>2. LET e == AfterResult(entries[id], failed) IN
              \/ e = None
              \/ /\ e \in Entry /\ e.user = entries[id].user /\ e.every = entries[id].every
                 /\ e.failures < MaxFailures
        BY <4>1, ScheduleConstants DEF AfterResult, Entry
      <4>3. entries' \in StoreState
        BY <3>2, <4>2 DEF TypeOK, StoreState
      <4>4. Shrinks(entries, entries')
        BY <3>2, <4>2 DEF TypeOK, StoreState, Shrinks, Stored, LimitsInv, WithinLimits
      <4> QED BY <2>1, <2>8, <4>3, <4>4 DEF Finish
    <3>3. runs[r].id \in Ids
      BY <2>8 DEF Finish, InStage, TypeOK, Run
    <3> QED BY <2>8, <3>1, <3>2, <3>3 DEF Finish, RecordResult
  <2>9. CASE Reboot
    BY <2>9, EmptyWithinLimits DEF Reboot, LimitsInv, WithinLimits, Stored, OwnedBy
  <2>10. ASSUME NEW u \in Users, NEW id \in Ids, NEW r \in Runs, Trigger(u, id, r)
         PROVE  LimitsInv'
    BY <2>2, <2>10 DEF Trigger
  <2>11. CASE Start \/ Stopping \/ Drained \/ Cancel \/ Exit \/ Pass
    BY <2>2, <2>11 DEF Start, Stopping, Drained, Cancel, Exit, Pass
  <2>12. ASSUME NEW r \in Runs, Acquire(r) \/ Queue(r) \/ Abandon(r) \/ End(r)
         PROVE  LimitsInv'
    BY <2>2, <2>12 DEF Acquire, Queue, Abandon, End
  <2>13. CASE UNCHANGED vars
    BY <2>2, <2>13 DEF vars
  <2> QED
    BY <2>3, <2>4, <2>5, <2>6, <2>7, <2>8, <2>9, <2>10, <2>11, <2>12, <2>13
       DEF Next, UserStep, LoopStep, RunStep, ProcessStep
<1>3. LimitsInv => LimitsHold
  BY DEF LimitsInv, LimitsHold
<1> QED BY <1>1, <1>2, <1>3, TypeCorrect, PTL DEF Spec

-----------------------------------------------------------------------------
(* Persistence *)

Writing == loop \in {"write", "lastwrite"}

\* While a write is under way a clean store is what is being written, even when
\* the write before it failed.
CleanInv ==
  /\ ~dirty /\ Writing => entries = snap
  /\ ~dirty /\ ~lost /\ ~Writing /\ loop # "exited" => entries = disk

\* Flush clears the dirty flag before it writes and outside any lock held by the
\* write; no change that arrives meanwhile is taken for written.
THEOREM CleanCorrect == Spec => []CleanMeansPersisted
<1>1. Init => CleanInv
  BY DEF Init, CleanInv, Writing
<1>2. TypeOK /\ CleanInv /\ [Next]_vars => CleanInv'
  <2> SUFFICES ASSUME TypeOK, CleanInv, [Next]_vars PROVE CleanInv'
    OBVIOUS
  <2> USE DEF CleanInv, Writing
  <2>1. ASSUME dirty', UNCHANGED <<disk, snap, lost, loop>>
        PROVE  CleanInv'
    BY <2>1
  <2>2. ASSUME UNCHANGED <<entries, dirty, disk, snap, lost, loop>>
        PROVE  CleanInv'
    BY <2>2
  <2>3. ASSUME NEW u \in Users, NEW id \in Ids, NEW every \in Intervals, NEW next \in FirstRuns,
               Add(u, id, every, next)
        PROVE  CleanInv'
    BY <2>1, <2>3 DEF Add
  <2>4. ASSUME NEW u \in Users, NEW id \in Ids, Delete(u, id)
        PROVE  CleanInv'
    BY <2>1, <2>4 DEF Delete
  <2>5. ASSUME NEW u \in Users, NEW id \in Ids, NEW r \in Runs, Trigger(u, id, r)
        PROVE  CleanInv'
    BY <2>2, <2>5 DEF Trigger
  <2>6. ASSUME NEW go \in Launches, Tick(go)
        PROVE  CleanInv'
    <3>1. CASE dirty'
      BY <2>6, <3>1 DEF Tick
    <3>2. CASE ~dirty'
      <4>1. ~dirty /\ DueAt(now) = {}
        BY <2>6, <3>2 DEF Tick, TypeOK
      <4>2. entries' = entries
        BY <2>6, <4>1 DEF Tick, TypeOK, StoreState
      <4> QED BY <2>6, <4>1, <4>2 DEF Tick
    <3> QED BY <3>1, <3>2
  <2>7. CASE FlushBegin
    BY <2>7 DEF FlushBegin
  <2>8. CASE FlushWrite
    BY <2>8 DEF FlushWrite
  <2>9. CASE Start \/ Stopping \/ Drained \/ Exit
    BY <2>9 DEF Start, Stopping, Drained, Exit
  <2>10. ASSUME NEW r \in Runs, Acquire(r) \/ Queue(r) \/ Abandon(r) \/ End(r)
         PROVE  CleanInv'
    BY <2>2, <2>10 DEF Acquire, Queue, Abandon, End
  <2>11. ASSUME NEW r \in Runs, NEW outcome \in Outcomes, Finish(r, outcome)
         PROVE  CleanInv'
    BY <2>1, <2>2, <2>11 DEF Finish, RecordResult
  <2>12. CASE Cancel \/ Pass
    BY <2>2, <2>12 DEF Cancel, Pass
  <2>13. CASE Reboot
    BY <2>13 DEF Reboot
  <2>14. CASE UNCHANGED vars
    BY <2>2, <2>14 DEF vars
  <2> QED
    BY <2>3, <2>4, <2>5, <2>6, <2>7, <2>8, <2>9, <2>10, <2>11, <2>12, <2>13, <2>14
       DEF Next, UserStep, LoopStep, RunStep, ProcessStep
<1>3. CleanInv => CleanMeansPersisted
  BY DEF CleanInv, CleanMeansPersisted, Writing
<1> QED BY <1>1, <1>2, <1>3, TypeCorrect, PTL DEF Spec

-----------------------------------------------------------------------------
(* The cadence *)

\* Rounding a delay up to a whole number of intervals.
LEMMA RoundUp ==
  ASSUME NEW d \in Nat, NEW n \in Nat \ {0}
  PROVE  LET m == (d \div n + 1) * n IN d < m /\ m <= d + n /\ m % n = 0
<1> DEFINE q == d \div n
<1>1. q \in Nat /\ n * q <= d /\ d < n * q + n
  BY Z3
<1>2. (q + 1) * n = n * q + n
  <2> HIDE DEF q
  <2> QED BY <1>1
<1>3. ((q + 1) * n) % n = 0
  <2> HIDE DEF q
  <2> QED BY <1>1
<1> QED BY <1>1, <1>2, <1>3

\* Whatever the instant of the tick, an entry that fires moves to the one slot
\* of its grid in the interval that follows.
THEOREM CadenceKept == Spec => NextSlotOnGrid
<1>1. TypeOK /\ [Next]_vars =>
        \A i \in Stored(entries) :
          boots' = boots /\ entries'[i] # None /\ entries'[i].next # entries[i].next =>
            /\ entries[i].next <= now /\ now < entries'[i].next
            /\ entries'[i].next <= now + entries[i].every
            /\ (entries'[i].next - entries[i].next) % entries[i].every = 0
  <2> SUFFICES ASSUME TypeOK, [Next]_vars, NEW i \in Stored(entries),
                      boots' = boots, entries'[i] # None, entries'[i].next # entries[i].next
               PROVE  /\ entries[i].next <= now /\ now < entries'[i].next
                      /\ entries'[i].next <= now + entries[i].every
                      /\ (entries'[i].next - entries[i].next) % entries[i].every = 0
    OBVIOUS
  <2>0. i \in Ids /\ entries[i] \in Entry /\ now \in Nat
    BY DEF Stored, TypeOK, StoreState
  <2>1. ASSUME UNCHANGED entries PROVE FALSE
    BY <2>1
  <2>2. \E go \in Launches : Tick(go)
    <3>1. ASSUME NEW u \in Users, NEW id \in Ids, NEW every \in Intervals, NEW next \in FirstRuns,
                 Add(u, id, every, next)
          PROVE  FALSE
      BY <3>1 DEF Add, Stored, TypeOK, StoreState
    <3>2. ASSUME NEW u \in Users, NEW id \in Ids, Delete(u, id)
          PROVE  FALSE
      BY <3>2, <2>0 DEF Delete, TypeOK, StoreState
    <3>3. ASSUME NEW r \in Runs, NEW outcome \in Outcomes, Finish(r, outcome)
          PROVE  FALSE
      <4>1. ASSUME NEW id, NEW failed, entries' = [entries EXCEPT ![id] = AfterResult(entries[id], failed)]
            PROVE  FALSE
        <5>1. CASE id = i
          BY <2>0, <4>1, <5>1 DEF AfterResult, Entry, TypeOK, StoreState
        <5>2. CASE id # i
          BY <2>0, <4>1, <5>2 DEF TypeOK, StoreState
        <5> QED BY <5>1, <5>2
      <4> QED BY <2>1, <3>3, <4>1 DEF Finish, RecordResult
    <3>4. CASE Reboot
      BY <3>4 DEF Reboot, TypeOK
    <3>5. CASE \/ Start \/ FlushBegin \/ FlushWrite \/ Stopping \/ Drained \/ Cancel \/ Exit \/ Pass
              \/ UNCHANGED vars
      BY <2>1, <3>5 DEF Start, FlushBegin, FlushWrite, Stopping, Drained, Cancel, Exit, Pass, vars
    <3>6. ASSUME NEW r \in Runs,
                 \/ Acquire(r) \/ Queue(r) \/ Abandon(r) \/ End(r)
                 \/ \E u \in Users, id \in Ids : Trigger(u, id, r)
          PROVE  FALSE
      BY <2>1, <3>6 DEF Acquire, Queue, Abandon, End, Trigger
    <3> QED
      BY <3>1, <3>2, <3>3, <3>4, <3>5, <3>6 DEF Next, UserStep, LoopStep, RunStep, ProcessStep
  <2>3. i \in DueAt(now) /\ entries'[i].next = Advance(entries[i], now)
    BY <2>0, <2>2 DEF Tick, Entry
  <2>4. entries[i].next \in Nat /\ entries[i].every \in Nat \ {0} /\ entries[i].next <= now
    BY <2>0, <2>3 DEF Entry, DueAt
  <2> DEFINE d == now - entries[i].next
             m == (d \div entries[i].every + 1) * entries[i].every
  <2>5. entries'[i].next = entries[i].next + m
    BY <2>0, <2>3, <2>4 DEF Advance
  <2>6. d < m /\ m <= d + entries[i].every /\ m % entries[i].every = 0
    <3>1. d \in Nat
      BY <2>0, <2>4
    <3> QED BY <2>4, <3>1, RoundUp
  <2>7. m \in Nat
    <3>1. d \div entries[i].every \in Nat
      BY <2>0, <2>4
    <3> QED BY <2>4, <3>1
  <2> HIDE DEF m
  <2> QED BY <2>0, <2>4, <2>5, <2>6, <2>7
<1> QED BY <1>1, TypeCorrect, PTL DEF Spec, NextSlotOnGrid
=============================================================================
