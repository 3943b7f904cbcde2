------------------------------ MODULE Schedules ------------------------------
(***************************************************************************)
(* Recurring queries: the store of internal/schedule/schedule.go, the       *)
(* timer loop, the worker pool and the manual trigger of                    *)
(* internal/schedule/runner.go, the commands of internal/bot/scheduling.go  *)
(* that reach them, and the way the process of cmd/snappcloud-bot stops.    *)
(*                                                                          *)
(* What the store's mutex makes atomic is one action; the unlock in the     *)
(* middle of Flush, the channel that is the pool's semaphore and the        *)
(* goroutine of each run separate the others.  Time is a counter.           *)
(***************************************************************************)
EXTENDS Naturals, FiniteSets

CONSTANTS
  Users,        \* SSO identities
  Ids,          \* the ids newID can draw
  Intervals,    \* cadences users ask for
  MinInterval, PerUser, Total, MaxFailures,   \* schedule.Limits
  Concurrency,  \* RunnerOptions.Concurrency
  Runs,         \* goroutines that may exist at once (a bound of the model)
  MaxTime,      \* last instant of the model (a bound)
  MaxBoots,     \* processes started in one behaviour (a bound)
  Ahead,        \* how far ahead a first run may be asked for (a bound)
  None          \* an absent entry, an idle goroutine

ASSUME ScheduleConstants ==
  /\ IsFiniteSet(Users) /\ IsFiniteSet(Ids) /\ IsFiniteSet(Runs)
  /\ Intervals \subseteq Nat \ {0}
  /\ MinInterval \in Nat \ {0} /\ PerUser \in Nat \ {0} /\ Total \in Nat \ {0}
  /\ MaxFailures \in Nat \ {0} /\ Concurrency \in Nat \ {0}
  /\ MaxTime \in Nat /\ MaxBoots \in Nat /\ Ahead \in Nat

VARIABLES
  entries,   \* Store.m
  dirty,     \* Store.dirty
  disk,      \* the persisted file
  snap,      \* the list Flush copied under the lock
  lost,      \* history: the last write of the file failed
  loop,      \* where the goroutine of Start is
  cancelled, \* the process context is done
  inFlight,  \* Runner.inFlight
  sem,       \* Runner.sem: the goroutines whose token is in the channel
  runs,      \* the goroutines that carry a run
  now, boots

vars == <<entries, dirty, disk, snap, lost, loop, cancelled, inFlight, sem, runs, now, boots>>

\* An entry whose failures are used up is not kept.
Entry == [user: Users, every: Nat \ {0}, next: Nat, failures: 0..(MaxFailures - 1)]

\* "new" has not tried the semaphore, "queued" waits in the second select of
\* acquire, "running" is inside RunScheduled,
\* "ended" still has the inFlight mark of its id to clear.
Run == [id: Ids, kind: {"timed", "manual"},
        stage: {"new", "queued", "running", "ended"}]

ASSUME NoneIsNothing == None \notin Entry /\ None \notin Run

StoreState == [Ids -> Entry \cup {None}]
NoEntries == [i \in Ids |-> None]

Stored(s) == {i \in Ids : s[i] # None}
OwnedBy(s, u) == {i \in Stored(s) : s[i].user = u}
Idle == {r \in Runs : runs[r] = None}
InStage(S) == {r \in Runs : runs[r] # None /\ runs[r].stage \in S}
Manual(id) == {r \in Runs : runs[r] # None /\ runs[r].id = id /\ runs[r].kind = "manual"}

TypeOK ==
  /\ entries \in StoreState /\ disk \in StoreState /\ snap \in StoreState
  /\ dirty \in BOOLEAN /\ lost \in BOOLEAN /\ cancelled \in BOOLEAN
  /\ loop \in {"boot", "select", "flush", "write", "drain", "lastflush", "lastwrite",
               "stopped", "exited"}
  /\ inFlight \subseteq Ids
  /\ sem \subseteq Runs
  /\ runs \in [Runs -> Run \cup {None}]
  /\ now \in Nat /\ boots \in Nat

Init ==
  /\ entries = NoEntries /\ disk = NoEntries /\ snap = NoEntries
  /\ dirty = FALSE /\ lost = FALSE /\ cancelled = FALSE
  /\ loop = "boot"
  /\ inFlight = {} /\ sem = {}
  /\ runs = [r \in Runs |-> None]
  /\ now = 0 /\ boots = 1

Up == loop # "exited"

-----------------------------------------------------------------------------
(* The store and the commands of a user *)

\* As Advance, with the loop of advance left after one turn.
AdvanceOnce(e, t) == IF e.next > t THEN e.next ELSE e.next + e.every

\* advance: the first slot of the entry's grid strictly after t.
Advance(e, t) == IF e.next > t THEN e.next
                 ELSE e.next + ((t - e.next) \div e.every + 1) * e.every

\* As Add, with the owner's quota off by one.
AddPastQuota(u, id, every, next) ==
  /\ Up
  /\ every >= MinInterval
  /\ Cardinality(Stored(entries)) < Total
  /\ Cardinality(OwnedBy(entries, u)) <= PerUser
  /\ entries[id] = None
  /\ entries' = [entries EXCEPT ![id] =
                   [user |-> u, every |-> every, next |-> next, failures |-> 0]]
  /\ dirty' = TRUE
  /\ UNCHANGED <<disk, snap, lost, loop, cancelled, inFlight, sem, runs, now, boots>>

\* Store.Add, called by addSchedule with an entry whose first run is ahead.
Add(u, id, every, next) ==
  /\ Up
  /\ every >= MinInterval
  /\ Cardinality(Stored(entries)) < Total
  /\ Cardinality(OwnedBy(entries, u)) < PerUser
  /\ entries[id] = None
  /\ entries' = [entries EXCEPT ![id] =
                   [user |-> u, every |-> every, next |-> next, failures |-> 0]]
  /\ dirty' = TRUE
  /\ UNCHANGED <<disk, snap, lost, loop, cancelled, inFlight, sem, runs, now, boots>>

\* Store.Delete: only the owner's own entry.
Delete(u, id) ==
  /\ Up
  /\ entries[id] # None /\ entries[id].user = u
  /\ entries' = [entries EXCEPT ![id] = None]
  /\ dirty' = TRUE
  /\ UNCHANGED <<disk, snap, lost, loop, cancelled, inFlight, sem, runs, now, boots>>

\* runNow and Runner.Trigger: Owned copies the entry, Trigger starts a
\* goroutine unless Start has not run or the id is marked.
Trigger(u, id, r) ==
  /\ Up
  /\ entries[id] # None /\ entries[id].user = u
  /\ loop # "boot"
  /\ id \notin inFlight
  /\ r \in Idle
  /\ inFlight' = inFlight \cup {id}
  /\ runs' = [runs EXCEPT ![r] = [id |-> id, kind |-> "manual", stage |-> "new"]]
  /\ UNCHANGED <<entries, dirty, disk, snap, lost, loop, cancelled, sem, now, boots>>

-----------------------------------------------------------------------------
(* The loop of Runner.Start *)

Start ==
  /\ loop = "boot"
  /\ loop' = "select"
  /\ UNCHANGED <<entries, dirty, disk, snap, lost, cancelled, inFlight, sem, runs, now, boots>>

DueAt(t) == {i \in Stored(entries) : entries[i].next <= t}

\* A tick: Store.Due takes every due entry and advances it, runDue starts one
\* goroutine for each and does not wait.  go gives each due id its goroutine.
Tick(go) ==
  /\ loop = "select"
  /\ DueAt(now) = DOMAIN go
  /\ entries' = [i \in Ids |->
                   IF i \in DueAt(now)
                   THEN [entries[i] EXCEPT !.next = Advance(entries[i], now)]
                   ELSE entries[i]]
  /\ dirty' = (dirty \/ DueAt(now) # {})
  /\ runs' = [r \in Runs |->
                IF \E i \in DOMAIN go : go[i] = r
                THEN [id |-> CHOOSE i \in DOMAIN go : go[i] = r,
                      kind |-> "timed", stage |-> "new"]
                ELSE runs[r]]
  /\ loop' = "flush"
  /\ UNCHANGED <<disk, snap, lost, cancelled, inFlight, sem, now, boots>>

\* The first half of Store.Flush, up to the unlock: the list is copied and the
\* entries are clean before anything is written.
FlushBegin ==
  /\ loop \in {"flush", "lastflush"}
  /\ IF dirty
     THEN /\ snap' = entries
          /\ dirty' = FALSE
          /\ loop' = IF loop = "flush" THEN "write" ELSE "lastwrite"
     ELSE /\ loop' = IF loop = "flush" THEN "select" ELSE "stopped"
          /\ UNCHANGED <<snap, dirty>>
  /\ UNCHANGED <<entries, disk, lost, cancelled, inFlight, sem, runs, now, boots>>

\* As FlushWrite, marking the store clean once the file is written.
FlushWriteThenClean ==
  /\ loop \in {"write", "lastwrite"}
  /\ \/ disk' = snap /\ lost' = FALSE
     \/ lost' = TRUE /\ UNCHANGED disk
  /\ dirty' = FALSE
  /\ snap' = NoEntries
  /\ loop' = IF loop = "write" THEN "select" ELSE "stopped"
  /\ UNCHANGED <<entries, cancelled, inFlight, sem, runs, now, boots>>

\* The second half: the temporary file is written and renamed, or a failure
\* returns with nothing said.
FlushWrite ==
  /\ loop \in {"write", "lastwrite"}
  /\ \/ disk' = snap /\ lost' = FALSE
     \/ lost' = TRUE /\ UNCHANGED disk
  /\ snap' = NoEntries
  /\ loop' = IF loop = "write" THEN "select" ELSE "stopped"
  /\ UNCHANGED <<entries, dirty, cancelled, inFlight, sem, runs, now, boots>>

\* ctx.Done: wait() until no goroutine is left, then the last flush.
Stopping ==
  /\ loop = "select" /\ cancelled
  /\ loop' = "drain"
  /\ UNCHANGED <<entries, dirty, disk, snap, lost, cancelled, inFlight, sem, runs, now, boots>>

Drained ==
  /\ loop = "drain"
  /\ Idle = Runs
  /\ loop' = "lastflush"
  /\ UNCHANGED <<entries, dirty, disk, snap, lost, cancelled, inFlight, sem, runs, now, boots>>

-----------------------------------------------------------------------------
(* One run *)

\* As Acquire, with a pool one larger than configured.
AcquireOneMore(r) ==
  /\ Up /\ r \in InStage({"new", "queued"})
  /\ Cardinality(sem) <= Concurrency
  /\ sem' = sem \cup {r}
  /\ runs' = [runs EXCEPT ![r].stage = "running"]
  /\ UNCHANGED <<entries, dirty, disk, snap, lost, loop, cancelled, inFlight, now, boots>>

\* acquire: a free slot is taken at the first try or after a wait.
Acquire(r) ==
  /\ Up /\ r \in InStage({"new", "queued"})
  /\ Cardinality(sem) < Concurrency
  /\ sem' = sem \cup {r}
  /\ runs' = [runs EXCEPT ![r].stage = "running"]
  /\ UNCHANGED <<entries, dirty, disk, snap, lost, loop, cancelled, inFlight, now, boots>>

Queue(r) ==
  /\ Up /\ r \in InStage({"new"})
  /\ Cardinality(sem) >= Concurrency
  /\ runs' = [runs EXCEPT ![r].stage = "queued"]
  /\ UNCHANGED <<entries, dirty, disk, snap, lost, loop, cancelled, inFlight, sem, now, boots>>

\* A queued run gives up when the process context is done.
Abandon(r) ==
  /\ Up /\ r \in InStage({"queued"})
  /\ cancelled
  /\ runs' = [runs EXCEPT ![r].stage = "ended"]
  /\ UNCHANGED <<entries, dirty, disk, snap, lost, loop, cancelled, inFlight, sem, now, boots>>

\* What RecordResult leaves of an entry.
AfterResult(e, failed) ==
  IF ~failed THEN [e EXCEPT !.failures = 0]
  ELSE IF e.failures + 1 >= MaxFailures THEN None
  ELSE [e EXCEPT !.failures = @ + 1]

\* Store.RecordResult on the id of the run, whatever entry has it now.
RecordResult(id, failed) ==
  IF entries[id] = None \/ (~failed /\ entries[id].failures = 0)
  THEN UNCHANGED <<entries, dirty>>
  ELSE /\ entries' = [entries EXCEPT ![id] = AfterResult(@, failed)]
       /\ dirty' = TRUE

\* RunScheduled returns and the deferred receive of acquire frees the slot: nil
\* and ErrSkipped are no failure; a panic is recovered before anything is recorded.
Outcomes == {"ok", "skipped", "error", "panic"}

\* As Finish, with the token of a panicking run left in the channel.
FinishKeepsToken(r, outcome) ==
  /\ Up /\ r \in InStage({"running"})
  /\ IF outcome = "panic" THEN UNCHANGED <<entries, dirty>>
     ELSE RecordResult(runs[r].id, outcome = "error")
  /\ sem' = IF outcome = "panic" THEN sem ELSE sem \ {r}
  /\ runs' = [runs EXCEPT ![r].stage = "ended"]
  /\ UNCHANGED <<disk, snap, lost, loop, cancelled, inFlight, now, boots>>

Finish(r, outcome) ==
  /\ Up /\ r \in InStage({"running"})
  /\ IF outcome = "panic" THEN UNCHANGED <<entries, dirty>>
     ELSE RecordResult(runs[r].id, outcome = "error")
  /\ sem' = sem \ {r}
  /\ runs' = [runs EXCEPT ![r].stage = "ended"]
  /\ UNCHANGED <<disk, snap, lost, loop, cancelled, inFlight, now, boots>>

\* As End, with the mark left behind by a manual run.
EndMarked(r) ==
  /\ Up /\ r \in InStage({"ended"})
  /\ runs' = [runs EXCEPT ![r] = None]
  /\ UNCHANGED <<entries, dirty, disk, snap, lost, loop, cancelled, inFlight, sem, now, boots>>

\* The deferred calls of the goroutine: a manual run clears its mark.
End(r) ==
  /\ Up /\ r \in InStage({"ended"})
  /\ inFlight' = IF runs[r].kind = "manual" THEN inFlight \ {runs[r].id} ELSE inFlight
  /\ runs' = [runs EXCEPT ![r] = None]
  /\ UNCHANGED <<entries, dirty, disk, snap, lost, loop, cancelled, sem, now, boots>>

-----------------------------------------------------------------------------
(* The process and the clock *)

\* SIGTERM.
Cancel ==
  /\ Up /\ ~cancelled
  /\ cancelled' = TRUE
  /\ UNCHANGED <<entries, dirty, disk, snap, lost, loop, inFlight, sem, runs, now, boots>>

\* run() returns as soon as Listen does: no goroutine is waited for.
Exit ==
  /\ Up /\ cancelled
  /\ loop' = "exited"
  /\ UNCHANGED <<entries, dirty, disk, snap, lost, cancelled, inFlight, sem, runs, now, boots>>

\* A new process, after an exit or a crash anywhere: NewStore loads the file.
Reboot ==
  /\ boots < MaxBoots
  /\ boots' = boots + 1
  /\ entries' = disk
  /\ dirty' = FALSE /\ lost' = FALSE /\ cancelled' = FALSE
  /\ snap' = NoEntries
  /\ loop' = "boot"
  /\ inFlight' = {} /\ sem' = {}
  /\ runs' = [r \in Runs |-> None]
  /\ UNCHANGED <<disk, now>>

Pass ==
  /\ Up /\ now < MaxTime
  /\ now' = now + 1
  /\ UNCHANGED <<entries, dirty, disk, snap, lost, loop, cancelled, inFlight, sem, runs, boots>>

-----------------------------------------------------------------------------
\* The ways to give each due entry a goroutine of its own.
Launches == {go \in [DueAt(now) -> Idle] : \A i, j \in DueAt(now) : go[i] = go[j] => i = j}

FirstRuns == {now + d : d \in 1..Ahead}

UserStep ==
  \E u \in Users, id \in Ids :
    \/ \E every \in Intervals : \E next \in FirstRuns : Add(u, id, every, next)
    \/ Delete(u, id)
    \/ \E r \in Runs : Trigger(u, id, r)

LoopStep ==
  \/ Start
  \/ \E go \in Launches : Tick(go)
  \/ FlushBegin \/ FlushWrite
  \/ Stopping \/ Drained

RunStep(r) ==
  \/ Acquire(r) \/ Queue(r) \/ Abandon(r)
  \/ \E outcome \in Outcomes : Finish(r, outcome)
  \/ End(r)

ProcessStep == Cancel \/ Exit \/ Reboot \/ Pass

Next ==
  \/ UserStep
  \/ LoopStep
  \/ \E r \in Runs : RunStep(r)
  \/ ProcessStep

Spec == Init /\ [][Next]_vars

\* A goroutine that can move does; a sender blocked on the semaphore is served
\* in arrival order, so one that is offered a slot again and again gets it; a
\* run returns because its context has a deadline.
Fairness ==
  /\ WF_vars(LoopStep)
  /\ \A r \in Runs : WF_vars(RunStep(r)) /\ SF_vars(Acquire(r))

FairSpec == Spec /\ Fairness

-----------------------------------------------------------------------------
(* Properties *)

WithinLimits(s) ==
  /\ Cardinality(Stored(s)) <= Total
  /\ \A u \in Users : Cardinality(OwnedBy(s, u)) <= PerUser
  /\ \A i \in Stored(s) : s[i].failures < MaxFailures /\ s[i].every >= MinInterval

\* No interleaving of commands, results, flushes and restarts leaves more
\* schedules than Limits allow, or keeps one that has used its failures:
\* Store.Add and Store.RecordResult are the only guards, and the file that a
\* restart loads was written by an earlier process.
LimitsHold == WithinLimits(entries) /\ WithinLimits(disk)

\* The pool of runner.go bounds timed and manual runs together, across the
\* hand-over of a token from a finishing run to a waiting one.
PoolBound == Cardinality(InStage({"running"})) <= Concurrency

\* The mark Trigger takes lives exactly as long as the manual run of the id, so
\* no path out of the run (a panic, a queue left at shutdown) leaves an id that
\* answers "already running" for ever, and no id has two manual runs.
MarkFollowsManualRun ==
  /\ inFlight = {runs[r].id : r \in {q \in Runs : runs[q] # None /\ runs[q].kind = "manual"}}
  /\ \A id \in Ids, r, q \in Runs : {r, q} \subseteq Manual(id) => r = q

\* A clean store is the file, whatever commands and results arrived while the
\* loop was writing it; only a write that failed may leave it behind.
CleanMeansPersisted ==
  ~dirty /\ ~lost =>
    IF loop \in {"write", "lastwrite"} THEN entries = snap
    ELSE loop # "exited" => entries = disk

\* When a schedule fires, its next run becomes the first slot of its own grid
\* that is still ahead: missed slots collapse into one run, none is due twice
\* and the cadence does not drift with the time the tick happened to come.
NextSlotOnGrid ==
  [][\A i \in Stored(entries) :
       boots' = boots /\ entries'[i] # None /\ entries'[i].next # entries[i].next =>
         /\ entries[i].next <= now /\ now < entries'[i].next
         /\ entries'[i].next <= now + entries[i].every
         /\ (entries'[i].next - entries[i].next) % entries[i].every = 0]_vars

\* Every accepted run comes to its end: none waits for ever for a token that
\* another run kept, whatever panics or restarts happen.
EveryRunEnds == \A r \in Runs : runs[r] # None ~> runs[r] = None \/ loop = "exited"
=============================================================================
