-------------------------------- MODULE Alerts --------------------------------
(***************************************************************************)
(* Alert channels: the window and cooldown of internal/alerts/aggregator.go, *)
(* the runner of internal/alerts/runner.go, the marks of                     *)
(* internal/alerts/channels.go while a process lives, and what               *)
(* Service.Investigate of internal/bot/alerts.go returns.                    *)
(*                                                                           *)
(* An alert is its fingerprint.  The fingerprint holds the cluster label, so *)
(* ClusterOf is a function of it; it does not hold the severity, which each  *)
(* notification brings along and of which a window keeps the first.  Times   *)
(* are kept as the time elapsed since, which is all the code compares, so    *)
(* that time itself has no bound.                                            *)
(***************************************************************************)
EXTENDS Naturals, FiniteSets

CONSTANTS
  Channels, Owners,
  Alerts,        \* fingerprints
  Ranks,         \* the values of severityRank, 0 the worst
  ClusterOf,     \* AlertCluster of each
  Routed,        \* which alert is posted where, how severe (a bound of the model)
  Ignored,       \* Limits.IgnoredAlerts
  MinRank,       \* severityRank(Limits.MinSeverity)
  Window, Cooldown, MaxPerWindow,   \* alerts.Limits
  Concurrency,   \* RunnerOptions.Concurrency
  MaxJobs,       \* batches that may be under way at once (a bound of the model)
  MaxRepeat,     \* cap on the loudness that is counted (a bound)
  None

Clusters == {ClusterOf[a] : a \in Alerts}
Jobs == 1..MaxJobs

ASSUME AlertConstants ==
  /\ IsFiniteSet(Channels) /\ IsFiniteSet(Alerts)
  /\ Ranks \subseteq Nat /\ MinRank \in Nat /\ MaxJobs \in Nat
  /\ Ignored \subseteq Alerts /\ Routed \subseteq Channels \X Alerts \X Ranks
  /\ Window \in Nat \ {0} /\ Cooldown \in Nat \ {0} /\ MaxPerWindow \in Nat \ {0}
  /\ Concurrency \in Nat \ {0} /\ MaxRepeat \in Nat \ {0}
  /\ None \notin Nat /\ None \notin Owners /\ None \notin Channels

VARIABLES
  marks,      \* Channels.m: the owner of a marked channel
  pending,    \* Aggregator.pending
  opened,     \* time since the channel's window opened
  lastRun,    \* time since the alert was last handed out, as the map has it
  jobs,       \* batches between Due and their end
  cancelled,  \* the process context is done
  quiet,      \* history: time since the alert was last handed out
  by,         \* history: the batch it was handed out to, while that is under way
  fate,       \* history: how that batch ended
  overtaken   \* history: since then a batch of an earlier hand-out failed

history == <<quiet, by, fate, overtaken>>
vars == <<marks, pending, opened, lastRun, jobs, cancelled, history>>

\* pendingAlert, with its place in the order of arrival.
Buffered == [rank: Ranks, repeat: 1..MaxRepeat, seen: Nat]
NoAlerts == [a \in Alerts |-> None]

\* A batch: "due" until runDue looked its channel up, "queued" for a slot,
\* "running" inside Service.Investigate.
\* A batch goes on only with an owner, whose access it will use.
Batch == {b \in [ch: Channels, inv: SUBSET Alerts, ctx: SUBSET Alerts, skip: SUBSET Alerts,
                 owner: Owners \cup {None}, stage: {"due", "queued", "running"}] :
            b.owner = None => b.stage = "due"}

\* What becomes of a hand-out.  Investigate returns nil with an answer posted, or
\* "silent": the model said nothing, or the owner has no access any more.
Fates == {"none", "open", "answered", "silent", "dropped", "panicked", "failed"}

ASSUME NoneIsNoBatch == None \notin Buffered /\ None \notin Batch

TypeOK ==
  /\ marks \in [Channels -> Owners \cup {None}]
  /\ pending \in [Channels -> [Alerts -> Buffered \cup {None}]]
  /\ opened \in [Channels -> Nat \cup {None}]
  /\ lastRun \in [Alerts -> Nat \cup {None}]
  /\ jobs \in [Jobs -> Batch \cup {None}]
  /\ cancelled \in BOOLEAN
  /\ quiet \in [Alerts -> Nat]
  /\ by \in [Alerts -> Jobs \cup {None}]
  /\ fate \in [Alerts -> Fates]
  /\ overtaken \in [Alerts -> BOOLEAN]

Init ==
  /\ marks = [c \in Channels |-> None]
  /\ pending = [c \in Channels |-> NoAlerts]
  /\ opened = [c \in Channels |-> None]
  /\ lastRun = [a \in Alerts |-> None]
  /\ jobs = [j \in Jobs |-> None]
  /\ cancelled = FALSE
  /\ quiet = [a \in Alerts |-> Cooldown]
  /\ by = [a \in Alerts |-> None]
  /\ fate = [a \in Alerts |-> "none"]
  /\ overtaken = [a \in Alerts |-> FALSE]

Free == {j \in Jobs : jobs[j] = None}
InStage(st) == {j \in Jobs : jobs[j] # None /\ jobs[j].stage = st}

-----------------------------------------------------------------------------
(* Commands and posts *)

\* "alerts on": re-marking hands the channel to the new owner.  Nothing is
\* received any more once the process context is done.
Mark(c, o) ==
  /\ ~cancelled
  /\ marks' = [marks EXCEPT ![c] = o]
  /\ UNCHANGED <<pending, opened, lastRun, jobs, cancelled, history>>

\* "alerts off".
Unmark(c) ==
  /\ ~cancelled
  /\ marks[c] # None
  /\ marks' = [marks EXCEPT ![c] = None]
  /\ UNCHANGED <<pending, opened, lastRun, jobs, cancelled, history>>

Accepted(a, r) == a \notin Ignored /\ r <= MinRank

InWindow(c) == {a \in Alerts : pending[c][a] # None}

Lesser(m, n) == IF m < n THEN m ELSE n

\* A repeat only counts.
Louder(p) == [p EXCEPT !.repeat = Lesser(p.repeat + 1, MaxRepeat)]

\* As Ingest, each alert opening the window anew.
IngestReopens(c, a, r) ==
  /\ ~cancelled /\ marks[c] # None
  /\ Accepted(a, r)
  /\ opened' = [opened EXCEPT ![c] = 0]
  /\ pending' = [pending EXCEPT ![c][a] =
       IF @ = None THEN [rank |-> r, repeat |-> 1, seen |-> Cardinality(InWindow(c))]
       ELSE Louder(@)]
  /\ UNCHANGED <<marks, lastRun, jobs, cancelled, history>>

\* ingestAlert and Aggregator.Add on a firing alert that passes the filters: the
\* first of a window opens it, a repeat only counts, whatever its severity.
Ingest(c, a, r) ==
  /\ ~cancelled /\ marks[c] # None
  /\ Accepted(a, r)
  /\ opened' = IF InWindow(c) = {} THEN [opened EXCEPT ![c] = 0] ELSE opened
  /\ pending' = [pending EXCEPT ![c][a] =
       IF @ = None THEN [rank |-> r, repeat |-> 1, seen |-> Cardinality(InWindow(c))]
       ELSE Louder(@)]
  /\ UNCHANGED <<marks, lastRun, jobs, cancelled, history>>

-----------------------------------------------------------------------------
(* Aggregator.Due *)

Closing == {c \in Channels : opened[c] # None /\ opened[c] >= Window}

Group(c, k) == {a \in InWindow(c) : ClusterOf[a] = k}

\* Loudest first, severity forgotten.
AheadByNoise(c, a, b) ==
  LET p == pending[c][a]  q == pending[c][b] IN
  \/ p.repeat > q.repeat
  \/ p.repeat = q.repeat /\ p.seen < q.seen

\* The order of the budget: worst, then loudest, then oldest.
Ahead(c, a, b) ==
  LET p == pending[c][a]  q == pending[c][b] IN
  \/ p.rank < q.rank
  \/ p.rank = q.rank /\ p.repeat > q.repeat
  \/ p.rank = q.rank /\ p.repeat = q.repeat /\ p.seen < q.seen

\* Subjects and context together use up the budget of the cluster's batch.
InBudget(c, a) ==
  Cardinality({b \in Group(c, ClusterOf[a]) : Ahead(c, b, a)}) < MaxPerWindow

Cooling(a) == lastRun[a] # None /\ lastRun[a] < Cooldown

\* Due walks the channels in the order of a map, ord: an alert that an earlier
\* channel hands out is in its cooldown for the later ones.
Fresh(ord, c, a) ==
  /\ ~Cooling(a)
  /\ \A d \in Closing : ord[d] < ord[c] /\ a \in InWindow(d) => ~InBudget(d, a)

Subjects(ord, c, k) == {a \in Group(c, k) : InBudget(c, a) /\ Fresh(ord, c, a)}

\* A cluster with nothing fresh within the budget produces no batch.
Emitted(ord) ==
  {[ch |-> p[1], owner |-> None, stage |-> "due",
    inv |-> Subjects(ord, p[1], p[2]),
    ctx |-> {a \in Group(p[1], p[2]) : InBudget(p[1], a) /\ ~Fresh(ord, p[1], a)},
    skip |-> {a \in Group(p[1], p[2]) : ~InBudget(p[1], a)}] :
   p \in {q \in Closing \X Clusters : Subjects(ord, q[1], q[2]) # {}}}

HandedOut(batches) == UNION {b.inv : b \in batches}

\* As Pruned, dropping entries after a window instead of after the cooldown.
PrunedEarly(a) == IF lastRun[a] # None /\ lastRun[a] >= Window THEN None ELSE lastRun[a]

\* The cooldown map without the entries that can suppress nothing.
Pruned(a) == IF lastRun[a] # None /\ lastRun[a] > Cooldown THEN None ELSE lastRun[a]

\* One tick of the loop: Due closes the windows and stamps what it hands out.
\* put gives each batch its place among the jobs.
Tick(ord, put) ==
  /\ ~cancelled
  /\ InStage("due") = {}
  /\ LET batches == DOMAIN put IN
     /\ batches = Emitted(ord)
     /\ pending' = [c \in Channels |-> IF c \in Closing THEN NoAlerts ELSE pending[c]]
     /\ opened' = [c \in Channels |-> IF c \in Closing THEN None ELSE opened[c]]
     /\ lastRun' = [a \in Alerts |-> IF a \in HandedOut(batches) THEN 0 ELSE Pruned(a)]
     /\ jobs' = [j \in Jobs |-> IF \E b \in batches : put[b] = j
                                THEN CHOOSE b \in batches : put[b] = j ELSE jobs[j]]
     /\ quiet' = [a \in Alerts |-> IF a \in HandedOut(batches) THEN 0 ELSE quiet[a]]
     /\ by' = [a \in Alerts |-> IF a \in HandedOut(batches)
                                THEN put[CHOOSE b \in batches : a \in b.inv] ELSE by[a]]
     /\ fate' = [a \in Alerts |-> IF a \in HandedOut(batches) THEN "open" ELSE fate[a]]
     /\ overtaken' = [a \in Alerts |-> a \notin HandedOut(batches) /\ overtaken[a]]
  /\ UNCHANGED <<marks, cancelled>>

-----------------------------------------------------------------------------
(* One batch *)

\* The batch is over, for the alerts whose last hand-out it was in this way.
Over(j, how) ==
  /\ jobs' = [jobs EXCEPT ![j] = None]
  /\ by' = [a \in Alerts |-> IF by[a] = j THEN None ELSE by[a]]
  /\ fate' = [a \in Alerts |-> IF by[a] = j THEN how ELSE fate[a]]
  /\ UNCHANGED <<marks, pending, opened, cancelled, quiet>>

\* The rest of runDue: a batch goes on with the channel's owner of now.
Dispatch(j) ==
  /\ j \in InStage("due")
  /\ marks[jobs[j].ch] # None
  /\ jobs' = [jobs EXCEPT ![j].stage = "queued", ![j].owner = marks[jobs[j].ch]]
  /\ UNCHANGED <<marks, pending, opened, lastRun, cancelled, history>>

\* A channel that was unmarked meanwhile drops its batch, and the cooldown stays.
Drop(j) ==
  /\ j \in InStage("due")
  /\ marks[jobs[j].ch] = None
  /\ Over(j, "dropped")
  /\ UNCHANGED <<lastRun, overtaken>>

\* investigate gets its slot.
Acquire(j) ==
  /\ j \in InStage("queued")
  /\ Cardinality(InStage("running")) < Concurrency
  /\ jobs' = [jobs EXCEPT ![j].stage = "running"]
  /\ UNCHANGED <<marks, pending, opened, lastRun, cancelled, history>>

\* As Failed, keeping the cooldown of all alerts.
FailedKeepsCooldown(j) ==
  /\ Over(j, "failed")
  /\ UNCHANGED <<lastRun, overtaken>>

\* Aggregator.Failed: it forgets the stamp, whatever batch set it.
Failed(j) ==
  /\ lastRun' = [a \in Alerts |-> IF a \in jobs[j].inv THEN None ELSE lastRun[a]]
  /\ overtaken' = [a \in Alerts |-> overtaken[a] \/ (a \in jobs[j].inv /\ by[a] # j)]
  /\ Over(j, "failed")

\* A queued batch when the process stops.
Abandon(j) ==
  /\ j \in InStage("queued") /\ cancelled
  /\ Failed(j)

\* Investigate returned an error: the owner's access could not be read, the
\* agent failed, or the answer was not delivered.
Fail(j) ==
  /\ j \in InStage("running")
  /\ Failed(j)

\* Investigate returned nil, or panicked, which the runner recovers and logs: the
\* cooldown stays.
Settle(j) ==
  /\ j \in InStage("running")
  /\ \E how \in {"answered", "silent", "panicked"} : Over(j, how)
  /\ UNCHANGED <<lastRun, overtaken>>

-----------------------------------------------------------------------------
Cancel ==
  /\ ~cancelled
  /\ cancelled' = TRUE
  /\ UNCHANGED <<marks, pending, opened, lastRun, jobs, history>>

\* The clock, each elapsed time counted no further than anything compares it.
Pass ==
  /\ opened' = [c \in Channels |->
       IF opened[c] = None THEN None ELSE Lesser(opened[c] + 1, Window)]
  /\ lastRun' = [a \in Alerts |->
       IF lastRun[a] = None THEN None ELSE Lesser(lastRun[a] + 1, Cooldown + 1)]
  /\ quiet' = [a \in Alerts |-> Lesser(quiet[a] + 1, Cooldown)]
  /\ UNCHANGED <<marks, pending, jobs, cancelled, by, fate, overtaken>>

-----------------------------------------------------------------------------
Orders == {ord \in [Closing -> 1..Cardinality(Closing)] :
             \A c, d \in Closing : ord[c] = ord[d] => c = d}

\* Which job is which does not matter, so the lowest free ones are taken.
Placements(ord) ==
  {put \in [Emitted(ord) -> Free] :
     /\ \A b, d \in Emitted(ord) : put[b] = put[d] => b = d
     /\ \A b \in Emitted(ord), j \in Free : j < put[b] => \E d \in Emitted(ord) : put[d] = j}

TickStep == \E ord \in Orders : \E put \in Placements(ord) : Tick(ord, put)
JobStep(j) == Dispatch(j) \/ Drop(j) \/ Acquire(j) \/ Abandon(j) \/ Fail(j) \/ Settle(j)

Next ==
  \/ \E c \in Channels :
       \/ \E o \in Owners : Mark(c, o)
       \/ Unmark(c)
       \/ \E a \in Alerts, r \in Ranks : <<c, a, r>> \in Routed /\ Ingest(c, a, r)
  \/ TickStep
  \/ \E j \in Jobs : JobStep(j)
  \/ Cancel \/ Pass

Spec == Init /\ [][Next]_vars

\* The ticker and the clock go on; an investigation returns because its context
\* has a deadline; a blocked sender on the semaphore is served in turn.
Fairness ==
  /\ WF_vars(Pass) /\ WF_vars(TickStep)
  /\ \A j \in Jobs : WF_vars(JobStep(j)) /\ SF_vars(Acquire(j))

FairSpec == Spec /\ Fairness

-----------------------------------------------------------------------------
(* Properties *)

NewJob(j) == jobs[j] = None /\ jobs'[j] # None

\* A batch spends its cluster's budget on the worst alerts of the window: it is
\* about something new, holds no alert twice, leaves something out only when the
\* budget is spent, and nothing it leaves out is more severe than what it carries.
WorstFirst ==
  [][\A j \in Jobs : NewJob(j) =>
       LET b == jobs'[j]  carried == b.inv \cup b.ctx IN
       /\ b.inv # {}
       /\ b.inv \cap b.ctx = {} /\ carried \cap b.skip = {}
       /\ Cardinality(carried) <= MaxPerWindow
       /\ b.skip # {} => Cardinality(carried) = MaxPerWindow
       /\ \A a \in carried, s \in b.skip : pending[b.ch][a].rank <= pending[b.ch][s].rank]_vars

\* No alert is handed out twice at once, by two channels whose windows close together
\* for one, nor again within its cooldown, from whatever channel: the map may be
\* pruned, but never of an entry that still suppresses something.  The exceptions are
\* that the investigation failed, and that the one of an earlier hand-out did, which
\* was still under way: Failed forgets the stamp of the later one.
NoEarlyRepeat ==
  [][\A j \in Jobs : NewJob(j) => \A a \in jobs'[j].inv :
       /\ quiet[a] >= Cooldown \/ fate[a] = "failed" \/ overtaken[a]
       /\ \A i \in Jobs \ {j} : NewJob(i) => a \notin jobs'[i].inv]_vars

\* The ends that keep an alert quiet with nothing said about it: the channel was
\* unmarked between the tick and the batch, the investigation panicked or had
\* nothing to say.  Only an error gives the cooldown back.
Unanswered == {"dropped", "panicked", "silent"}

\* An alert that is being kept quiet is with the batch it was last handed out to, or
\* was answered by it, save for the ends in Unanswered: no path of a failing batch
\* leaves its alerts silenced for the rest of the cooldown, whatever becomes of other
\* batches with the same alert.
QuietHasALook ==
  \A a \in Alerts : Cooling(a) =>
    \/ \E j \in Jobs : by[a] = j /\ jobs[j] # None /\ a \in jobs[j].inv
    \/ fate[a] \in {"answered"} \cup Unanswered

\* A window is closed a fixed time after its first alert, however many follow,
\* and every batch it produces comes to its end.
WindowCloses ==
  /\ \A c \in Channels : opened[c] # None ~> opened[c] = None \/ cancelled
  /\ \A j \in Jobs : jobs[j] # None ~> jobs[j] = None
=============================================================================
