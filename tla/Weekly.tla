------------------------------- MODULE Weekly -------------------------------
(***************************************************************************)
(* The weekly best-practice report: the timer and the one-job runner of       *)
(* internal/bestpractice/runner.go, Collect of inventory.go as far as which    *)
(* clusters were read, and the history that Store.Add of report.go keeps.      *)
(*                                                                           *)
(* Time is counted in ticks much longer than the runner's own, so that check   *)
(* runs as often as it likes within one.                                      *)
(***************************************************************************)
EXTENDS Naturals, Sequences, FiniteSets, SequencesExt, FiniteSetsExt

CONSTANTS
  Clusters,
  Problems,     \* per cluster: the keys of what may be wrong there
  Period,       \* between two slots
  CatchUp,
  None,
  MaxTime, MaxReports, MaxCrashes, MaxFailedWrites  \* bounds of the model

Keys == UNION {Problems[c] : c \in Clusters}
ClusterOf(k) == CHOOSE c \in Clusters : k \in Problems[c]

ASSUME WeeklyConstants ==
  /\ IsFiniteSet(Clusters) /\ \A c \in Clusters : IsFiniteSet(Problems[c])
  /\ \A c, d \in Clusters : c # d => Problems[c] \cap Problems[d] = {}
  /\ {Period, CatchUp} \subseteq Nat \ {0} /\ CatchUp < Period
  /\ {MaxTime, MaxReports, MaxCrashes, MaxFailedWrites} \subseteq Nat
  /\ None \notin Nat

VARIABLES
  now,
  store,     \* Store.st: the last slot, the reports, when each key was first seen
  disk,      \* its file
  busy,      \* Runner.busy
  accepted,  \* the slot whose job check has started and not marked yet
  up,        \* the process runs
  fires,     \* history: how often each slot's job was started
  again,     \* history: starts of a slot's job that was started before
  first,     \* history: the slots that a start without a record marked
  gaps,      \* history: crashes that lost the mark of a slot whose job had started
  failedWrites, crashes

vars == <<now, store, disk, busy, accepted, up, fires, again, first, gaps, failedWrites, crashes>>

Times == 0..MaxTime
Slots == {s \in Times : s % Period = 0}
Report == [created: Times, scanned: (SUBSET Clusters) \ {{}}, keys: SUBSET Keys,
           new: Nat, fixed: Nat]
State == [lastSlot: Slots \cup {None}, reports: Seq(Report), firstSeen: [Keys -> Times \cup {None}]]

TypeOK ==
  /\ now \in Times /\ store \in State /\ disk \in State
  /\ busy \in {None, "scheduled", "asked", "other"} /\ accepted \in Slots \cup {None}
  /\ up \in BOOLEAN
  /\ fires \in [Slots -> Nat] /\ again \in Nat /\ first \subseteq Slots /\ gaps \in Nat

Empty == [lastSlot |-> None, reports |-> <<>>, firstSeen |-> [k \in Keys |-> None]]

Init ==
  /\ now = 0 /\ store = Empty /\ disk = Empty
  /\ busy = None /\ accepted = None /\ up = TRUE
  /\ fires = [s \in Slots |-> 0] /\ again = 0 /\ first = {} /\ gaps = 0
  /\ failedWrites = 0 /\ crashes = 0

\* A writer that gives up before it has changed anything.
SaveOrNothing(st) ==
  \/ store' = st /\ disk' = st /\ UNCHANGED failedWrites
  \/ failedWrites < MaxFailedWrites /\ failedWrites' = failedWrites + 1 /\ UNCHANGED <<store, disk>>

\* Every change of the store ends with a flush of the whole store, which may fail and
\* then leaves the old file.
Save(st) ==
  /\ store' = st
  /\ \/ disk' = st /\ UNCHANGED failedWrites
     \/ failedWrites < MaxFailedWrites /\ failedWrites' = failedWrites + 1 /\ UNCHANGED disk

-----------------------------------------------------------------------------
(* The timer. *)

\* The latest slot at or before now.
Slot == now - (now % Period)

Mark(s) == Save([store EXCEPT !.lastSlot = s])

Unrecorded == store.lastSlot = None
Due == ~Unrecorded /\ Slot > store.lastSlot
TooLate == now - Slot > CatchUp

\* The very first start marks the latest slot and fires nothing.
CheckFirst ==
  /\ up /\ accepted = None /\ Unrecorded
  /\ Mark(Slot) /\ first' = first \cup {Slot}
  /\ UNCHANGED <<now, busy, accepted, up, fires, again, gaps, crashes>>

\* A busy runner loses the slot.
CheckTooLateOrBusy ==
  /\ up /\ accepted = None /\ Due /\ (TooLate \/ busy # None)
  /\ Mark(Slot)
  /\ UNCHANGED <<now, busy, accepted, up, fires, again, first, gaps, crashes>>
CheckTooLate ==
  /\ up /\ accepted = None /\ Due /\ TooLate
  /\ Mark(Slot)
  /\ UNCHANGED <<now, busy, accepted, up, fires, again, first, gaps, crashes>>

\* Do accepts the build; a busy runner leaves the slot for a later tick.
CheckFires ==
  /\ up /\ accepted = None /\ Due /\ ~TooLate /\ busy = None
  /\ busy' = "scheduled" /\ accepted' = Slot
  /\ fires' = [fires EXCEPT ![Slot] = @ + 1]
  /\ again' = again + (IF fires[Slot] > 0 THEN 1 ELSE 0)
  /\ UNCHANGED <<now, store, disk, up, first, gaps, failedWrites, crashes>>

CheckMarks ==
  /\ up /\ accepted # None
  /\ Mark(accepted) /\ accepted' = None
  /\ UNCHANGED <<now, busy, up, fires, again, first, gaps, crashes>>

-----------------------------------------------------------------------------
(* Jobs: the build, timed or asked for, and those that keep the runner busy.   *)

Demand(kind) ==
  /\ up /\ busy = None /\ busy' = kind
  /\ UNCHANGED <<now, store, disk, accepted, up, fires, again, first, gaps, failedWrites, crashes>>

Latest == Last(store.reports)

\* What a report says is new and fixed: of the clusters that it and the one before it
\* could both read.
Compared(scanned) == IF store.reports = <<>> THEN {} ELSE scanned \cap Latest.scanned
In(keys, clusters) == {k \in keys : ClusterOf(k) \in clusters}
NewKeys(scanned, keys) == In(keys, Compared(scanned)) \ Latest.keys
FixedKeys(scanned, keys) == In(Latest.keys, Compared(scanned)) \ keys

\* A cluster that was not read keeps its findings' history.
SeenIfReported(scanned, keys) ==
  [k \in Keys |-> IF k \notin keys THEN None
                  ELSE IF store.firstSeen[k] = None THEN now ELSE store.firstSeen[k]]
Seen(scanned, keys) ==
  [k \in Keys |-> IF k \notin keys /\ ClusterOf(k) \in scanned THEN None
                  ELSE IF k \in keys /\ store.firstSeen[k] = None THEN now
                  ELSE store.firstSeen[k]]

Diff(scanned, keys) ==
  IF store.reports = <<>> THEN [new |-> 0, fixed |-> 0]
  ELSE [new |-> Cardinality(NewKeys(scanned, keys)), fixed |-> Cardinality(FixedKeys(scanned, keys))]

Added(scanned, keys) ==
  LET diff == Diff(scanned, keys) IN
  [store EXCEPT
     !.reports = Append(@, [created |-> now, scanned |-> scanned, keys |-> keys,
                            new |-> diff.new, fixed |-> diff.fixed]),
     !.firstSeen = Seen(scanned, keys)]

\* Every cluster is read on its own, and one that fails, in its audit, its labels or its
\* teams, is left out with whatever was read of it.
Collected(scanned, keys) == keys \subseteq In(Keys, scanned)

\* The build collects from every cluster and adds the report of those that were read, if
\* there are any.  No two reports are added in one tick (a bound of the model).
Build(scanned, keys) ==
  /\ up /\ busy \in {"scheduled", "asked"} /\ Len(store.reports) < MaxReports
  /\ \A i \in 1..Len(store.reports) : store.reports[i].created < now
  /\ Collected(scanned, keys) /\ scanned # {}
  /\ Save(Added(scanned, keys)) /\ busy' = None
  /\ UNCHANGED <<now, accepted, up, fires, again, first, gaps, crashes>>

\* The job ends without a report: no cluster was read, it failed, panicked or ran out of
\* time, or it was another one.
EndJob ==
  /\ up /\ busy # None /\ busy' = None
  /\ UNCHANGED <<now, store, disk, accepted, up, fires, again, first, gaps, failedWrites, crashes>>

-----------------------------------------------------------------------------
(* The clock, and the process. *)

\* The timer looks many times in a tick of the model, so nothing is left for it to do.
CheckHasWork == Unrecorded \/ (Due /\ (TooLate \/ busy = None)) \/ accepted # None

Advance ==
  /\ now < MaxTime /\ now' = now + 1
  /\ up => ~CheckHasWork
  /\ UNCHANGED <<store, disk, busy, accepted, up, fires, again, first, gaps, failedWrites, crashes>>

\* A slot was started, and nothing on disk says so.
Gap == \E s \in Slots : fires[s] > 0 /\ (disk.lastSlot = None \/ disk.lastSlot < s)

Crash ==
  /\ up /\ crashes < MaxCrashes /\ crashes' = crashes + 1
  /\ up' = FALSE /\ busy' = None /\ accepted' = None
  /\ gaps' = gaps + (IF Gap THEN 1 ELSE 0)
  /\ UNCHANGED <<now, store, disk, fires, again, first, failedWrites>>

Boot ==
  /\ ~up /\ up' = TRUE /\ store' = disk
  /\ UNCHANGED <<now, disk, busy, accepted, fires, again, first, gaps, failedWrites, crashes>>

Next ==
  \/ CheckFirst \/ CheckTooLate \/ CheckFires \/ CheckMarks
  \/ \E kind \in {"asked", "other"} : Demand(kind)
  \/ \E scanned \in SUBSET Clusters, keys \in SUBSET Keys : Build(scanned, keys)
  \/ EndJob \/ Advance \/ Crash \/ Boot

Spec == Init /\ [][Next]_vars

-----------------------------------------------------------------------------
(* Properties. *)

\* A slot's report is started once; again only after a crash that came before the mark
\* was on disk, once for each such crash.
AgainOnlyAfterACrash == again <= gaps

\* Time does not pass over an idle process with a slot in its catch-up window that was
\* never started: only downtime, a long job or a missing record lose a week's report.
NoIdleSlot ==
  [][now' > now /\ up /\ busy = None /\ ~TooLate => fires[Slot] > 0 \/ Slot \in first]_vars

ReportsThatRead(c) == {i \in 1..Len(store.reports) : c \in store.reports[i].scanned}

\* A problem counts as open since the first report of the unbroken row of reports that saw
\* it, and reports that could not read its cluster do not break the row; and what the
\* latest report calls new is what it is the first to have seen, of the clusters that the
\* report before it could read too.
HistoryRight ==
  /\ \A k \in Keys :
       LET read == ReportsThatRead(ClusterOf(k)) IN
       IF read = {} \/ k \notin store.reports[Max(read)].keys THEN store.firstSeen[k] = None
       ELSE LET row == {i \in read : \A j \in read : j >= i => k \in store.reports[j].keys} IN
            store.firstSeen[k] = store.reports[Min(row)].created
  /\ Len(store.reports) >= 2 =>
       LET before == store.reports[Len(store.reports) - 1] IN
       Latest.new = Cardinality({k \in In(Latest.keys, before.scanned) :
                                   store.firstSeen[k] = Latest.created})

=============================================================================
