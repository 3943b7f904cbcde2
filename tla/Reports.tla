------------------------------- MODULE Reports -------------------------------
(***************************************************************************)
(* The best-practice report from preview to email: the store of              *)
(* internal/bestpractice/report.go, the one-job runner of                    *)
(* internal/bestpractice/runner.go, and the report commands and jobs of      *)
(* internal/bot/report.go.                                                   *)
(*                                                                           *)
(* A finding is its key, which says what is wrong where, and the team its    *)
(* namespace is labelled with, which two scans may see differently; one of   *)
(* no team is never sent and left out.  An email (a Mailing) carries the     *)
(* findings of the teams that the routing puts in it.  The store's mutex     *)
(* makes one Get, Add or Update an action; a command reads first and starts  *)
(* its job later, and a job is a goroutine that a panic, a restart or a      *)
(* failing disk may stop between any two of its steps.                       *)
(***************************************************************************)
EXTENDS Naturals, Sequences, FiniteSets

CONSTANTS
  Ids,           \* ids newID can draw
  Keys,          \* Finding.Key: cluster, namespace, object and rule, and no team
  Teams, Mailings,
  MailingOf,     \* Routing.Mailings: the email a team's findings go in
  Reached,       \* teams with a recipient: an admin, or the addresses of the routing
  Labels,        \* teams a key's namespace may be labelled with (a bound of the model)
  Scans,         \* what a build may find (a bound of the model)
  KeepReports,   \* keepReports
  MaxFaults,     \* failed writes considered (a bound of the model)
  None

ASSUME ReportConstants ==
  /\ IsFiniteSet(Ids) /\ MailingOf \in [Teams -> Mailings] /\ Reached \subseteq Teams
  /\ Labels \in [Keys -> SUBSET Teams] /\ Scans \subseteq SUBSET [key: Keys, team: Teams]
  /\ KeepReports \in Nat \ {0} /\ MaxFaults \in Nat

VARIABLES
  reports,  \* Store.st.Reports, oldest first
  disk,     \* the persisted file
  faults,   \* how many writes have failed
  stale,    \* the ids whose Expires has passed
  cmd,      \* a command between its Get and its Runner.Do
  job,      \* Runner.busy and what the job has done so far
  closed,   \* history: the reports whose rejection was written
  copies,   \* history: how often each email of a report reached the server
  unsure,   \* history: the emails that reached it although Send failed
  mailed    \* history: the findings that went out for a report

vars == <<reports, disk, faults, stale, cmd, job, closed, copies, unsure, mailed>>
file == <<disk, faults>>
history == <<closed, copies, unsure, mailed>>

Finding == [key: Keys, team: Teams]

Delivery == [sent: SUBSET Mailings, failed: SUBSET Mailings, unrouted: SUBSET Mailings,
             interrupted: BOOLEAN]
NoDelivery == [sent |-> {}, failed |-> {}, unrouted |-> {}, interrupted |-> FALSE]

Report == [id: Ids, status: {"pending", "sending", "sent", "rejected", "expired"},
           findings: SUBSET Finding, excluded: SUBSET Teams,
           delivery: Delivery \cup {None}]

\* approved and barred are what the claim read of the report: its sendable
\* findings and its excluded teams; routed are the emails the re-check left
\* something for, todo those of them that still have to be tried, send the
\* findings they carry.
Job == {j \in [kind: {"build", "deliver", "resend"}, id: Ids \cup {None},
               stage: {"claim", "preview", "recheck", "send"},
               approved: SUBSET Finding, barred: SUBSET Teams, send: SUBSET Finding,
               routed: SUBSET Mailings, todo: SUBSET Mailings,
               old: Delivery, run: Delivery] : j.kind # "build" => j.id \in Ids}

Commands == {c \in [kind: {"build", "deliver", "resend"}, id: Ids \cup {None}] :
               c.kind # "build" => c.id \in Ids}

TypeOK ==
  /\ \A s \in {reports, disk} : s \in Seq(Report) /\ Len(s) <= KeepReports
  /\ faults \in 0..MaxFaults
  /\ stale \subseteq Ids
  /\ cmd \in Commands \cup {None}
  /\ job \in Job \cup {None}
  /\ closed \subseteq Ids
  /\ copies \in [Ids -> [Mailings -> 0..2]]
  /\ unsure \subseteq Ids \X Mailings
  /\ mailed \in [Ids -> SUBSET Finding]

Init ==
  /\ reports = <<>> /\ disk = <<>> /\ faults = 0
  /\ stale = {}
  /\ cmd = None /\ job = None
  /\ closed = {}
  /\ copies = [i \in Ids |-> [m \in Mailings |-> 0]]
  /\ unsure = {}
  /\ mailed = [i \in Ids |-> {}]

-----------------------------------------------------------------------------
(* The store *)

Places(id) == {n \in DOMAIN reports : reports[n].id = id}
Known(id) == Places(id) # {}
The(id) == reports[CHOOSE n \in Places(id) : TRUE]

Sendable(r) == {f \in r.findings : f.team \notin r.excluded}

Expire(r) == IF r.status = "pending" /\ r.id \in stale THEN [r EXCEPT !.status = "expired"] ELSE r

\* Store.Get expires the report it returns, in memory.
Get(id) == [n \in DOMAIN reports |-> IF n \in Places(id) THEN Expire(reports[n]) ELSE reports[n]]

\* Store.flush under the lock; a write that fails leaves the old file.
Flush(s, ok) ==
  /\ reports' = s
  /\ \/ ok /\ disk' = s /\ UNCHANGED faults
     \/ ~ok /\ faults < MaxFaults /\ faults' = faults + 1 /\ UNCHANGED disk

Replace(id, r) == [n \in DOMAIN reports |-> IF n \in Places(id) THEN r ELSE reports[n]]

\* Store.Update: r is the changed report, flushed with the outcome ok.
Update(id, r, ok) == Flush(Replace(id, r), ok)

LastOf(s) == SubSeq(s, IF Len(s) > KeepReports THEN Len(s) - KeepReports + 1 ELSE 1, Len(s))

Superseded(r) == IF r.status = "pending" THEN [r EXCEPT !.status = "expired"] ELSE r

NewReport(id, found) ==
  [id |-> id, status |-> "pending", findings |-> found, excluded |-> {}, delivery |-> None]

\* Store.Add: a pending report is superseded, the oldest ones are dropped.
AddReport(id, found, ok) ==
  /\ ~Known(id)
  /\ Flush(LastOf(Append([n \in DOMAIN reports |-> Superseded(Expire(reports[n]))],
                         NewReport(id, found))), ok)

-----------------------------------------------------------------------------
(* Commands of a cluster-admin *)

Ask(kind, id) ==
  /\ cmd' = [kind |-> kind, id |-> id]
  /\ UNCHANGED <<file, stale, job, history>>

Run ==
  /\ cmd = None
  /\ Ask("build", None)
  /\ UNCHANGED reports

\* reportApprove up to its call of Do.
Approve(id) ==
  /\ cmd = None /\ Known(id)
  /\ Expire(The(id)).status = "pending" /\ Sendable(The(id)) # {}
  /\ Ask("deliver", id)
  /\ reports' = Get(id)

\* reportResend up to its call of Do.
Resend(id) ==
  /\ cmd = None /\ Known(id)
  /\ The(id).status = "sent"
  /\ The(id).delivery # None
  /\ The(id).delivery.failed # {} \/ The(id).delivery.interrupted
  /\ Ask("resend", id)
  /\ reports' = Get(id)

\* Runner.Do: refused while another job runs.
Do ==
  /\ cmd # None
  /\ cmd' = None
  /\ job' = IF job # None THEN job
            ELSE [kind |-> cmd.kind, id |-> cmd.id, stage |-> "claim",
                  approved |-> {}, barred |-> {}, send |-> {}, routed |-> {}, todo |-> {},
                  old |-> NoDelivery, run |-> NoDelivery]
  /\ UNCHANGED <<reports, file, stale, history>>

Reject(id, ok) ==
  /\ Known(id)
  /\ LET r == Expire(The(id)) IN
     IF r.status = "pending"
     THEN /\ Update(id, [r EXCEPT !.status = "rejected"], ok)
          /\ closed' = IF ok THEN closed \cup {id} ELSE closed
     ELSE /\ reports' = Get(id)
          /\ UNCHANGED <<file, closed>>
  /\ UNCHANGED <<stale, cmd, job, copies, unsure, mailed>>

Exclude(id, team, ok) ==
  /\ Known(id)
  /\ LET r == Expire(The(id)) IN
     IF r.status = "pending" /\ team \in {f.team : f \in r.findings}
     THEN Update(id, [r EXCEPT !.excluded = @ \cup {team}], ok)
     ELSE reports' = Get(id) /\ UNCHANGED file
  /\ UNCHANGED <<stale, cmd, job, history>>

-----------------------------------------------------------------------------
(* The job: BuildReport *)

In(kinds, stage) == job # None /\ job.kind \in kinds /\ job.stage = stage

\* Clusters are read and evaluated, then Add stores what was found; a failing
\* write is only logged.  The model forgets the reports that are gone.
Build(id, found, ok) ==
  /\ In({"build"}, "claim")
  /\ AddReport(id, found, ok)
  /\ job' = [job EXCEPT !.id = id, !.stage = "preview"]
  /\ LET kept == {i \in Ids \ {id} : \E rs \in {reports', disk'} : \E n \in DOMAIN rs : rs[n].id = i} IN
     /\ stale' = stale \cap kept
     /\ closed' = closed \cap kept
     /\ copies' = [i \in Ids |-> IF i \in kept THEN copies[i] ELSE [m \in Mailings |-> 0]]
     /\ unsure' = unsure \cap (kept \X Mailings)
     /\ mailed' = [i \in Ids |-> IF i \in kept THEN mailed[i] ELSE {}]
  /\ UNCHANGED cmd

\* The preview is posted, and an Update records its thread.
Preview(ok) ==
  /\ In({"build"}, "preview")
  /\ IF Known(job.id) THEN Update(job.id, Expire(The(job.id)), ok)
     ELSE UNCHANGED <<reports, file>>
  /\ job' = None
  /\ UNCHANGED <<stale, cmd, history>>

-----------------------------------------------------------------------------
(* The jobs: deliverReport and resendReport *)

\* As MayDeliver, leaving it to the command to have looked.
DeliverOnTrust(r) == TRUE

MayDeliver(r) == r.status = "pending"
MayResend(r) == r.status = "sent" /\ r.delivery # None

\* The first Update of a job: the status says "sending" before anything is
\* sent.  A refusal or a failing write ends the job.
Claim(ok) ==
  /\ In({"deliver", "resend"}, "claim")
  /\ IF Known(job.id) /\ IF job.kind = "deliver" THEN MayDeliver(Expire(The(job.id)))
                                                ELSE MayResend(Expire(The(job.id)))
     THEN LET r == Expire(The(job.id)) IN
          /\ Update(job.id, [r EXCEPT !.status = "sending"], ok)
          /\ job' = IF ~ok THEN None
                    ELSE [job EXCEPT !.stage = "recheck",
                                     !.approved = Sendable(r), !.barred = r.excluded,
                                     !.old = IF r.delivery = None THEN NoDelivery ELSE r.delivery]
     ELSE /\ reports' = Get(job.id)
          /\ job' = None
          /\ UNCHANGED file
  /\ UNCHANGED <<stale, cmd, history>>

\* What the second scan found of the teams that are not excluded.
Current(found) == {f \in found : f.team \notin job.barred}

\* Intersect: a key that was approved and could not be read again goes out as it
\* was previewed, one that still shows as the second scan has it, whatever its
\* team is by now; what is new waits.
Intersect(approved, current, unread) ==
  {f \in approved : f.key \in unread}
    \cup {f \in current : f.key \notin unread /\ \E g \in approved : g.key = f.key}

Emails(send) == {MailingOf[f.team] : f \in send}

\* As Todo, a resend trying every email again.
TodoAll(routed) == routed

\* As Todo, a resend trying only what failed, not what an interruption kept back.
TodoFailed(routed) == IF job.kind = "deliver" THEN routed ELSE routed \cap job.old.failed

\* A resend tries what did not go out before.
Todo(routed) == routed \ job.old.sent

\* What a second scan may see of the approved findings it can read: some are
\* fixed, and the namespace of some has another team's label.
SecondScans(approved) ==
  {found \in SUBSET {f \in Finding : f.team \in Labels[f.key] /\ \E g \in approved : g.key = f.key} :
     \A f, g \in found : f.key = g.key => f = g}

\* recheckReport reads the clusters again, as far as it can; what it sees beyond
\* the approved findings is held, and changes nothing here.
Recheck ==
  /\ In({"deliver", "resend"}, "recheck")
  /\ \E unread \in SUBSET {f.key : f \in job.approved}, found \in SecondScans(job.approved) :
       LET send == Intersect(job.approved, Current(found), unread) IN
       job' = [job EXCEPT !.stage = "send", !.approved = {}, !.barred = {}, !.send = send,
                          !.routed = Emails(send), !.todo = Todo(Emails(send))]
  /\ UNCHANGED <<reports, file, stale, cmd, history>>

\* Mailing.Recipients: of the teams that are left in the email.
Routed(m) == \E f \in job.send : f.team \in Reached /\ MailingOf[f.team] = m

Capped(n) == IF n < 2 THEN n ELSE 2

\* What the job has done, once the email was tried.
Tried(m, outcome) ==
  [job.run EXCEPT !.sent     = IF outcome = "sent" THEN @ \cup {m} ELSE @,
                  !.failed   = IF outcome \in {"refused", "lost"} THEN @ \cup {m} ELSE @,
                  !.unrouted = IF outcome = "unrouted" THEN @ \cup {m} ELSE @]

\* sendReportEmail, its retries included: a failed Send that the server refused
\* sent nothing; one that lost the server's answer may have.
SendEmail(m, outcome) ==
  /\ In({"deliver", "resend"}, "send")
  /\ m \in job.todo
  /\ outcome \in IF Routed(m) THEN {"sent", "refused", "lost"} ELSE {"unrouted"}
  /\ job' = [job EXCEPT !.todo = @ \ {m}, !.run = Tried(m, outcome)]
  /\ IF outcome \in {"sent", "lost"}
     THEN /\ copies' = [copies EXCEPT ![job.id][m] = Capped(@ + 1)]
          /\ mailed' = [mailed EXCEPT ![job.id] = @ \cup {f \in job.send : MailingOf[f.team] = m}]
     ELSE UNCHANGED <<copies, mailed>>
  /\ unsure' = IF outcome = "lost" THEN unsure \cup {<<job.id, m>>} ELSE unsure
  /\ UNCHANGED <<reports, file, stale, cmd, closed>>

\* The job's context is done: the emails that are left are not tried.
Interrupt ==
  /\ In({"deliver", "resend"}, "send")
  /\ job.todo # {}
  /\ job' = [job EXCEPT !.todo = {}, !.run.interrupted = TRUE]
  /\ UNCHANGED <<reports, file, stale, cmd, history>>

\* What the report keeps of this run and, after a resend, of the runs before.
Outcome ==
  [sent |-> job.old.sent \cup job.run.sent,
   failed |-> {m \in job.old.failed \cup job.run.failed : m \in job.routed \ job.run.sent},
   unrouted |-> job.old.unrouted \cup job.run.unrouted,
   interrupted |-> job.run.interrupted]

\* The last Update of a job, whatever the report's status is; a failing write is
\* only logged.
Record(ok) ==
  /\ In({"deliver", "resend"}, "send")
  /\ job.todo = {}
  /\ IF Known(job.id)
     THEN Update(job.id, [Expire(The(job.id)) EXCEPT !.status = "sent", !.delivery = Outcome], ok)
     ELSE UNCHANGED <<reports, file>>
  /\ job' = None
  /\ UNCHANGED <<stale, cmd, history>>

-----------------------------------------------------------------------------
(* What goes wrong *)

\* The job ends where it is: a panic, which the runner recovers; a build that
\* could read no cluster or post no preview.
Fail ==
  /\ job # None
  /\ job' = None
  /\ UNCHANGED <<reports, file, stale, cmd, history>>

\* The process ends anywhere, and another loads the file.
Restart ==
  /\ reports' = disk
  /\ cmd' = None /\ job' = None
  /\ UNCHANGED <<file, stale, history>>

\* expireAfter has passed since a report was built.
Age(id) ==
  /\ Known(id) /\ The(id).status = "pending"
  /\ stale' = stale \cup {id}
  /\ UNCHANGED <<reports, file, cmd, job, history>>

-----------------------------------------------------------------------------
CommandStep ==
  \/ Run \/ Do
  \/ \E id \in Ids : \/ Approve(id) \/ Resend(id) \/ Age(id)
                     \/ \E ok \in BOOLEAN : \/ Reject(id, ok)
                                            \/ \E team \in Teams : Exclude(id, team, ok)

JobStep ==
  \/ \E ok \in BOOLEAN : \/ Preview(ok) \/ Claim(ok) \/ Record(ok)
                         \/ \E id \in Ids, found \in Scans : Build(id, found, ok)
  \/ Recheck
  \/ \E m \in Mailings, outcome \in {"sent", "refused", "lost", "unrouted"} : SendEmail(m, outcome)
  \/ Interrupt

Next == CommandStep \/ JobStep \/ Fail \/ Restart

Spec == Init /\ [][Next]_vars

-----------------------------------------------------------------------------
(* Properties *)

\* A finding that an admin approved is one of the preview, by its key, of a team
\* that was not excluded, and it goes to a team that was not excluded either.
Approved(f, r) == f.team \notin r.excluded /\ \E g \in Sendable(r) : g.key = f.key

\* Nothing is sent that was not approved, whatever commands race with a job,
\* whatever restarts and failing writes lie between: a report whose rejection
\* was written, or that waits or expired, has sent nothing, and one that was
\* sent has mailed only findings of its preview, none of or to an excluded
\* team.  The team a finding goes to is the one the second scan saw: where a
\* namespace was labelled anew, the preview need not have named that team.
OnlyApproved ==
  \A n \in DOMAIN reports :
    LET r == reports[n] IN
    /\ r.id \in closed \/ r.status \in {"pending", "expired"} => mailed[r.id] = {}
    /\ \A f \in mailed[r.id] : Approved(f, r)

\* No email of a report goes out twice, through resends, interruptions, panics
\* and restarts, as long as the mail server's answer was not lost.
AtMostOnce ==
  \A id \in Ids, m \in Mailings : copies[id][m] > 1 => <<id, m>> \in unsure

\* When a job records what it did, every email that had something to send is
\* accounted for, or the report says that it was interrupted, which lets a
\* resend pick the rest up.
NothingForgotten ==
  [][In({"deliver", "resend"}, "send") /\ job' = None =>
       \A n \in DOMAIN reports' :
         LET r == reports'[n] IN
         r.id = job.id /\ r.status = "sent" =>
           r.delivery.interrupted
             \/ job.routed \subseteq r.delivery.sent \cup r.delivery.failed \cup r.delivery.unrouted]_vars
=============================================================================
