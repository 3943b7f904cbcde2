---------------------------- MODULE ReportsProofs ----------------------------
(***************************************************************************)
(* Reports, for any number of findings, emails, ids, failing writes, panics, *)
(* restarts and resends: its types, that nothing goes out unapproved or      *)
(* twice, and that a delivery accounts for every email.                      *)
(***************************************************************************)
EXTENDS Reports, SequenceTheorems, TLAPS

MayClaim(r) == IF job.kind = "deliver" THEN MayDeliver(r) ELSE MayResend(r)

Store == {s \in Seq(Report) : Len(s) <= KeepReports}

LEMMA SameLength ==
  ASSUME NEW s \in Store, NEW t \in [DOMAIN s -> Report]
  PROVE  t \in Store /\ DOMAIN t = DOMAIN s
<1>1. PICK n \in Nat : n = Len(s) /\ DOMAIN s = 1..n
  BY LenProperties DEF Store
<1>2. t \in Seq(Report) /\ Len(t) = n
  BY <1>1, SeqDef
<1> QED BY <1>1, <1>2 DEF Store

LEMMA ExpireType ==
  ASSUME NEW r \in Report
  PROVE  /\ Expire(r) \in Report
         /\ Expire(r) = r \/ (r.status = "pending" /\ Expire(r) = [r EXCEPT !.status = "expired"])
BY DEF Expire, Report

LEMMA TheType ==
  ASSUME TypeOK, NEW id, Known(id)
  PROVE  The(id) \in Report /\ \E n \in DOMAIN reports : reports[n] = The(id) /\ reports[n].id = id
<1>1. PICK n \in Places(id) : The(id) = reports[n]
  BY DEF Known, The
<1> QED BY <1>1, ElementOfSeq DEF TypeOK, Places

LEMMA GetType ==
  ASSUME TypeOK, NEW id
  PROVE  Get(id) \in Store /\ DOMAIN Get(id) = DOMAIN reports
<1>1. reports \in Store /\ \A n \in DOMAIN reports : reports[n] \in Report
  BY ElementOfSeq DEF TypeOK, Store
<1>2. Get(id) \in [DOMAIN reports -> Report]
  BY <1>1, ExpireType DEF Get
<1> QED BY <1>1, <1>2, SameLength

LEMMA ReplaceType ==
  ASSUME TypeOK, NEW id, NEW r \in Report
  PROVE  Replace(id, r) \in Store /\ DOMAIN Replace(id, r) = DOMAIN reports
<1>1. reports \in Store /\ \A n \in DOMAIN reports : reports[n] \in Report
  BY ElementOfSeq DEF TypeOK, Store
<1>2. Replace(id, r) \in [DOMAIN reports -> Report]
  BY <1>1 DEF Replace
<1> QED BY <1>1, <1>2, SameLength

LEMMA FlushType ==
  ASSUME TypeOK, NEW s \in Store, NEW ok \in BOOLEAN, Flush(s, ok)
  PROVE  reports' \in Store /\ disk' \in Store /\ faults' \in 0..MaxFaults
BY ReportConstants DEF TypeOK, Flush, Store

LEMMA LastOfType ==
  ASSUME NEW s \in Seq(Report)
  PROVE  LastOf(s) \in Store /\ \A n \in DOMAIN LastOf(s) : \E k \in DOMAIN s : LastOf(s)[n] = s[k]
<1> DEFINE first == IF Len(s) > KeepReports THEN Len(s) - KeepReports + 1 ELSE 1
<1>1. first \in 1..Len(s) + 1 /\ Len(s) \in Nat /\ DOMAIN s = 1..Len(s)
      /\ Len(s) - first + 1 <= KeepReports
  BY LenProperties, ReportConstants
<1>2. LastOf(s) = SubSeq(s, first, Len(s))
  BY DEF LastOf
<1> HIDE DEF first
<1>3. /\ SubSeq(s, first, Len(s)) \in Seq(Report)
      /\ Len(SubSeq(s, first, Len(s))) = IF first <= Len(s) THEN Len(s) - first + 1 ELSE 0
      /\ \A i \in 1..Len(s) - first + 1 : SubSeq(s, first, Len(s))[i] = s[first + i - 1]
  BY <1>1, SubSeqProperties
<1> QED BY <1>1, <1>2, <1>3, LenProperties, ReportConstants DEF Store

LEMMA AddType ==
  ASSUME TypeOK, NEW id \in Ids, NEW found \in Scans, NEW ok \in BOOLEAN, AddReport(id, found, ok)
  PROVE  reports' \in Store /\ disk' \in Store /\ faults' \in 0..MaxFaults
<1> DEFINE old == [n \in DOMAIN reports |-> Superseded(Expire(reports[n]))]
<1>1. reports \in Store /\ \A n \in DOMAIN reports : reports[n] \in Report
  BY ElementOfSeq DEF TypeOK, Store
<1>2. \A r \in Report : Superseded(r) \in Report
  BY DEF Superseded, Report
<1>3. old \in Store
  <2>1. old \in [DOMAIN reports -> Report]
    BY <1>1, <1>2, ExpireType
  <2> QED BY <1>1, <2>1, SameLength
<1>4. NewReport(id, found) \in Report
  BY ReportConstants DEF NewReport, Report, Finding
<1>5. Append(old, NewReport(id, found)) \in Seq(Report)
  BY <1>3, <1>4 DEF Store
<1>6. LastOf(Append(old, NewReport(id, found))) \in Store
  BY <1>5, LastOfType
<1> QED BY <1>6, FlushType DEF AddReport

\* A step that changes no more than the store leaves all else as it is typed.
LEMMA StoreTyped ==
  ASSUME TypeOK, reports' \in Store, disk' \in Store, faults' \in 0..MaxFaults,
         stale' \in SUBSET Ids, closed' \in SUBSET Ids,
         cmd' \in Commands \cup {None}, job' \in Job \cup {None},
         UNCHANGED <<copies, unsure, mailed>>
  PROVE  TypeOK'
BY DEF TypeOK, Store

LEMMA EmailsType ==
  ASSUME NEW send \in SUBSET Finding
  PROVE  Emails(send) \in SUBSET Mailings
BY ReportConstants DEF Emails, Finding

LEMMA SendEmailType ==
  ASSUME TypeOK, NEW m \in Mailings, NEW outcome, SendEmail(m, outcome)
  PROVE  TypeOK'
<1>1. PICK j \in Job : j = job /\ j.id \in Ids
  BY DEF SendEmail, In, TypeOK, Job
<1>2. Tried(m, outcome) \in Delivery
  <2>1. job.run \in Delivery
    BY <1>1 DEF Job
  <2> QED BY <2>1 DEF Delivery, Tried
<1>3. job' \in Job
  BY <1>1, <1>2 DEF SendEmail, Job
<1>4. copies' \in [Ids -> [Mailings -> 0..2]]
  <2>1. \A n \in 0..2 : Capped(n + 1) \in 0..2
    BY DEF Capped
  <2>2. copies[job.id][m] \in 0..2
    BY <1>1 DEF TypeOK
  <2>3. PICK n \in 0..2 : n = Capped(copies[job.id][m] + 1)
    BY <2>1, <2>2
  <2>4. copies' = copies \/ copies' = [copies EXCEPT ![job.id][m] = n]
    BY <2>3 DEF SendEmail
  <2> QED BY <1>1, <2>4 DEF TypeOK
<1>5. mailed' \in [Ids -> SUBSET Finding]
  <2>1. job.send \in SUBSET Finding
    BY <1>1 DEF Job
  <2> QED BY <2>1 DEF SendEmail, TypeOK
<1>6. unsure' \subseteq Ids \X Mailings
  BY <1>1 DEF SendEmail, TypeOK
<1>7. UNCHANGED <<reports, disk, faults, stale, cmd, closed>>
  BY DEF SendEmail, file
<1> QED BY <1>3, <1>4, <1>5, <1>6, <1>7 DEF TypeOK

LEMMA OutcomeType == ASSUME NEW j \in Job, j = job PROVE Outcome \in Delivery
BY DEF Outcome, Job, Delivery

\* The type invariant: above all, a command or a job that is about a report names one.
THEOREM ReportsTypeCorrect == Spec => []TypeOK
<1>1. Init => TypeOK
  <2>1. <<>> \in Store
    BY ReportConstants, EmptySeq DEF Store
  <2> QED BY <2>1, ReportConstants DEF Init, TypeOK, Store
<1>2. TypeOK /\ [Next]_vars => TypeOK'
  <2> SUFFICES ASSUME TypeOK, [Next]_vars PROVE TypeOK'
    OBVIOUS
  <2> USE DEF file, history
  <2>0. /\ reports \in Store /\ disk \in Store /\ faults \in 0..MaxFaults
        /\ stale \in SUBSET Ids /\ closed \in SUBSET Ids
        /\ cmd \in Commands \cup {None} /\ job \in Job \cup {None}
    BY DEF TypeOK, Store
  <2>1. CASE Run
    <3>1. cmd' \in Commands
      BY <2>1 DEF Run, Ask, Commands
    <3> QED BY <2>0, <2>1, <3>1, StoreTyped DEF Run, Ask
  <2>2. CASE Do
    <3>1. NoDelivery \in Delivery
      BY DEF NoDelivery, Delivery
    <3>2. job' \in Job \cup {None}
      BY <2>0, <2>2, <3>1 DEF Do, Commands, Job
    <3> QED BY <2>0, <2>2, <3>2, StoreTyped DEF Do
  <2>3. ASSUME NEW id \in Ids, Approve(id) \/ Resend(id) PROVE TypeOK'
    <3>1. cmd' \in Commands
      BY <2>3 DEF Approve, Resend, Ask, Commands
    <3> QED BY <2>0, <2>3, <3>1, GetType, StoreTyped DEF Approve, Resend, Ask
  <2>4. ASSUME NEW id \in Ids, Age(id) PROVE TypeOK'
    BY <2>0, <2>4, StoreTyped DEF Age
  <2>5. ASSUME NEW id \in Ids, NEW ok \in BOOLEAN, Reject(id, ok) PROVE TypeOK'
    <3>1. Expire(The(id)) \in Report
      BY <2>5, TheType, ExpireType DEF Reject
    <3>2. [Expire(The(id)) EXCEPT !.status = "rejected"] \in Report
      BY <3>1 DEF Report
    <3>3. reports' \in Store /\ disk' \in Store /\ faults' \in 0..MaxFaults
      BY <2>0, <2>5, <3>2, ReplaceType, FlushType, GetType DEF Reject, Update
    <3> QED BY <2>0, <2>5, <3>3, StoreTyped DEF Reject
  <2>6. ASSUME NEW id \in Ids, NEW team \in Teams, NEW ok \in BOOLEAN, Exclude(id, team, ok)
        PROVE  TypeOK'
    <3>1. Expire(The(id)) \in Report
      BY <2>6, TheType, ExpireType DEF Exclude
    <3>2. [Expire(The(id)) EXCEPT !.excluded = Expire(The(id)).excluded \cup {team}] \in Report
      BY <3>1 DEF Report
    <3>3. reports' \in Store /\ disk' \in Store /\ faults' \in 0..MaxFaults
      BY <2>0, <2>6, <3>2, ReplaceType, FlushType, GetType DEF Exclude, Update
    <3> QED BY <2>0, <2>6, <3>3, StoreTyped DEF Exclude
  <2>7. ASSUME NEW id \in Ids, NEW found \in Scans, NEW ok \in BOOLEAN, Build(id, found, ok)
        PROVE  TypeOK'
    <3>1. reports' \in Store /\ disk' \in Store /\ faults' \in 0..MaxFaults
      BY <2>7, AddType DEF Build
    <3>2. job' \in Job
      BY <2>0, <2>7 DEF Build, In, Job
    <3>3. PICK kept \in SUBSET Ids :
            /\ stale' = stale \cap kept
            /\ closed' = closed \cap kept
            /\ copies' = [i \in Ids |-> IF i \in kept THEN copies[i] ELSE [m \in Mailings |-> 0]]
            /\ unsure' = unsure \cap (kept \X Mailings)
            /\ mailed' = [i \in Ids |-> IF i \in kept THEN mailed[i] ELSE {}]
      <4> DEFINE ks == {i \in Ids \ {id} :
                          \E rs \in {reports', disk'} : \E n \in DOMAIN rs : rs[n].id = i}
      <4>1. ks \in SUBSET Ids
        OBVIOUS
      <4> QED BY <2>7, <4>1 DEF Build
    <3>4. /\ copies' \in [Ids -> [Mailings -> 0..2]]
          /\ unsure' \subseteq Ids \X Mailings
          /\ mailed' \in [Ids -> SUBSET Finding]
      BY <3>3 DEF TypeOK
    <3> QED BY <2>0, <2>7, <3>1, <3>2, <3>3, <3>4 DEF Build, TypeOK, Store
  <2>8. ASSUME NEW ok \in BOOLEAN, Preview(ok) PROVE TypeOK'
    <3>1. Known(job.id) => Expire(The(job.id)) \in Report
      BY TheType, ExpireType
    <3>2. reports' \in Store /\ disk' \in Store /\ faults' \in 0..MaxFaults
      BY <2>0, <2>8, <3>1, ReplaceType, FlushType DEF Preview, Update
    <3> QED BY <2>0, <2>8, <3>2, StoreTyped DEF Preview
  <2>9. ASSUME NEW ok \in BOOLEAN, Claim(ok) PROVE TypeOK'
    <3> DEFINE r == Expire(The(job.id))
    <3>1. CASE Known(job.id) /\ MayClaim(r)
      <4>1. r \in Report /\ [r EXCEPT !.status = "sending"] \in Report
        <5>1. r \in Report
          BY <3>1, TheType, ExpireType
        <5> HIDE DEF r
        <5> QED BY <5>1 DEF Report
      <4>2. reports' \in Store /\ disk' \in Store /\ faults' \in 0..MaxFaults
        BY <2>9, <3>1, <4>1, ReplaceType, FlushType DEF Claim, MayClaim, Update
      <4>3. job' \in Job \cup {None}
        <5>1. NoDelivery \in Delivery /\ Sendable(r) \in SUBSET Finding /\ r.excluded \in SUBSET Teams
              /\ (IF r.delivery = None THEN NoDelivery ELSE r.delivery) \in Delivery
          BY <4>1 DEF NoDelivery, Delivery, Sendable, Report
        <5>2. job \in Job
          BY <2>0, <2>9 DEF Claim, In
        <5>3. job' = IF ~ok THEN None
                     ELSE [job EXCEPT !.stage = "recheck",
                             !.approved = Sendable(r), !.barred = r.excluded,
                             !.old = IF r.delivery = None THEN NoDelivery ELSE r.delivery]
          BY <2>9, <3>1 DEF Claim, MayClaim
        <5> HIDE DEF r
        <5> QED BY <5>1, <5>2, <5>3 DEF Job
      <4> QED BY <2>0, <2>9, <4>2, <4>3, StoreTyped DEF Claim
    <3>2. CASE ~(Known(job.id) /\ MayClaim(r))
      BY <2>0, <2>9, <3>2, GetType, StoreTyped DEF Claim, MayClaim
    <3> QED BY <3>1, <3>2
  <2>10. CASE Recheck
    <3>1. PICK send \in SUBSET Finding :
            job' = [job EXCEPT !.stage = "send", !.approved = {}, !.barred = {}, !.send = send,
                               !.routed = Emails(send), !.todo = Todo(Emails(send))]
      <4>1. job \in Job
        BY <2>0, <2>10 DEF Recheck, In
      <4>2. PICK unread \in SUBSET {f.key : f \in job.approved}, found \in SecondScans(job.approved) :
              LET s == Intersect(job.approved, Current(found), unread) IN
              job' = [job EXCEPT !.stage = "send", !.approved = {}, !.barred = {}, !.send = s,
                                 !.routed = Emails(s), !.todo = Todo(Emails(s))]
        BY <2>10 DEF Recheck
      <4>3. Current(found) \in SUBSET Finding
        BY DEF Current, SecondScans
      <4>4. Intersect(job.approved, Current(found), unread) \in SUBSET Finding
        BY <4>1, <4>3 DEF Intersect, Job
      <4> QED BY <4>2, <4>4
    <3>2. Emails(send) \in SUBSET Mailings
      BY EmailsType
    <3>3. job' \in Job
      BY <2>0, <2>10, <3>1, <3>2 DEF Recheck, In, Job, Todo
    <3> QED BY <2>0, <2>10, <3>3, StoreTyped DEF Recheck
  <2>11. ASSUME NEW m \in Mailings, NEW outcome, SendEmail(m, outcome) PROVE TypeOK'
    BY <2>11, SendEmailType
  <2>12. CASE Interrupt
    <3>1. PICK j \in Job : j = job
      BY <2>0, <2>12 DEF Interrupt, In
    <3>2. [j.run EXCEPT !.interrupted = TRUE] \in Delivery
      BY DEF Job, Delivery
    <3>3. job' \in Job
      BY <2>12, <3>1, <3>2 DEF Interrupt, Job
    <3> QED BY <2>0, <2>12, <3>3, StoreTyped DEF Interrupt
  <2>13. ASSUME NEW ok \in BOOLEAN, Record(ok) PROVE TypeOK'
    <3>1. Outcome \in Delivery
      BY <2>0, <2>13, OutcomeType DEF Record, In
    <3>2. Known(job.id) => Expire(The(job.id)) \in Report
      BY TheType, ExpireType
    <3>3. Known(job.id) =>
            [Expire(The(job.id)) EXCEPT !.status = "sent", !.delivery = Outcome] \in Report
      BY <3>1, <3>2 DEF Report
    <3>4. reports' \in Store /\ disk' \in Store /\ faults' \in 0..MaxFaults
      BY <2>0, <2>13, <3>3, ReplaceType, FlushType DEF Record, Update
    <3> QED BY <2>0, <2>13, <3>4, StoreTyped DEF Record
  <2>14. CASE Fail \/ Restart \/ UNCHANGED vars
    BY <2>0, <2>14, StoreTyped DEF Fail, Restart, vars
  <2> QED
    BY <2>1, <2>2, <2>3, <2>4, <2>5, <2>6, <2>7, <2>8, <2>9, <2>10, <2>11, <2>12, <2>13, <2>14
       DEF Next, CommandStep, JobStep
<1> QED BY <1>1, <1>2, PTL DEF Spec

-----------------------------------------------------------------------------
(* What goes out *)

Delivering == job # None /\ job.stage \in {"recheck", "send"}

\* What holds of a report in memory and of one in the file: a rejection that was
\* written stands; what was not sent has mailed nothing; what may be sent again
\* knows what went out, as far as anybody does.
ReportOK(r) ==
  /\ r.id \in closed => r.status = "rejected"
  /\ r.status \in {"pending", "expired", "rejected"} => mailed[r.id] = {}
  /\ \A f \in mailed[r.id] : Approved(f, r)
  /\ r.status = "pending" => \A m \in Mailings : copies[r.id][m] = 0
  /\ r.status = "sent" => \A m \in Mailings :
       copies[r.id][m] > 0 => m \in r.delivery.sent \/ <<r.id, m>> \in unsure

\* While a job delivers a report, memory and file say so, and what it has yet to
\* send is of the report.
InDelivery(r) ==
  Delivering /\ r.id = job.id =>
    /\ r.status = "sending"
    /\ job.stage = "recheck" => job.approved \subseteq Sendable(r) /\ job.barred = r.excluded
    /\ \A f \in job.send : Approved(f, r)

RightIn(s) == \A n \in DOMAIN s : ReportOK(s[n]) /\ InDelivery(s[n])

\* What went out is on the job's lists, what is still to be tried has not gone
\* out, and every email is on one of them.
JobInv ==
  /\ job # None /\ job.stage = "claim" => job.send = {} /\ job.run = NoDelivery
  /\ Delivering =>
       /\ job.kind # "build"
       /\ \A m \in Mailings :
            copies[job.id][m] > 0 => m \in job.old.sent \cup job.run.sent \/ <<job.id, m>> \in unsure
       /\ job.stage = "recheck" => job.run = NoDelivery
       /\ job.stage = "send" =>
            /\ job.todo \cap (job.old.sent \cup job.run.sent) = {}
            /\ \/ job.run.interrupted
               \/ job.routed \subseteq job.todo \cup job.old.sent \cup job.run.sent
                                         \cup job.run.failed \cup job.run.unrouted

\* A run holds both of memory and of the file, as a restart makes one the other.
MailInv == RightIn(reports) /\ RightIn(disk) /\ JobInv /\ AtMostOnce

\* Nothing that a report is judged by changes, and no delivery begins.
Quiet ==
  /\ UNCHANGED <<closed, copies, unsure, mailed>>
  /\ job' = job \/ (~Delivering' /\ (job' # None /\ job'.stage = "claim" =>
                                       job'.send = {} /\ job'.run = NoDelivery))

LEMMA ReportsInStore ==
  ASSUME TypeOK
  PROVE  /\ \A n \in DOMAIN reports : reports[n] \in Report
         /\ \A n \in DOMAIN disk : disk[n] \in Report
BY ElementOfSeq DEF TypeOK

LEMMA StillRight ==
  ASSUME Quiet, NEW r, ReportOK(r), InDelivery(r)
  PROVE  ReportOK(r)' /\ InDelivery(r)'
BY DEF Quiet, ReportOK, InDelivery, Delivering

\* A quiet step keeps the invariant if what it puts in the store is right.
LEMMA QuietStep ==
  ASSUME MailInv, Quiet, disk' \in {disk, reports'},
         \A n \in DOMAIN reports' : ReportOK(reports'[n]) /\ InDelivery(reports'[n])
  PROVE  MailInv'
<1>1. RightIn(reports)'
  BY StillRight DEF RightIn
<1>2. RightIn(disk)'
  BY <1>1, StillRight DEF RightIn, MailInv
<1>3. JobInv'
  BY DEF MailInv, JobInv, Quiet, Delivering
<1>4. AtMostOnce'
  BY DEF MailInv, AtMostOnce, Quiet
<1> QED BY <1>1, <1>2, <1>3, <1>4 DEF MailInv

LEMMA ExpireRight ==
  ASSUME NEW r \in Report, ReportOK(r), InDelivery(r)
  PROVE  ReportOK(Expire(r)) /\ InDelivery(Expire(r))
BY DEF Expire, ReportOK, InDelivery, Approved, Report, Sendable

\* The report that is found is right, expired or not.
LEMMA TheRight ==
  ASSUME TypeOK, MailInv, NEW id, Known(id)
  PROVE  /\ Expire(The(id)) \in Report /\ The(id).id = id /\ Expire(The(id)).id = id
         /\ ReportOK(Expire(The(id))) /\ InDelivery(Expire(The(id)))
<1>1. PICK n \in DOMAIN reports : reports[n] = The(id) /\ reports[n].id = id
  BY TheType
<1>2. The(id) \in Report /\ ReportOK(The(id)) /\ InDelivery(The(id))
  BY <1>1, TheType DEF MailInv, RightIn
<1> QED BY <1>1, <1>2, ExpireRight, ExpireType DEF Report

LEMMA GetRight ==
  ASSUME TypeOK, MailInv, NEW id
  PROVE  RightIn(Get(id))
<1>1. \A n \in DOMAIN Get(id) : n \in DOMAIN reports /\ Get(id)[n] \in {reports[n], Expire(reports[n])}
  BY DEF Get
<1> QED BY <1>1, ReportsInStore, ExpireRight DEF RightIn, MailInv

LEMMA ReplaceRight ==
  ASSUME MailInv, NEW id, NEW r, ReportOK(r), InDelivery(r)
  PROVE  RightIn(Replace(id, r))
BY DEF Replace, RightIn, MailInv

\* An Update that puts a right report in the store.
LEMMA UpdateStep ==
  ASSUME TypeOK, MailInv, Quiet, NEW id, NEW r, ReportOK(r), InDelivery(r),
         NEW ok \in BOOLEAN, Update(id, r, ok)
  PROVE  MailInv'
<1>1. reports' = Replace(id, r) /\ disk' \in {disk, reports'}
  BY DEF Update, Flush
<1> QED BY <1>1, ReplaceRight, QuietStep DEF RightIn

LEMMA CommandRight ==
  ASSUME TypeOK, MailInv, CommandStep
  PROVE  MailInv'
<1> USE DEF file, history
<1>1. CASE Run \/ Do \/ \E id \in Ids : Age(id)
  <2>1. Quiet
    BY <1>1 DEF Run, Do, Age, Ask, Quiet, Delivering
  <2>2. UNCHANGED <<reports, disk>>
    BY <1>1 DEF Run, Do, Age, Ask
  <2> QED BY <2>1, <2>2, QuietStep DEF MailInv, RightIn
<1>2. ASSUME NEW id \in Ids, Approve(id) \/ Resend(id) PROVE MailInv'
  <2>1. Quiet /\ disk' = disk /\ reports' = Get(id)
    BY <1>2 DEF Approve, Resend, Ask, Quiet
  <2> QED BY <2>1, GetRight, QuietStep DEF RightIn
<1>3. ASSUME NEW id \in Ids, NEW ok \in BOOLEAN, Reject(id, ok) PROVE MailInv'
  <2> DEFINE r == Expire(The(id))
             no == [r EXCEPT !.status = "rejected"]
  <2>1. CASE r.status # "pending"
    <3>1. Quiet /\ disk' = disk /\ reports' = Get(id)
      BY <1>3, <2>1 DEF Reject, Quiet
    <3> QED BY <3>1, GetRight, QuietStep DEF RightIn
  <2>2. CASE r.status = "pending"
    <3>1. r \in Report /\ r.id = id /\ ReportOK(r) /\ InDelivery(r)
      BY <1>3, TheRight DEF Reject
    <3>2. /\ no \in Report /\ no.id = id /\ no.status = "rejected"
          /\ no.findings = r.findings /\ no.excluded = r.excluded
      BY <3>1 DEF Report
    <3>3. ReportOK(no) /\ InDelivery(no)
      BY <2>2, <3>1, <3>2 DEF ReportOK, InDelivery, Approved, Sendable
    <3>4. Update(id, no, ok) /\ closed' = (IF ok THEN closed \cup {id} ELSE closed)
          /\ UNCHANGED <<job, copies, unsure, mailed>>
      BY <1>3, <2>2 DEF Reject
    <3> HIDE DEF r, no
    <3>5. CASE ~ok
      <4>1. Quiet
        BY <3>4, <3>5 DEF Quiet
      <4> QED BY <3>3, <3>4, <4>1, UpdateStep
    <3>6. CASE ok
      <4>1. reports' = Replace(id, no) /\ disk' = reports'
        BY <3>4, <3>6 DEF Update, Flush
      <4>2. RightIn(Replace(id, no)) /\ \A n \in DOMAIN Replace(id, no) :
              Replace(id, no)[n].id = id => Replace(id, no)[n] = no
        <5>1. RightIn(Replace(id, no))
          BY <3>3, ReplaceRight
        <5> QED BY <5>1 DEF Replace, Places
      <4>3. RightIn(reports)' /\ RightIn(disk)'
        BY <3>2, <3>4, <3>6, <4>1, <4>2 DEF RightIn, ReportOK, InDelivery, Delivering
      <4>4. JobInv' /\ AtMostOnce'
        BY <3>4 DEF MailInv, JobInv, AtMostOnce, Delivering
      <4> QED BY <4>3, <4>4 DEF MailInv
    <3> QED BY <3>5, <3>6
  <2> QED BY <2>1, <2>2
<1>4. ASSUME NEW id \in Ids, NEW team \in Teams, NEW ok \in BOOLEAN, Exclude(id, team, ok)
      PROVE  MailInv'
  <2> DEFINE r == Expire(The(id))
             x == [r EXCEPT !.excluded = r.excluded \cup {team}]
  <2>1. Quiet
    BY <1>4 DEF Exclude, Quiet
  <2>2. CASE ~(r.status = "pending" /\ team \in {f.team : f \in r.findings})
    <3>1. disk' = disk /\ reports' = Get(id)
      BY <1>4, <2>2 DEF Exclude
    <3> QED BY <2>1, <3>1, GetRight, QuietStep DEF RightIn
  <2>3. CASE r.status = "pending" /\ team \in {f.team : f \in r.findings}
    <3>1. r \in Report /\ r.id = id /\ ReportOK(r) /\ InDelivery(r)
      BY <1>4, TheRight DEF Exclude
    <3>2. x.id = id /\ x.status = "pending"
      BY <2>3, <3>1 DEF Report
    <3>3. ReportOK(x) /\ InDelivery(x)
      BY <2>3, <3>1, <3>2 DEF ReportOK, InDelivery
    <3>4. Update(id, x, ok)
      BY <1>4, <2>3 DEF Exclude
    <3> HIDE DEF r, x
    <3> QED BY <2>1, <3>3, <3>4, UpdateStep
  <2> QED BY <2>2, <2>3
<1> QED BY <1>1, <1>2, <1>3, <1>4 DEF CommandStep

LEMMA BuildRight ==
  ASSUME TypeOK, MailInv, NEW id \in Ids, NEW found \in Scans, NEW ok \in BOOLEAN,
         Build(id, found, ok)
  PROVE  MailInv'
<1> DEFINE kept == {i \in Ids \ {id} : \E rs \in {reports', disk'} : \E n \in DOMAIN rs : rs[n].id = i}
           old == [n \in DOMAIN reports |-> Superseded(Expire(reports[n]))]
           new == NewReport(id, found)
<1>1. /\ job # None /\ job.stage = "claim" /\ job \in Job /\ job' = [job EXCEPT !.id = id, !.stage = "preview"]
      /\ AddReport(id, found, ok)
      /\ closed' = closed \cap kept
      /\ copies' = [i \in Ids |-> IF i \in kept THEN copies[i] ELSE [m \in Mailings |-> 0]]
      /\ unsure' = unsure \cap (kept \X Mailings)
      /\ mailed' = [i \in Ids |-> IF i \in kept THEN mailed[i] ELSE {}]
  BY DEF Build, In, TypeOK
<1>2. ~Delivering /\ ~Delivering' /\ (job'.stage # "claim")
  BY <1>1 DEF Delivering, Job
\* A report that was right still is, and any report is right about the new id.
<1>3. ASSUME NEW r \in Report, (ReportOK(r) /\ r.id \in kept) \/ r.id = id
      PROVE  ReportOK(r)' /\ InDelivery(r)'
  <2>1. InDelivery(r)'
    BY <1>2 DEF InDelivery
  <2>2. CASE r.id = id
    <3>1. r.id \notin kept /\ r.id \in Ids
      BY <2>2
    <3> HIDE DEF kept
    <3>2. r.id \notin closed' /\ mailed'[r.id] = {} /\ \A m \in Mailings : copies'[r.id][m] = 0
      BY <1>1, <3>1
    <3> QED BY <2>1, <3>2 DEF ReportOK
  <2>3. CASE ReportOK(r) /\ r.id \in kept
    <3>1. r.id \in Ids
      BY <2>3
    <3> HIDE DEF kept
    <3>2. /\ r.id \in closed' => r.id \in closed
          /\ mailed'[r.id] = mailed[r.id] /\ copies'[r.id] = copies[r.id]
          /\ \A m \in Mailings : <<r.id, m>> \in unsure => <<r.id, m>> \in unsure'
      BY <1>1, <2>3, <3>1
    <3> QED BY <2>1, <2>3, <3>2 DEF ReportOK, Approved, Sendable
  <2> QED BY <1>3, <2>2, <2>3
<1>4. \A n \in DOMAIN reports : old[n] \in Report /\ ReportOK(old[n]) /\ old[n].id # id
  <2>1. ASSUME NEW n \in DOMAIN reports PROVE old[n] \in Report /\ ReportOK(old[n]) /\ old[n].id # id
    <3>1. reports[n] \in Report /\ ReportOK(reports[n]) /\ InDelivery(reports[n]) /\ reports[n].id # id
      BY <1>1, ReportsInStore DEF MailInv, RightIn, AddReport, Known, Places
    <3>2. PICK r \in Report : r = Expire(reports[n]) /\ ReportOK(r) /\ r.id # id
      BY <3>1, ExpireRight, ExpireType DEF Report
    <3>3. Superseded(r) \in Report /\ ReportOK(Superseded(r)) /\ Superseded(r).id # id
      BY <3>2 DEF Superseded, ReportOK, Approved, Report, Sendable
    <3> QED BY <3>2, <3>3
  <2> QED BY <2>1
<1>5. new \in Report /\ new.id = id
  BY ReportConstants DEF NewReport, Report, Finding
<1>6. old \in Seq(Report)
  <2>1. old \in [DOMAIN reports -> Report] /\ reports \in Store
    BY <1>4 DEF TypeOK, Store
  <2> QED BY <2>1, SameLength DEF Store
<1>7. reports' = LastOf(Append(old, new)) /\ disk' \in {disk, reports'}
  BY <1>1 DEF AddReport, Flush
<1>8. ASSUME NEW n \in DOMAIN reports'
      PROVE  reports'[n] \in Report /\ (ReportOK(reports'[n]) \/ reports'[n].id = id)
  <2> HIDE DEF old, new
  <2>1. Append(old, new) \in Seq(Report) /\ DOMAIN Append(old, new) = 1..Len(old) + 1
        /\ \A k \in 1..Len(old) : Append(old, new)[k] = old[k]
        /\ Append(old, new)[Len(old) + 1] = new /\ DOMAIN old = 1..Len(old) /\ Len(old) \in Nat
    BY <1>5, <1>6, AppendProperties, LenProperties
  <2>2. PICK k \in 1..Len(old) + 1 : reports'[n] = Append(old, new)[k]
    BY <1>7, <2>1, LastOfType
  <2>3. DOMAIN old = DOMAIN reports
    BY DEF old
  <2> QED BY <1>4, <1>5, <2>1, <2>2, <2>3
<1>9. ASSUME NEW n \in DOMAIN disk'
      PROVE  disk'[n] \in Report /\ (ReportOK(disk'[n]) \/ disk'[n].id = id)
  BY <1>7, <1>8, ReportsInStore DEF MailInv, RightIn
<1>10. RightIn(reports)'
  <2>1. ASSUME NEW n \in DOMAIN reports' PROVE reports'[n].id \in kept \/ reports'[n].id = id
    BY <1>8 DEF Report
  <2> HIDE DEF kept
  <2> QED BY <1>3, <1>8, <2>1 DEF RightIn
<1>11. RightIn(disk)'
  <2>1. ASSUME NEW n \in DOMAIN disk' PROVE disk'[n].id \in kept \/ disk'[n].id = id
    BY <1>9 DEF Report
  <2> HIDE DEF kept
  <2> QED BY <1>3, <1>9, <2>1 DEF RightIn
<1>12. JobInv' /\ AtMostOnce'
  <2> HIDE DEF kept
  <2>1. JobInv'
    BY <1>2 DEF JobInv
  <2>2. \A i \in Ids, m \in Mailings : copies'[i][m] > 1 => <<i, m>> \in unsure'
    BY <1>1 DEF MailInv, AtMostOnce
  <2> QED BY <2>1, <2>2 DEF AtMostOnce
<1> QED BY <1>10, <1>11, <1>12 DEF MailInv

LEMMA ClaimRight ==
  ASSUME TypeOK, MailInv, NEW ok \in BOOLEAN, Claim(ok)
  PROVE  MailInv'
<1> USE DEF file, history
<1> DEFINE id == job.id
           r == Expire(The(id))
           x == [r EXCEPT !.status = "sending"]
<1>0. job \in Job /\ job # None /\ job.stage = "claim" /\ job.kind # "build"
      /\ UNCHANGED <<closed, copies, unsure, mailed>>
  BY DEF Claim, In, TypeOK
<1>1. CASE ~(Known(id) /\ MayClaim(r))
  <2>1. Quiet /\ disk' = disk /\ reports' = Get(id)
    BY <1>0, <1>1 DEF Claim, MayClaim, Quiet, Delivering
  <2> QED BY <2>1, GetRight, QuietStep DEF RightIn
<1>2. CASE Known(id) /\ MayClaim(r)
  <2>1. r \in Report /\ r.id = id /\ ReportOK(r) /\ InDelivery(r) /\ r.status \in {"pending", "sent"}
    BY <1>2, TheRight DEF MayClaim, MayDeliver, MayResend
  <2>2. /\ x \in Report /\ x.id = id /\ x.status = "sending"
        /\ x.findings = r.findings /\ x.excluded = r.excluded
    BY <2>1 DEF Report
  <2>3. ReportOK(x) /\ InDelivery(x)
    BY <1>0, <2>1, <2>2 DEF ReportOK, InDelivery, Delivering, Approved, Sendable
  <2>4. Update(id, x, ok)
    BY <1>2 DEF Claim, MayClaim
  <2>5. job' = IF ~ok THEN None
               ELSE [job EXCEPT !.stage = "recheck",
                                !.approved = Sendable(r), !.barred = r.excluded,
                                !.old = IF r.delivery = None THEN NoDelivery ELSE r.delivery]
    BY <1>2 DEF Claim, MayClaim
  <2>6. CASE ~ok
    <3>1. Quiet
      BY <1>0, <2>5, <2>6 DEF Quiet, Delivering
    <3> HIDE DEF id, r, x
    <3> QED BY <2>3, <2>4, <3>1, UpdateStep
  <2>7. CASE ok
    <3>1. reports' = Replace(id, x) /\ disk' = reports'
      BY <2>4, <2>7 DEF Update, Flush
    <3>2. RightIn(Replace(id, x)) /\ \A n \in DOMAIN Replace(id, x) :
              Replace(id, x)[n].id = id => Replace(id, x)[n] = x
      <4>1. RightIn(Replace(id, x))
        BY <2>3, ReplaceRight
      <4> QED BY <4>1 DEF Replace, Places
    <3>3. /\ job'.id = id /\ job'.kind = job.kind /\ job'.stage = "recheck"
          /\ job'.approved = Sendable(r) /\ job'.barred = r.excluded
          /\ job'.send = {} /\ job'.run = NoDelivery
          /\ job'.old = IF r.delivery = None THEN NoDelivery ELSE r.delivery
      BY <1>0, <2>5, <2>7 DEF Job, MailInv, JobInv
    <3>4. Sendable(x) = Sendable(r)
      BY <2>2 DEF Sendable
    <3> HIDE DEF r, x
    <3>5. RightIn(reports)'
      <4> SUFFICES ASSUME NEW n \in DOMAIN Replace(id, x)
                   PROVE  ReportOK(reports[n])' /\ InDelivery(reports[n])'
        BY <3>1 DEF RightIn
      <4>1. ReportOK(reports[n])'
        BY <1>0, <3>1, <3>2 DEF RightIn, ReportOK
      <4>2. InDelivery(reports[n])'
        BY <2>2, <3>1, <3>2, <3>3, <3>4 DEF InDelivery
      <4> QED BY <4>1, <4>2
    <3>6. RightIn(disk)'
      BY <3>1, <3>5 DEF RightIn
    <3>7. \A m \in Mailings : copies'[id][m] > 0 => m \in job'.old.sent \/ <<id, m>> \in unsure'
      <4>1. CASE r.status = "pending"
        BY <1>0, <2>1, <4>1 DEF ReportOK
      <4>2. CASE r.status = "sent"
        <5>1. r.delivery # None
          BY <1>2, <4>2 DEF MayClaim, MayDeliver, MayResend, r
        <5> QED BY <1>0, <2>1, <3>3, <4>2, <5>1 DEF ReportOK
      <4> QED BY <2>1, <4>1, <4>2
    <3>8. JobInv'
      BY <1>0, <3>3, <3>7 DEF JobInv, Delivering
    <3>9. AtMostOnce'
      BY <1>0 DEF MailInv, AtMostOnce
    <3> QED BY <3>5, <3>6, <3>8, <3>9 DEF MailInv
  <2> QED BY <2>6, <2>7
<1> QED BY <1>1, <1>2

LEMMA RecheckRight ==
  ASSUME TypeOK, MailInv, Recheck
  PROVE  MailInv'
<1> USE DEF file, history
<1>0. job \in Job /\ Delivering /\ job.stage = "recheck"
      /\ UNCHANGED <<reports, disk, closed, copies, unsure, mailed>>
  BY DEF Recheck, In, TypeOK, Delivering
<1>1. PICK unread \in SUBSET {f.key : f \in job.approved}, found \in SecondScans(job.approved),
           send \in SUBSET Finding :
        /\ send = Intersect(job.approved, Current(found), unread)
        /\ job' = [job EXCEPT !.stage = "send", !.approved = {}, !.barred = {}, !.send = send,
                              !.routed = Emails(send), !.todo = Todo(Emails(send))]
  <2>1. PICK unread \in SUBSET {f.key : f \in job.approved}, found \in SecondScans(job.approved) :
          LET s == Intersect(job.approved, Current(found), unread) IN
          job' = [job EXCEPT !.stage = "send", !.approved = {}, !.barred = {}, !.send = s,
                             !.routed = Emails(s), !.todo = Todo(Emails(s))]
    BY DEF Recheck
  <2>2. Intersect(job.approved, Current(found), unread) \in SUBSET Finding
    BY <1>0 DEF Intersect, Current, SecondScans, Job
  <2> QED BY <2>1, <2>2
<1>2. /\ job'.id = job.id /\ job'.kind = job.kind /\ job'.stage = "send"
      /\ job'.send = send /\ job'.todo = job'.routed \ job.old.sent
      /\ job'.old = job.old /\ job'.run = job.run /\ (Delivering' => job' # None)
  BY <1>0, <1>1 DEF Job, Todo, Delivering
\* What still goes out is approved, by its key, and of no team that is excluded.
<1>3. RightIn(reports)' /\ RightIn(disk)'
  <2>1. ASSUME NEW r, InDelivery(r), r.id = job.id, NEW f \in send PROVE Approved(f, r)
    <3>1. job.approved \subseteq Sendable(r) /\ job.barred = r.excluded
      BY <1>0, <2>1 DEF InDelivery
    <3>2. PICK g \in job.approved : g.key = f.key
      BY <1>1 DEF Intersect
    <3>3. f \in job.approved \/ f.team \notin job.barred
      BY <1>1 DEF Intersect, Current
    <3> QED BY <3>1, <3>2, <3>3 DEF Approved, Sendable
  <2>2. ASSUME NEW r, ReportOK(r), InDelivery(r) PROVE ReportOK(r)' /\ InDelivery(r)'
    <3>1. ReportOK(r)'
      BY <1>0, <2>2 DEF ReportOK
    <3>2. InDelivery(r)'
      BY <1>0, <1>2, <2>1, <2>2 DEF InDelivery, Delivering
    <3> QED BY <3>1, <3>2
  <2> QED BY <1>0, <2>2 DEF MailInv, RightIn
<1>4. JobInv'
  <2>1. job.run = NoDelivery
    BY <1>0 DEF MailInv, JobInv
  <2> QED BY <1>0, <1>2, <2>1 DEF MailInv, JobInv, Delivering, NoDelivery
<1> QED BY <1>0, <1>3, <1>4 DEF MailInv, AtMostOnce

LEMMA SendEmailRight ==
  ASSUME TypeOK, MailInv, NEW m \in Mailings,
         NEW outcome \in {"sent", "refused", "lost", "unrouted"}, SendEmail(m, outcome)
  PROVE  MailInv'
<1> DEFINE id == job.id
<1>0. /\ job \in Job /\ Delivering /\ job.stage = "send" /\ id \in Ids /\ m \in job.todo
      /\ UNCHANGED <<reports, disk, closed>>
  BY DEF SendEmail, In, TypeOK, Delivering, Job, file
<1>1. /\ job'.id = id /\ job'.kind = job.kind /\ job'.stage = "send" /\ job'.approved = job.approved
      /\ job'.send = job.send /\ job'.routed = job.routed /\ job'.todo = job.todo \ {m}
      /\ job'.old = job.old /\ job'.run = Tried(m, outcome)
  BY <1>0 DEF SendEmail, Job
<1>2. /\ Tried(m, outcome).interrupted = job.run.interrupted
      /\ Tried(m, outcome).sent = IF outcome = "sent" THEN job.run.sent \cup {m} ELSE job.run.sent
      /\ Tried(m, outcome).failed =
           IF outcome \in {"refused", "lost"} THEN job.run.failed \cup {m} ELSE job.run.failed
      /\ Tried(m, outcome).unrouted =
           IF outcome = "unrouted" THEN job.run.unrouted \cup {m} ELSE job.run.unrouted
  <2>1. job.run \in Delivery
    BY <1>0 DEF Job
  <2> QED BY <2>1 DEF Tried, Delivery
<1>3. /\ unsure \subseteq unsure' /\ (outcome = "lost" => <<id, m>> \in unsure')
      /\ \A i \in Ids \ {id} : mailed'[i] = mailed[i] /\ copies'[i] = copies[i]
      /\ mailed'[id] \subseteq mailed[id] \cup job.send
      /\ \A n \in Mailings \ {m} : copies'[id][n] = copies[id][n]
      /\ outcome \in {"refused", "unrouted"} => copies'[id][m] = copies[id][m]
      /\ copies'[id][m] > 1 => copies[id][m] > 0
  <2>1. copies[id][m] \in 0..2
    BY <1>0 DEF TypeOK
  <2>2. copies[id][m] = 0 => Capped(copies[id][m] + 1) = 1
    BY DEF Capped
  <2> QED BY <1>0, <2>1, <2>2 DEF SendEmail, TypeOK
<1> HIDE DEF id
<1>4. ASSUME NEW r \in Report, ReportOK(r), InDelivery(r) PROVE ReportOK(r)' /\ InDelivery(r)'
  <2>1. InDelivery(r)'
    BY <1>0, <1>1, <1>4 DEF InDelivery, Delivering, id
  <2>2. CASE r.id # id
    <3>1. r.id \in Ids
      BY DEF Report
    <3> QED BY <1>0, <1>3, <1>4, <2>1, <2>2, <3>1 DEF ReportOK
  <2>3. CASE r.id = id
    <3>1. r.status = "sending" /\ \A f \in job.send : Approved(f, r)
      BY <1>0, <1>4, <2>3 DEF InDelivery, id
    <3> QED BY <1>0, <1>3, <1>4, <2>1, <2>3, <3>1 DEF ReportOK
  <2> QED BY <2>2, <2>3
<1>5. RightIn(reports)' /\ RightIn(disk)'
  BY <1>0, <1>4, ReportsInStore DEF MailInv, RightIn
<1>6. m \notin job.old.sent \cup job.run.sent
      /\ \A n \in Mailings : copies[id][n] > 0 =>
           n \in job.old.sent \cup job.run.sent \/ <<id, n>> \in unsure
  BY <1>0 DEF MailInv, JobInv, id
<1>7. \A n \in Mailings : copies'[id][n] > 0 =>
        n \in job'.old.sent \cup job'.run.sent \/ <<id, n>> \in unsure'
  <2>1. ASSUME NEW n \in Mailings \ {m}, copies'[id][n] > 0
        PROVE  n \in job'.old.sent \cup job'.run.sent \/ <<id, n>> \in unsure'
    BY <1>1, <1>2, <1>3, <1>6, <2>1
  <2>2. ASSUME copies'[id][m] > 0
        PROVE  m \in job'.old.sent \cup job'.run.sent \/ <<id, m>> \in unsure'
    BY <1>1, <1>2, <1>3, <1>6, <2>2
  <2> QED BY <2>1, <2>2
<1>8. job'.todo \cap (job'.old.sent \cup job'.run.sent) = {}
  BY <1>0, <1>1, <1>2 DEF MailInv, JobInv
<1>9. \/ job'.run.interrupted
      \/ job'.routed \subseteq job'.todo \cup job'.old.sent \cup job'.run.sent
                                 \cup job'.run.failed \cup job'.run.unrouted
  BY <1>0, <1>1, <1>2 DEF MailInv, JobInv
<1>10. JobInv'
  BY <1>0, <1>1, <1>7, <1>8, <1>9 DEF MailInv, JobInv, Delivering
<1>11. AtMostOnce'
  <2>1. ASSUME NEW i \in Ids, NEW n \in Mailings, copies'[i][n] > 1 PROVE <<i, n>> \in unsure'
    <3>1. CASE i # id \/ n # m
      BY <1>3, <2>1, <3>1 DEF MailInv, AtMostOnce
    <3>2. CASE i = id /\ n = m
      <4>1. copies[id][m] > 0
        BY <1>3, <2>1, <3>2
      <4>2. <<id, m>> \in unsure
        BY <1>6, <4>1
      <4> QED BY <1>3, <3>2, <4>2
    <3> QED BY <3>1, <3>2
  <2> QED BY <2>1 DEF AtMostOnce
<1> QED BY <1>5, <1>10, <1>11 DEF MailInv

LEMMA RecordRight ==
  ASSUME TypeOK, MailInv, NEW ok \in BOOLEAN, Record(ok)
  PROVE  MailInv'
<1> USE DEF file, history
<1> DEFINE id == job.id
           r == Expire(The(id))
           x == [r EXCEPT !.status = "sent", !.delivery = Outcome]
<1>0. /\ job \in Job /\ Delivering /\ job.stage = "send" /\ job' = None
      /\ UNCHANGED <<closed, copies, unsure, mailed>>
  BY DEF Record, In, TypeOK, Delivering
<1>1. Quiet
  BY <1>0 DEF Quiet, Delivering
<1>2. CASE ~Known(id)
  BY <1>1, <1>2, QuietStep DEF Record, MailInv, RightIn
<1>3. CASE Known(id)
  <2>1. r \in Report /\ r.id = id /\ ReportOK(r) /\ InDelivery(r)
    BY <1>3, TheRight
  <2>2. r.status = "sending" /\ Outcome.sent = job.old.sent \cup job.run.sent
    BY <1>0, <2>1 DEF InDelivery, Outcome
  <2>3. /\ x.id = id /\ x.status = "sent" /\ x.delivery = Outcome
        /\ x.findings = r.findings /\ x.excluded = r.excluded
    BY <2>1 DEF Report
  <2>4. ReportOK(x)
    <3>1. \A m \in Mailings : copies[id][m] > 0 =>
            m \in x.delivery.sent \/ <<id, m>> \in unsure
      BY <1>0, <2>2, <2>3 DEF MailInv, JobInv
    <3> QED BY <2>1, <2>2, <2>3, <3>1 DEF ReportOK, Approved, Sendable
  <2>5. Update(id, x, ok)
    BY <1>3 DEF Record
  <2> HIDE DEF id, r, x
\* The report is no longer being delivered, so what is stored need not say so.
  <2>6. reports' = Replace(id, x) /\ disk' \in {disk, reports'}
    BY <2>5 DEF Update, Flush
  <2>7. \A n \in DOMAIN reports' : ReportOK(reports'[n])
    BY <2>4, <2>6 DEF Replace, MailInv, RightIn
  <2>8. RightIn(reports)' /\ RightIn(disk)'
    BY <1>0, <1>1, <2>6, <2>7 DEF MailInv, RightIn, ReportOK, InDelivery, Delivering
  <2>9. JobInv' /\ AtMostOnce'
    BY <1>0 DEF MailInv, JobInv, AtMostOnce, Delivering
  <2> QED BY <2>8, <2>9 DEF MailInv
<1> QED BY <1>2, <1>3

LEMMA JobRight ==
  ASSUME TypeOK, MailInv, JobStep
  PROVE  MailInv'
<1> USE DEF file, history
<1>1. ASSUME NEW ok \in BOOLEAN, Preview(ok) PROVE MailInv'
  <2>1. Quiet
    BY <1>1 DEF Preview, Quiet, Delivering
  <2>2. CASE Known(job.id)
    BY <1>1, <2>1, <2>2, TheRight, UpdateStep DEF Preview
  <2>3. CASE ~Known(job.id)
    BY <1>1, <2>1, <2>3, QuietStep DEF Preview, MailInv, RightIn
  <2> QED BY <2>2, <2>3
<1>2. CASE Interrupt
  <2>1. job \in Job /\ Delivering /\ job.stage = "send"
        /\ UNCHANGED <<reports, disk, closed, copies, unsure, mailed>>
    BY <1>2 DEF Interrupt, In, TypeOK, Delivering
  <2>2. PICK run : /\ run = [job.run EXCEPT !.interrupted = TRUE]
                   /\ run.interrupted = TRUE /\ run.sent = job.run.sent
    <3> DEFINE run == [job.run EXCEPT !.interrupted = TRUE]
    <3>1. job.run \in Delivery
      BY <2>1 DEF Job
    <3>2. run.interrupted = TRUE /\ run.sent = job.run.sent
      BY <3>1 DEF Delivery
    <3> QED BY <3>2
  <2>3. job' = [job EXCEPT !.todo = {}, !.run = run]
    BY <1>2, <2>2 DEF Interrupt
  <2>4. /\ job'.id = job.id /\ job'.kind = job.kind /\ job'.stage = "send"
        /\ job'.approved = job.approved /\ job'.send = job.send /\ job'.todo = {}
        /\ job'.old = job.old /\ job'.run = run
    BY <2>1, <2>3 DEF Job
  <2>5. RightIn(reports)' /\ RightIn(disk)'
    BY <2>1, <2>4 DEF MailInv, RightIn, ReportOK, InDelivery, Delivering
  <2>6. JobInv' /\ AtMostOnce'
    BY <2>1, <2>2, <2>4 DEF MailInv, JobInv, AtMostOnce, Delivering
  <2> QED BY <2>5, <2>6 DEF MailInv
<1> QED
  BY <1>1, <1>2, BuildRight, ClaimRight, RecheckRight, SendEmailRight, RecordRight DEF JobStep

LEMMA MailInvariant == Spec => [](TypeOK /\ MailInv)
<1>1. Init => MailInv
  BY DEF Init, MailInv, RightIn, JobInv, AtMostOnce, Delivering
<1>2. TypeOK /\ MailInv /\ [Next]_vars => MailInv'
  <2> SUFFICES ASSUME TypeOK, MailInv, [Next]_vars PROVE MailInv'
    OBVIOUS
  <2>1. CASE Fail \/ UNCHANGED vars
    <3>1. Quiet /\ UNCHANGED <<reports, disk>>
      BY <2>1 DEF Fail, vars, Quiet, Delivering, file, history
    <3> QED BY <3>1, QuietStep DEF MailInv, RightIn
  <2>2. CASE Restart
    <3>1. Quiet /\ reports' = disk /\ disk' = disk
      BY <2>2 DEF Restart, Quiet, Delivering, file, history
    <3> QED BY <3>1, QuietStep DEF MailInv, RightIn
  <2> QED BY <2>1, <2>2, CommandRight, JobRight DEF Next
<1> QED BY <1>1, <1>2, ReportsTypeCorrect, PTL DEF Spec

\* Nothing is sent that was not approved, whatever the commands, panics, restarts
\* and failing writes between the approval and the mail.
THEOREM NothingUnapproved == Spec => []OnlyApproved
<1>1. MailInv => OnlyApproved
  <2> SUFFICES ASSUME MailInv, NEW n \in DOMAIN reports
               PROVE  /\ reports[n].id \in closed \/ reports[n].status \in {"pending", "expired"}
                           => mailed[reports[n].id] = {}
                      /\ \A f \in mailed[reports[n].id] : Approved(f, reports[n])
    BY DEF OnlyApproved
  <2> QED BY DEF MailInv, RightIn, ReportOK
<1> QED BY <1>1, MailInvariant, PTL

\* No email goes out twice unless the server's answer to it was lost.
THEOREM MailedAtMostOnce == Spec => []AtMostOnce
BY MailInvariant, PTL DEF MailInv

\* A delivery that ends accounts for each of its emails, or owns up to having been
\* interrupted; one that ends otherwise records nothing.
THEOREM EmailsAccountedFor == Spec => NothingForgotten
<1> DEFINE Accounted(r) ==
      r.delivery.interrupted
        \/ job.routed \subseteq r.delivery.sent \cup r.delivery.failed \cup r.delivery.unrouted
<1>1. TypeOK /\ MailInv /\ [Next]_vars =>
        [In({"deliver", "resend"}, "send") /\ job' = None =>
           \A n \in DOMAIN reports' :
             reports'[n].id = job.id /\ reports'[n].status = "sent" => Accounted(reports'[n])]_vars
  <2> SUFFICES ASSUME TypeOK, MailInv, Next, In({"deliver", "resend"}, "send"), job' = None,
                      NEW n \in DOMAIN reports',
                      reports'[n].id = job.id, reports'[n].status = "sent"
               PROVE  Accounted(reports'[n])
    OBVIOUS
  <2>0. job \in Job /\ job # None /\ Delivering /\ job.stage = "send"
    BY DEF In, TypeOK, Delivering
\* As long as the job runs, memory and file have the report as "sending".
  <2>1. CASE UNCHANGED reports
    BY <2>0, <2>1 DEF MailInv, RightIn, InDelivery
  <2>2. CASE reports' = disk
    BY <2>0, <2>2 DEF MailInv, RightIn, InDelivery
  <2>3. ASSUME NEW ok \in BOOLEAN, Record(ok), Known(job.id) PROVE Accounted(reports'[n])
    <3>1. job.todo = {} /\ (\/ job.run.interrupted
                            \/ job.routed \subseteq job.old.sent \cup job.run.sent
                                         \cup job.run.failed \cup job.run.unrouted)
      BY <2>0, <2>3 DEF Record, MailInv, JobInv
    <3>2. PICK x : /\ reports' = Replace(job.id, x) /\ x.delivery = Outcome
      <4>1. Expire(The(job.id)) \in Report
        BY <2>3, TheType, ExpireType
      <4> DEFINE x == [Expire(The(job.id)) EXCEPT !.status = "sent", !.delivery = Outcome]
      <4>2. x.delivery = Outcome
        BY <4>1 DEF Report
      <4> QED BY <2>3, <4>2 DEF Record, Update, Flush
    <3>3. n \in DOMAIN reports /\ (n \in Places(job.id) => reports'[n] = x)
      BY <3>2 DEF Replace
    <3>4. CASE n \in Places(job.id)
      BY <3>1, <3>2, <3>3, <3>4 DEF Outcome
    <3>5. CASE n \notin Places(job.id)
      BY <3>2, <3>3, <3>5 DEF Replace, Places
    <3> QED BY <3>4, <3>5
  <2>4. CASE Run \/ \E id \in Ids : Approve(id) \/ Resend(id) \/ Age(id)
    BY <2>0, <2>4 DEF Run, Approve, Resend, Age, Ask
  <2>5. CASE \E id \in Ids, ok \in BOOLEAN :
               Reject(id, ok) \/ \E team \in Teams : Exclude(id, team, ok)
    BY <2>0, <2>5 DEF Reject, Exclude
  <2>6. CASE JobStep
    BY <2>0, <2>1, <2>3, <2>6
       DEF JobStep, In, Preview, Claim, Build, Record, Recheck, SendEmail, Interrupt
  <2> QED BY <2>0, <2>1, <2>2, <2>4, <2>5, <2>6 DEF Next, CommandStep, Do, Fail, Restart
<1> QED BY <1>1, MailInvariant, PTL DEF Spec, NothingForgotten
=============================================================================
