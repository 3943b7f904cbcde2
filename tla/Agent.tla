------------------------------- MODULE Agent -------------------------------
(***************************************************************************)
(* One turn of the agent: Run of internal/agent/agent.go, with the routes of *)
(* route.go, the enforcer of enforce.go, needsApproval of approval.go, the   *)
(* filter of filter.go, the budgets of budget.go, the known identifiers of   *)
(* opaque.go and the review of review.go.                                    *)
(*                                                                           *)
(* The model and the servers are the environment: a request to the model     *)
(* fails, calls tools or gives a text, and a tool fails or gives an output.  *)
(***************************************************************************)
EXTENDS Naturals, Sequences, FiniteSets, SequencesExt, FiniteSetsExt

CONSTANTS
  Clusters, Namespaces, Ids, None,
  Tools,
  Rule,      \* per tool: the clusters that have it, its server and its ToolRule
  Scope,     \* per cluster: the caller's namespaces
  AdminOn,   \* the clusters where the caller is cluster-admin
  Identified,  \* the caller has an identity to forward
  Known,     \* the identifiers of the question and of the prompt
  Grants,    \* what a turn may hold grants for: sets of <<tool, cluster, namespaces>>, or None:
             \* nobody can be asked
  Records, Outputs, \* what servers answer with (a bound of the model)
  Calls, MaxCalls,  \* what the model calls, and in one round (bounds of the model)
  MaxIter, MaxNudges, MaxContinuations,
  ResultRunes, RoundRunes, ConversationRunes, FilterBytes, Notice

Call == [tool: Tools \cup {None}, want: Clusters \cup {None}, ns: SUBSET Namespaces,
         id: Ids \cup {None}, whole: BOOLEAN]

\* What a record names and what the IPs in it belong to; flow: it has two sides.
Record == [named: SUBSET Namespaces, behind: SUBSET Namespaces, flow: BOOLEAN,
           id: Ids \cup {None}]
\* A list is an array, or an object with what lies beside its largest array (the counts
\* keyed by a namespace that the caller lacks apart, which filterKeyedCounts drops first).
Output == [form: {"list", "doc", "text"}, recs: Seq(Records), beside: Seq(Records)]

ASSUME AgentConstants ==
  /\ Rule \in [Tools -> [on: (SUBSET Clusters) \ {{}}, server: {"scoped", "own", "shared", "docs"},
                         admin: BOOLEAN, approval: BOOLEAN, needsNs: BOOLEAN]]
  /\ Scope \in [Clusters -> SUBSET Namespaces] /\ AdminOn \subseteq Clusters
  /\ Identified \in BOOLEAN /\ Known \subseteq Ids
  /\ Records \subseteq Record /\ Outputs \subseteq Output /\ Calls \subseteq Call
  /\ \A out \in Outputs : out.beside # <<>> => out.form = "list" /\ out.recs # <<>>
  /\ None \notin Tools \cup Clusters \cup Ids
  /\ {MaxIter, MaxContinuations, RoundRunes, ConversationRunes} \subseteq Nat \ {0}
  /\ {MaxCalls, MaxNudges, ResultRunes, FilterBytes, Notice} \subseteq Nat

VARIABLES
  stage, iter, nudges,
  review,    \* Input.Review
  granted, proposed,  \* the turn's Approval
  queue,     \* calls of the round that are still to be looked at
  round,     \* the results of this round so far
  calls,     \* how many calls each round of the conversation holds
  results,   \* the results of the conversation, oldest first
  seen,      \* seenIDs
  finishing, \* who asked for the rest of an answer, how often, and what of it the model sees
  answer,
  ran,       \* history: the call that reached a server in the last step
  requests   \* history: requests to the model

vars == <<stage, iter, nudges, review, granted, proposed, queue, round, calls, results, seen,
          finishing, answer, ran, requests>>

Stages == {"think", "calls", "demand", "finish", "review", "done"}
Uses == Tools \X Clusters \X SUBSET Namespaces

\* of stands for the CallID; cluster is None for what was not filtered; dropped: trimmed.
\* A record weighs one rune, told is history: the identifiers the model was shown.
Result == [round: Nat, of: Nat, ok: BOOLEAN, cluster: Clusters \cup {None}, recs: Seq(Records),
           beside: Seq(Records), told: SUBSET Ids, size: Nat, dropped: BOOLEAN]

\* An answer is not ok when Run returns an error.  cut: it stops mid-sentence.
Answer == [ok: BOOLEAN, cut: BOOLEAN, notes: SUBSET {"cut", "stopped"}]
NoAnswer == [ok |-> FALSE, cut |-> FALSE, notes |-> {}]

\* parts of the answer the model wrote, and how many of them the conversation shows.
Finishing == [by: {"nobody", "run", "demand", "review"}, conts: Nat, parts: Nat, shown: Nat]
Nobody == [by |-> "nobody", conts |-> 0, parts |-> 0, shown |-> 0]

TypeOK ==
  /\ stage \in Stages /\ iter \in 0..MaxIter /\ nudges \in 0..MaxNudges
  /\ review \in BOOLEAN
  /\ granted \in Grants /\ proposed \subseteq Uses
  /\ queue \in Seq(Calls) /\ calls \in Seq(Nat) /\ {round, results} \subseteq Seq(Result)
  /\ Known \subseteq seen /\ seen \subseteq Ids
  /\ finishing \in Finishing /\ answer \in Answer
  /\ ran = None \/ ran \in [call: Calls, on: Clusters]
  /\ requests \in Nat

Init ==
  /\ stage = "think" /\ iter = 0 /\ nudges = 0
  /\ review \in BOOLEAN /\ granted \in Grants /\ proposed = {}
  /\ queue = <<>> /\ round = <<>> /\ calls = <<>> /\ results = <<>>
  /\ seen = Known
  /\ finishing = Nobody /\ answer = NoAnswer
  /\ ran = None /\ requests = 0

turn == <<review, granted>>
work == <<queue, round, calls, results, seen, proposed>>
-----------------------------------------------------------------------------
(* Where a call goes *)

Offered(t) == {k \in Rule[t].on : Rule[t].admin => k \in AdminOn}

\* route.resolve: the cluster the call names, or the only one there is.
Targets(call) ==
  LET has == Rule[call.tool].on IN
  IF Rule[call.tool].server = "docs" THEN has
  ELSE IF call.want # None THEN has \cap {call.want}
  ELSE IF Cardinality(Offered(call.tool)) = 1 THEN Offered(call.tool)
  ELSE IF Cardinality(has) = 1 THEN has ELSE {}

\* Enforcer.Check
Check(call, k) ==
  IF call.ns = {} THEN ~Rule[call.tool].needsNs ELSE call.ns \subseteq Scope[k]

\* As Enforced, asking for an admin of any cluster.
EnforcedAnywhere(call, k) ==
  LET rule == Rule[call.tool] IN
  IF rule.server = "docs" THEN TRUE
  ELSE IF rule.server = "own" THEN Identified
  ELSE IF rule.admin THEN AdminOn # {}
  ELSE rule.server = "shared" \/ Check(call, k)

Enforced(call, k) ==
  LET rule == Rule[call.tool] IN
  IF rule.server = "docs" THEN TRUE
  ELSE IF rule.server = "own" THEN Identified
  ELSE IF rule.admin THEN k \in AdminOn
  ELSE rule.server = "shared" \/ Check(call, k)

Use(call, k) == <<call.tool, k, call.ns>>

\* needsApproval
Holds == IF granted = None THEN {} ELSE granted
Unapproved(call, k) == Rule[call.tool].approval /\ Use(call, k) \notin Holds

\* The first check a call fails, in the order of the loop.  Only an identifier that is a
\* string is looked up: unseenIDs skips a list of them.
Verdict(call, k) ==
  IF ~call.whole THEN "incomplete"
  ELSE IF Unapproved(call, k) THEN "unapproved"
  ELSE IF call.id \notin seen \cup {None} THEN "invented"
  ELSE IF ~Enforced(call, k) THEN "denied" ELSE "run"
-----------------------------------------------------------------------------
(* What a result shows *)

\* recordAllowed: a flow needs one side of the caller's, any other record all.
RecordAllowed(rec, k) ==
  LET ns == rec.named \cup rec.behind IN
  IF rec.flow THEN ns \cap Scope[k] # {} ELSE ns \subseteq Scope[k]

Smaller(m, n) == IF m < n THEN m ELSE n

Error(of) == [round |-> Len(calls), of |-> of, ok |-> FALSE, cluster |-> None, recs |-> <<>>,
              beside |-> <<>>, told |-> {}, size |-> 1, dropped |-> FALSE]

\* What lies beside a list is taken to come after it.
CutTo(r, n) ==
  LET list == Smaller(Len(r.recs), n) IN
  [r EXCEPT !.size = Smaller(@, n), !.recs = SubSeq(@, 1, list),
            !.beside = SubSeq(@, 1, Smaller(Len(@), n - list))]

\* capResult
Shown(of, k, recs, beside) ==
  CutTo([Error(of) EXCEPT !.ok = TRUE, !.cluster = k, !.recs = recs, !.beside = beside,
                          !.size = Len(recs) + Len(beside)], ResultRunes)

TooLarge(out) == Len(out.recs) + Len(out.beside) > FilterBytes
HasIPs(out) == \E rec \in ToSet(out.recs) \cup ToSet(out.beside) : rec.behind # {}

\* The caller's records, in their order.
KeepAllowed(kept, rec, k) == IF RecordAllowed(rec, k) THEN Append(kept, rec) ELSE kept
Allowed(recs, k) ==
  LET kept[n \in 0..Len(recs)] ==
        IF n = 0 THEN <<>> ELSE KeepAllowed(kept[n - 1], recs[n], k)
  IN kept[Len(recs)]

\* As Filtered, going by the names alone while IPs cannot be resolved.
FilteredByName(of, k, out, resolves) ==
  LET own(rec) == IF resolves THEN RecordAllowed(rec, k) ELSE rec.named \subseteq Scope[k] IN
  IF TooLarge(out) THEN Error(of)
  ELSE IF out.form = "text" THEN Shown(of, None, out.recs, <<>>)
  ELSE IF out.form = "doc" /\ (\E rec \in ToSet(out.recs) : ~own(rec)) THEN Error(of)
  ELSE Shown(of, k, SelectSeq(out.recs, own), out.beside)

\* Agent.filtered and FilterResult: what cannot be parsed as JSON passes, and so does
\* what lies beside the list.
Filtered(of, k, out, resolves) ==
  IF TooLarge(out) \/ (HasIPs(out) /\ ~resolves) THEN Error(of)
  ELSE IF out.form = "text" THEN Shown(of, None, out.recs, <<>>)
  ELSE IF out.form = "doc" /\ (\E rec \in ToSet(out.recs) : ~(rec.named \cup rec.behind \subseteq Scope[k]))
       THEN Error(of)
  ELSE Shown(of, k, Allowed(out.recs, k), out.beside)

\* Only what a scoped server returns is filtered.
Unfiltered(call) == Rule[call.tool].server # "scoped" \/ Rule[call.tool].admin

ResultOf(call, of, k, out, resolves) ==
  IF Unfiltered(call) THEN Shown(of, None, out.recs, out.beside) ELSE Filtered(of, k, out, resolves)
-----------------------------------------------------------------------------
(* Budgets *)

Total(sizes) ==
  LET sum[n \in 0..Len(sizes)] == IF n = 0 THEN 0 ELSE sum[n - 1] + sizes[n]
  IN sum[Len(sizes)]
SizeOf(rs) == Total([i \in DOMAIN rs |-> rs[i].size])

\* capRound: a fair share each, and what the small ones leave to the large.
Share(rs) ==
  LET fair  == RoundRunes \div Len(rs)
      over  == {i \in DOMAIN rs : rs[i].size > fair}
      spare == Total([i \in DOMAIN rs |-> fair - Smaller(rs[i].size, fair)])
  IN fair + IF over = {} THEN 0 ELSE spare \div Cardinality(over)

CapRound(rs) ==
  IF SizeOf(rs) <= RoundRunes THEN rs
  ELSE [i \in DOMAIN rs |-> CutTo(rs[i], Share(rs))]

Dropped(r) == [r EXCEPT !.dropped = TRUE, !.recs = <<>>, !.beside = <<>>, !.size = Notice]

Trimmable(rs) == {i \in DOMAIN rs : rs[i].size # 0 /\ ~rs[i].dropped}
DropUpTo(rs, n) == [i \in DOMAIN rs |-> IF i <= n /\ i \in Trimmable(rs) THEN Dropped(rs[i]) ELSE rs[i]]
Text == 1 + Len(calls) + 2 * nudges
Fits(rs) == Text + SizeOf(rs) <= ConversationRunes

\* As Trim, newest first.
TrimNewest(rs) ==
  LET from(n) == [i \in DOMAIN rs |-> IF i >= n /\ i \in Trimmable(rs) THEN Dropped(rs[i]) ELSE rs[i]]
      enough == {n \in DOMAIN rs : Fits(from(n))}
  IN IF Fits(rs) \/ rs = <<>> THEN rs ELSE IF enough = {} THEN from(1) ELSE from(Max(enough))

\* trimConversation: oldest first, until what is left fits.
Trim(rs) ==
  LET enough == {n \in DOMAIN rs : Fits(DropUpTo(rs, n))}
  IN IF Fits(rs) THEN rs ELSE DropUpTo(rs, IF enough = {} THEN Len(rs) ELSE Min(enough))
-----------------------------------------------------------------------------
(* The loop *)

\* Run: what ends without an error, and is not empty, is reviewed if that is asked for.
Conclude(a) ==
  /\ answer' = a
  /\ \/ stage' = "review" /\ review /\ a.ok
     \/ stage' = "done" /\ (review /\ a.ok => a.notes = {})

NextIter == iter' = iter + 1 /\ stage' = IF iter + 1 < MaxIter THEN "think" ELSE "demand"

Asks == requests' = requests + 1 /\ ran' = None

\* A text of the model as an answer, with the notes that run adds.
Answered(cut, notes) ==
  [ok |-> TRUE, cut |-> cut, notes |-> notes \cup IF iter = MaxIter THEN {"stopped"} ELSE {}]

\* buildTools finds no cluster, or the model fails: Run returns an error.
ThinkFails ==
  /\ stage = "think" /\ Asks
  /\ Conclude(NoAnswer)
  /\ UNCHANGED <<iter, nudges, turn, work, finishing>>

ThinkCalls ==
  /\ stage = "think" /\ Asks
  /\ stage' = "calls"
  /\ \E n \in 1..MaxCalls : queue' \in [1..n -> Calls]
  /\ calls' = Append(calls, Len(queue'))
  /\ UNCHANGED <<iter, nudges, turn, round, results, seen, proposed, finishing, answer>>

\* A text that is no answer: it announces work, is a preamble, or is unmeasured.
Nudge(kind) ==
  /\ stage = "think" /\ Asks
  /\ nudges < MaxNudges
  /\ iter + (IF kind = "unmeasured" THEN 2 ELSE 1) < MaxIter
  /\ nudges' = nudges + 1 /\ NextIter
  /\ UNCHANGED <<turn, work, finishing, answer>>

Final(kind) ==
  /\ stage = "think" /\ Asks
  /\ \/ kind = "final"
     \/ nudges >= MaxNudges
     \/ iter + (IF kind = "unmeasured" THEN 2 ELSE 1) >= MaxIter
  /\ IF kind = "announces" /\ nudges >= MaxNudges
     THEN stage' = "demand" /\ UNCHANGED answer
     ELSE Conclude(Answered(FALSE, {}))
  /\ UNCHANGED <<iter, nudges, turn, work, finishing>>

\* The text stops at the output limit: finish.
Cut(by) == finishing' = [by |-> by, conts |-> 0, parts |-> 1, shown |-> IF by = "run" THEN 1 ELSE 0]

ThinkIsCut ==
  /\ stage = "think" /\ Asks
  /\ stage' = "finish" /\ Cut("run")
  /\ UNCHANGED <<iter, nudges, turn, work, answer>>
-----------------------------------------------------------------------------
(* A call of the round *)

IdsIn(r) == {rec.id : rec \in ToSet(r.recs) \cup ToSet(r.beside)} \ {None}
Noted(rs) == [i \in DOMAIN rs |-> [rs[i] EXCEPT !.told = IdsIn(rs[i])]]

\* capRound, noteIDs, trimConversation
EndRound(rs) ==
  LET done == Noted(CapRound(rs)) IN
  /\ results' = Trim(results \o done)
  /\ seen' = seen \cup UNION {r.told : r \in ToSet(done)}
  /\ round' = <<>> /\ NextIter

\* As Join, leaving a refused call without a result.
JoinIfRun(r) ==
  LET rs == IF r.ok THEN Append(round, r) ELSE round IN
  IF Len(queue) > 1 THEN round' = rs /\ UNCHANGED <<stage, iter, results, seen>>
  ELSE EndRound(rs)

\* A result joins the round; the last one ends it.
Join(r) ==
  LET rs == Append(round, r) IN
  IF Len(queue) > 1 THEN round' = rs /\ UNCHANGED <<stage, iter, results, seen>>
  ELSE EndRound(rs)

Number == Last(calls) - Len(queue) + 1

Handle ==
  /\ stage = "calls"
  /\ queue' = Tail(queue)
  /\ UNCHANGED <<nudges, turn, calls, finishing, answer, requests>>

\* tool_search, tool_describe, and a name that no route has.
HandleNoTool(ok) ==
  /\ stage = "calls" /\ Head(queue).tool = None /\ Handle
  /\ Join([Error(Number) EXCEPT !.ok = ok])
  /\ ran' = None /\ UNCHANGED proposed

\* Refused before it is sent: no cluster, or a verdict other than "run".
Refuse(k) ==
  LET call == Head(queue) IN
  /\ stage = "calls" /\ call.tool # None /\ Handle
  /\ \/ Targets(call) = {} /\ k = None /\ UNCHANGED proposed
     \/ /\ k \in Targets(call) /\ Verdict(call, k) # "run"
        /\ proposed' = IF Verdict(call, k) = "unapproved" /\ granted # None
                        THEN proposed \cup {Use(call, k)} ELSE proposed
  /\ Join(Error(Number))
  /\ ran' = None

\* CallTool; resolves: the namespaces behind IPs can be looked up.
RunTool(k) ==
  LET call == Head(queue) IN
  /\ stage = "calls" /\ call.tool # None /\ Handle
  /\ k \in Targets(call) /\ Verdict(call, k) = "run"
  /\ \E out \in Outputs, resolves \in BOOLEAN : Join(ResultOf(call, Number, k, out, resolves))
  /\ ran' = [call |-> call, on |-> k]
  /\ UNCHANGED proposed

ToolFails(k) ==
  LET call == Head(queue) IN
  /\ stage = "calls" /\ call.tool # None /\ Handle
  /\ k \in Targets(call) /\ Verdict(call, k) = "run"
  /\ Join(Error(Number))
  /\ ran' = [call |-> call, on |-> k]
  /\ UNCHANGED proposed
-----------------------------------------------------------------------------
(* The answer *)

\* demandAnswer: when it fails, a turn that announced work is answered with that.
Demand(outcome) ==
  /\ stage = "demand" /\ Asks
  /\ CASE outcome = "fails" -> Conclude(IF iter < MaxIter THEN Answered(FALSE, {}) ELSE NoAnswer)
                                /\ UNCHANGED finishing
       [] outcome = "whole" -> Conclude(Answered(FALSE, {})) /\ UNCHANGED finishing
       [] outcome = "cut" -> stage' = "finish" /\ Cut("demand") /\ UNCHANGED answer
  /\ UNCHANGED <<iter, nudges, turn, work>>

\* The review takes the model's text, which may leave the notes out, or keeps the draft.
Weighed(cut, notes) ==
  /\ stage' = "done"
  /\ \/ UNCHANGED answer
     \/ \E kept \in SUBSET answer.notes :
          answer' = [ok |-> TRUE, cut |-> cut, notes |-> notes \cup kept]

Finished(cut, notes) ==
  /\ finishing' = Nobody
  /\ IF finishing.by = "review" THEN Weighed(cut, notes) ELSE Conclude(Answered(cut, notes))

\* The rest arrives.  A model that still has its tools may call one instead.
FinishWhole(instead) ==
  /\ stage = "finish" /\ Asks
  /\ instead => finishing.by = "run"
  /\ Finished(instead, {})
  /\ UNCHANGED <<iter, nudges, turn, work>>

\* As FinishCut, without counting.
FinishCutEndless(again) ==
  /\ stage = "finish" /\ Asks
  /\ again = (finishing.conts + 1 < MaxContinuations)
  /\ IF again
     THEN /\ finishing' = [finishing EXCEPT !.parts = @ + 1, !.shown = @ + 1]
          /\ UNCHANGED <<stage, answer>>
     ELSE Finished(TRUE, {"cut"})
  /\ UNCHANGED <<iter, nudges, turn, work>>

FinishCut(again) ==
  /\ stage = "finish" /\ Asks
  /\ again = (finishing.conts + 1 < MaxContinuations)
  /\ IF again
     THEN /\ finishing' = [finishing EXCEPT !.conts = @ + 1, !.parts = @ + 1, !.shown = @ + 1]
          /\ UNCHANGED <<stage, answer>>
     ELSE Finished(TRUE, {"cut"})
  /\ UNCHANGED <<iter, nudges, turn, work>>

\* run says that its answer is cut, demandAnswer posts it as it is, review keeps the draft.
FinishFails ==
  /\ stage = "finish" /\ Asks
  /\ finishing' = Nobody
  /\ CASE finishing.by = "run" -> Conclude(Answered(TRUE, {"cut"}))
       [] finishing.by = "demand" -> Conclude(Answered(TRUE, {}))
       [] finishing.by = "review" -> stage' = "done" /\ UNCHANGED answer
  /\ UNCHANGED <<iter, nudges, turn, work>>

Review(outcome) ==
  /\ stage = "review" /\ Asks
  /\ CASE outcome = "fails" -> stage' = "done" /\ UNCHANGED <<answer, finishing>>
       [] outcome = "whole" -> Weighed(FALSE, {}) /\ UNCHANGED finishing
       [] outcome = "cut" -> stage' = "finish" /\ Cut("review") /\ UNCHANGED answer
  /\ UNCHANGED <<iter, nudges, turn, work>>

Done == stage = "done" /\ UNCHANGED vars

Think ==
  \/ ThinkFails \/ ThinkIsCut \/ ThinkCalls
  \/ \E kind \in {"announces", "preamble", "unmeasured"} : Nudge(kind)
  \/ \E kind \in {"final", "announces", "preamble", "unmeasured"} : Final(kind)

CallStep ==
  \/ \E ok \in BOOLEAN : HandleNoTool(ok)
  \/ \E k \in Clusters \cup {None} : Refuse(k)
  \/ \E k \in Clusters : ToolFails(k) \/ RunTool(k)

AnswerStep ==
  \/ \E outcome \in {"fails", "whole", "cut"} : Demand(outcome) \/ Review(outcome)
  \/ \E instead \in BOOLEAN : FinishWhole(instead)
  \/ \E again \in BOOLEAN : FinishCut(again)
  \/ FinishFails

Next == Think \/ CallStep \/ AnswerStep \/ Done

Spec == Init /\ [][Next]_vars
-----------------------------------------------------------------------------
Asking == stage \in {"think", "demand", "finish", "review"}

(* Every request to the model carries one result for every call of its rounds, in  *)
(* their order, whatever was refused, failed, withheld or trimmed: a call without   *)
(* its result is the shape the endpoint rejects (budget.go, trimConversation).      *)
ResultsMatchCalls ==
  Asking => \A n \in DOMAIN calls :
    \E before \in 0..Len(results) :
      /\ {i \in DOMAIN results : results[i].round = n} = (before + 1)..(before + calls[n])
      /\ \A i \in 1..calls[n] : results[before + i].of = i
      /\ \A i \in 1..before : results[i].round < n

(* Every record of a list that was filtered, and every document that was gated whole, *)
(* is about namespaces that its caller has on the cluster it came from, those its IPs  *)
(* belong to included; of a flow in a list that holds for one side (filter.go).  Two     *)
(* things pass: what is not JSON (filter.go:52), and what an object holds beside its      *)
(* largest array (filter.go:66-72).                                                        *)
NothingForeign ==
  \A r \in ToSet(results) : r.cluster # None =>
    \A rec \in ToSet(r.recs) :
      LET ns == rec.named \cup rec.behind IN
      ns \subseteq Scope[r.cluster] \/ (rec.flow /\ ns \cap Scope[r.cluster] # {})

(* A call that reaches a server is one the user approved if it needs that, carries   *)
(* no identifier but those of the question, the prompt or a result the model was     *)
(* shown in this turn (even if it was trimmed since), and runs on a cluster where     *)
(* the caller may: as admin, or in the namespaces it names (agent.go, run).  Of the    *)
(* identifiers that holds for single strings, not for a list (opaque.go:117-119).       *)
RunsOnlyWhatItMay ==
  ran # None =>
    LET rule == Rule[ran.call.tool]
        told == UNION {r.told : r \in ToSet(results)}
    IN /\ rule.approval => Use(ran.call, ran.on) \in Holds
       /\ ran.call.id \in Known \cup told \cup {None}
       /\ ran.on \in rule.on
       /\ rule.server \in {"scoped", "shared"} /\ rule.admin => ran.on \in AdminOn
       /\ rule.server = "scoped" /\ ~rule.admin => ran.call.ns \subseteq Scope[ran.on]

(* A turn asks the model once a round, then for the answer and its rest, and, if it   *)
(* is to be reviewed, for the review and its rest: no order of cut texts, nudges and    *)
(* failures keeps it asking (agent.go, run and finish).                                 *)
WorkBounded ==
  requests <= Smaller(iter + 1, MaxIter) + 1 + MaxContinuations
              + IF review THEN 1 + MaxContinuations ELSE 0

(* A round that does not fit drops results from the oldest on, and no more of them    *)
(* than it must; after it the conversation fits or has nothing left to drop             *)
(* (budget.go, trimConversation).                                                       *)
KeepsTheNewest ==
  [][stage = "calls" /\ stage' # "calls" =>
       LET now  == results'
           gone == {i \in DOMAIN results : now[i].dropped /\ ~results[i].dropped}
       IN /\ Fits(now) \/ Trimmable(now) = {}
          /\ \A i, j \in DOMAIN now : i < j /\ now[j].dropped => now[i].dropped \/ now[i].size = 0
          /\ \A i \in gone : (\A j \in DOMAIN now : now[j].dropped => j <= i) =>
               ~Fits([now EXCEPT ![i] = results[i]])]_vars

(* The rest of a cut answer is asked of a model that sees the whole of what it wrote     *)
(* ("asks for the remainder of a cut-off answer rather than a fresh one", agent.go:546).  *)
ContinuationSeesTheCut == stage = "finish" => finishing.shown = finishing.parts
=============================================================================
