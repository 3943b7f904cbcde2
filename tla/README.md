# A verification project for snappcloud-bot

snappcloud-bot is a single process that answers questions about OpenShift
clusters in Mattermost, with the access of whoever asks.  It also runs saved
questions on a timer, investigates alerts, and audits the clusters once a week
and mails what it finds, after an approval.  Most of its state is a handful of
maps behind mutexes, read and written by goroutines that live for minutes: a
chat handler, a timer, an LLM run, a mail delivery.  The unit tests drive one of
them at a time.  The modules here are about what the others may do in between.

Paths below are relative to the repository's root (`src/` in `PROJECT.json`).

## 1. Inventory

| Component | State | Operations | Interacts through | Hard to get right |
|---|---|---|---|---|
| **Schedules** `internal/schedule`, `internal/bot/scheduling.go` | `Store.m`, `dirty`, the JSON file; `Runner.inFlight`, `sem`, `wg` | add, list, delete, `run <id>`, Due, RecordResult, Flush | chat commands on handler goroutines, the timer's goroutine, one goroutine per run, the process context | the window inside Flush; timed beside manual runs; tokens and marks on every path out of a run; shutdown that nobody waits for; ids that are drawn again |
| **Alerts** `internal/alerts`, `internal/bot/alerts.go` | `Aggregator.pending`, `opened`, `lastRun`; `Channels.m` and its file; running batches | mark/unmark, Add, Due, Failed, investigate | posts of integrations, the ticker, one goroutine per batch, a semaphore | a cooldown that is taken before the work is done; budget against cooldown; one cooldown for many channels; batches that wait while their channel changes hands |
| **Access** `internal/authzclient` | `CachedResolver.entries`, the singleflight group | Resolve, Invalidate, eviction, the sweep over regions | every handler resolves before it acts; mcp-authz per region over HTTP | age of an answer through cache, second look and shared flight; refresh against a flight; partial answers |
| **Best-practice report** `internal/bestpractice`, `internal/bot/report.go`, `internal/mail` | `Store.st` (reports, last slot, first-seen) and its file; `Runner.busy` | build, approve, reject, exclude, resend, the weekly slot | admin commands, the timer, one job goroutine, SMTP | approval against everything that may happen before the job claims it; crash and failed writes in a delivery; resends; lost SMTP answers |
| **Chat** `internal/bot/service.go`, `approval.go`, `conversation.go`, `ratelimit.go` | pending proposals per thread, transcripts per user and thread, token buckets | OnPost, the commands, sweeping, flushing | a handler goroutine per post; Agent; all the above through commands | two replies to one proposal; transcripts overwritten by a slower turn; a proposal that outlives its context |
| **Brain** `internal/brain` | none per question; the clusters and groups it was built with | Answer: which clusters and servers a question reaches | Agent, Access | failed listings, names of clusters, callers who see a part |
| **Agent** `internal/agent` | one turn's conversation, tool routes, approval, budgets | buildTools: the list a request carries; Run: rounds of model calls and tool calls, review, a forced answer | LLM, MCP servers, scope from Access | a bounded list that leaves no tool out of reach; ending with an answer within every budget; only tools that are in scope and approved; only records of allowed namespaces |
| **LLM client and failover** `internal/llm` | failures, `openUntil` | Complete: a stream or a body, retries, the backup | concurrent turns | streams that break off; late results moving the breaker; callers who leave |
| **MCP client and mux** `internal/mcp` | tool owners, the servers that failed, handshake flags, sessions | ListTools, ListFailures, CallTool | concurrent turns | two maps replaced under a turn; a server that restarts and forgets its sessions |
| **Mattermost** `internal/mattermost` | the connection, a handler pool per connection | Listen, post, typing | Chat | a full pool blocks the read loop; a new pool after a reconnect |
| **API** `internal/api` | none of its own | ask, whoami, MCP over HTTP | Access, rate limiter, Brain | — |
| **Rules** `internal/bestpractice/rules.go`, `selector.go` | none | Evaluate: findings of an inventory | the report | arithmetic of PDBs and quorums; findings that fold, ignore and exclude each other |
| **Rendering, parsing** | none | pure functions | the report, alerts, schedules | formats |
| **Process** `cmd/snappcloud-bot` | the context | start and stop | all runners | `run` returns when the websocket loop does; the runners' last flushes race the exit |

What makes each correct, in a sentence:

- *Schedules*: quotas and the failure limit hold in memory and in the file; a
  slot fires once and keeps its cadence; a run gets a token and gives it back.
- *Alerts*: an alert is handed out once per cooldown, unless an investigation of it
  failed, and no failure leaves it quiet; what is left out is the least severe; no
  window stays open.
- *Access*: nobody acts on access older than the cache's TTL and one query.
- *Report*: nothing goes out that was not approved, nothing twice, nothing is
  forgotten; a week is built once and not skipped, and its history survives a
  cluster that could not be read.
- *Rules*: no PDB that blocks a drain is lost on the way, and what is advised is right.
- *Chat*: an approval runs exactly the tools it was given for, once and in time; a
  decline is final; a follow-up goes on with what its author was told.
- *Agent*: a turn ends within a bounded number of requests, runs nothing that is not
  approved and in scope, and lists no record of a foreign namespace; what it is
  offered is complete for its caller and shared fairly among the servers.
- *LLM*: a request is answered whole, or fails for a reason that is not the primary's.
- *MCP*: a turn is told what failed it, and its tools go where it found them.
- *Mattermost*: every post that is read gets a handler.

## 2. Modules

| Module | What it models | Checked by | Proved in |
|---|---|---|---|
| `Schedules` | store, timer loop, pool, manual runs, process stop and restart | `MCSchedules`, 2 configurations | `SchedulesProofs` |
| `Alerts` | aggregator, runner, marks while a process lives | `MCAlerts`, 2 configurations | `AlertsProofs` |
| `ScopeCache` | cached resolver over a sweep of regions, refresh | `MCScopeCache`, 2 configurations | `ScopeCacheProofs` |
| `Reports` | report store, one-job runner, approval and delivery | `MCReports`, 1 configuration | `ReportsProofs` |
| `Weekly` | the report's slots, which clusters were read, the history and the diff | `MCWeekly`, 1 configuration | `WeeklyProofs` |
| `Rules` | the findings on an inventory, the arithmetic of PDBs and the advice, as operators | `MCWeekly`, same run | `WeeklyProofs` |
| `Chat` | the handlers of one thread, its proposal, its transcripts | `MCChat`, 1 configuration | `ChatProofs` |
| `Offer` | which clusters a question reaches and which tools a request carries | `MCAnswer`, 1 configuration | `AgentProofs` |
| `Agent` | one turn: rounds of calls, what they may reach and show, budgets, the answer and its review | `MCAnswer`, and `MCAgent`, 1 configuration | `AgentProofs` |
| `Models` | what a stream of a model becomes, retries, the breaker and the backup | through `Turns` | `TurnsProofs` |
| `ToolServers` | handshakes, sessions, listings and routes of the mux | through `Turns` | `TurnsProofs` |
| `Turns` | the websocket's pool of handlers and the turns they run; composes the two above | `MCTurns`, 1 configuration | `TurnsProofs` |
| `Completion` | abstract: what a turn is promised of a model | implemented by `Turns` | `TurnsProofs` |
| `Goroutines` | the constants that `Models` and `ToolServers` share | | |

`Turns` composes the two backends that concurrent turns really share, the mux and the
breaker, with the pool that limits the turns.  The other modules share no state: in the
code they meet only in `Service`, which calls each under its own lock.  What one needs
of another is an input there: a run, a batch or a delivery ends with one of its possible
outcomes.

Every module with variables of its own has a type invariant, `TypeOK`, which is a
theorem (for `Offer` it is `OfferTyped` in the proofs) and the ground of the others.

### 2.1 Schedules

| Model | Code |
|---|---|
| `entries`, `dirty`, `disk` | `Store.m`, `Store.dirty`, the file at `Store.path` |
| `snap` | the list `Flush` copies before it unlocks |
| `loop` | the goroutine of `Runner.Start`: selecting, flushing, writing, waiting for runs, flushing last |
| `inFlight`, `sem`, `runs` | `Runner.inFlight`; who holds a token of `Runner.sem`; the goroutines of `runDue` and `Trigger` |
| `Add`, `Delete`, `Trigger` | `addSchedule`, `unschedule`, `runNow` with the store or runner call each makes |
| `Tick` | `runDue`: `Due` takes and advances all due entries and starts their goroutines without waiting |
| `FlushBegin`, `FlushWrite` | the locked half of `Flush`, and the write outside the lock that may fail silently |
| `Acquire`, `Queue`, `Abandon`, `Finish`, `End` | `acquire` with its two selects, `run`, and the deferred calls |
| `Cancel`, `Exit`, `Stopping`, `Drained`, `Reboot` | SIGTERM; `run()` of main returning; `Start` waiting for its goroutines and flushing; a new process |

`Exit` may come at any point after `Cancel`: main returns as soon as
`mm.Listen` does and waits for none of the goroutines it started.  `Reboot`
without `Cancel` is a crash.

Intervals are numbers of ticks; the entry's question, channel and thread are left
out, as nothing in the store or the runner looks at them.  A first run lies
ahead of now, which is what every branch of `Parse` returns.

### 2.2 Alerts

Everything the aggregator compares is a duration since some event, so the model
keeps durations, each counted only as far as the code tells values apart: `Window`
for `opened`, one past `Cooldown` for `lastRun`.  Time itself has no bound.

| Model | Code |
|---|---|
| `marks` | `Channels.m` |
| `pending`, `opened`, `lastRun` | the maps of `Aggregator` |
| `jobs` | batches between `Due` and the return of `investigate`; "due" until `runDue` has looked the channel up |
| `Ingest` | `ingestAlert` and `Aggregator.Add` |
| `Tick` | `Aggregator.Due`, the walk over the channels in the order of a Go map (`ord`) included |
| `Dispatch`, `Drop`, `Acquire`, `Abandon`, `Fail`, `Settle` | `runDue`, with the batch of a channel that was unmarked meanwhile; `investigate`; the error, or the nil or panic, of `Service.Investigate` |

The fingerprint includes the cluster label and not the severity: `ClusterOf` is
a constant function of the alert, and a notification brings a rank along, of
which a window keeps the first.

Four variables are history, all about an alert's last hand-out: `quiet` is the time
since, and nothing resets it but the next one; `by` is the batch it went to, `fate` how
that batch ended, and `overtaken` says that a batch of an earlier hand-out failed since.
A fate is a failure (`Failed` gives the cooldown back), an answer, or one of three ends
that keep the cooldown without one: dropped, panicked, silent (the model said nothing,
or the owner has no access any more, which is posted, but nothing was looked at).

### 2.3 ScopeCache

| Model | Code |
|---|---|
| `entries` | `CachedResolver.entries`, an entry's age instead of its expiry |
| `flight` | `singleflight.Group`: at most one call per user, with what each region answered so far |
| `LookUp`, `Join`, `Recheck`, `Conclude`, `Deliver` | the first look, `group.Do`, the second look inside it, the end of `ResolveWithGroups` with the write of the entry, and the return of `Do` to all who joined |
| `Hear` | one region's answer in `namespaces`, or its failure |
| `Refresh` | the refresh command: `Invalidate`, then `Resolve` |
| `Change` | a region's role bindings change (external) |

What a region grants is reduced to whether it grants anything.  `since` and the
`was` of a caller are history: since when a region says what it says, and what a
caller may therefore count on.

### 2.4 Reports

| Model | Code |
|---|---|
| `reports`, `disk` | `Store.st.Reports` and the file; every change flushes under the lock |
| `stale` | the reports whose `Expires` has passed; `Expire` applies it when a report is touched, as `Store.expire` does |
| `cmd`, `job` | a command between its `Get` and `Runner.Do`; the job that `Runner.busy` stands for |
| `Approve`, `Resend`, `Do` | the command's look, and the runner that accepts or refuses it |
| `Claim`, `Recheck`, `SendEmail`, `Interrupt`, `Record` | the steps of `deliverReport` and `resendReport` |
| `Build`, `Preview` | `BuildReport`: `Store.Add` and, after the post, the `Update` with its thread |
| `Fail`, `Restart` | a panic or an early return of the job; a process that ends anywhere and one that loads the file |

A finding is its key, without a team as in `Finding.Key`, and the team its namespace is
labelled with.  The second scan may find it fixed or under another team (`Labels`);
`Intersect` joins the two scans by key and sends the finding as the second one has it,
after findings of excluded teams are gone from both.  Where a cluster could not be read
again the finding goes out as previewed.  An email is the set of teams routed into it.
`SendEmail` has the outcomes the code can see plus one it cannot: the server took
the message and its answer was lost.

### 2.5 Chat

| Model | Code |
|---|---|
| `turns` | the local variables of the goroutines in `OnPost` and `Investigate`: where each is, the `history` it read, what its `agent.Approval` grants and has collected |
| `conv` | `convStore.m` for one thread: a user's transcript as the set of posts whose exchange it holds |
| `pending` | `pendingStore.m` for one thread; `live` until `pendingTTL` has passed |
| `Send`, `Investigate` | a post reaches `OnPost`; a batch of alerts reaches the agent |
| `Refuse`, `Open`, `Look`, `Take` | the early returns; `conv.get`; `pending.has`; `pending.take` with the decline's return |
| `Answer`, `Fail` | `brain.Answer` returns: `conv.put`, or the error and empty paths, which keep the old transcript |
| `Offer`, `Reply` | `pending.put`, then `replyTo`; for an alert the other way round, and no `put` when the post failed |
| `Expire`, `Forget` | the two TTLs |

Each action is at most one critical section of one store, so the steps of two
handlers interleave as the mutexes allow.  One thread is enough: its proposal and
its transcripts are entries of their own, and no operation reads another
thread's.  The agent is an input: it fails, or it answers and asks for a use it
holds no grant for.

History: `saw` and `after` are what was on the screen when a post was written (the
last request, and the turns that were over), `asked` the last request that reached
the thread, `forgot` what expired, `cut` what a later exchange of its author pushed out
of a transcript.  How long texts are is left to choice: `Trimmed` is what the cut to the
last 6000 runes (`maxTranscriptRunes`) may leave, the new exchange, if only the end of
it, and any number of those before, the latest first.  "Was written" and "is received" are one step:
a post that is on its way longer meets the same handlers as one written later, with
an older `saw`, which the properties about `saw` exclude as an overlap.

### 2.6 Agent

| Model | Code |
|---|---|
| `stage`, `iter`, `nudges` | where `Agent.Run` is; its local variables |
| `calls`, `results`, `round` | `msgs`: how many calls each assistant turn holds, and its results; the `results` of the round under way |
| `seen`, `granted`, `proposed` | `seenIDs`; the turn's `Approval` |
| `ThinkFails`, `ThinkCalls`, `Nudge`, `Final`, `ThinkIsCut` | what a request to the model ends with |
| `HandleNoTool`, `Refuse`, `RunTool`, `ToolFails` | one turn of the loop over `resp.Calls`; the last call of a round runs `capRound`, `noteIDs` and `trimConversation` too (`EndRound`) |
| `Demand`, `FinishWhole`, `FinishCut`, `FinishFails`, `Review` | `demandAnswer`, one request of `finish` and `review` |

The model and the servers are the environment; what turns share behind them is
modelled by `Turns`, and here a tool fails or answers.  A tool is
its `ToolRule`, the kind of its server and the clusters that have it; a call names
a cluster or leaves it to `resolve`.  What the code does with texts is left to
choice: which kind of text an answer is, whether a revision keeps the notes that
`run` had added.  An output is a sequence of records, each of which weighs one rune
and may carry an identifier.  It is a list (an array, or an object with its largest
array, which alone is filtered, and what lies `beside` it, which is shown as it is), a
document (an object without arrays, gated whole) or a text (no JSON, which passes).
Notes about truncation weigh nothing.  `Check` also
stands for `pinPromQL`: the namespaces of a query are those it selects.

History: `ran` is the call that reached a server in the last step, `told` of a result
the identifiers it showed before it was trimmed, `finishing.parts` and `.shown` how
much of a text the model has written and sees, `requests` how often it was asked.

### 2.7 Turns, Models, ToolServers, Completion

| Model | Code |
|---|---|
| `waiting`, `slot`, `stage` | `listenOnce`: a post that was read and waits at `sem <-`; whose connection's `sem` a handler holds a slot of; where the handler's turn is |
| `Receive`, `Dispatch`, `End`, `Panic`, `Reconnect` | the read loop, the goroutine, its deferred calls, and `Listen` around `listenOnce` |
| `listing`, `told` | the local variables of `Mux.ListTools` in a turn; what `buildTools` made of them and of `ListFailures` |
| `owner`, `failed`, `initDone` | `Mux.owner`, `Mux.failed`, the `initDone` of each `Client` |
| `StartListing` ... `ReadFailures` | the walk over the servers without a lock, the two critical sections at its end, and the third that reads the failures |
| `Route`, `CallGreet`, `EndCall` | `Mux.CallTool`, the allow-list and the handshake of `Client.CallTool` |
| `failures`, `openFor` | `Failover.failures`, `openUntil` as the ticks that are left |
| `Ask`, `Attempt`, `Settle`, `Leave` | `Failover.Complete`: the choice of the model, one attempt of `Client.Complete`, what its result does to the breaker and whether the backup is asked, a context that ends |
| `Stream` | `stream`, `parseStream`, `parseJSON`, `leakedToolCall`: what the events of one response become |

A wire is a status and a sequence of events; texts and arguments come in pieces, and
how many is all that truncation changes.  The code accumulates the events one by one; the
model says which blocks start, which pieces carry a block's index, and which reason to
stop is the last.  `Restart` (external) is a server that loses
its sessions: a stateful one refuses what it does not know until it is greeted again,
which a client that has shaken hands never does.

`Completion` has one variable per turn's request: idle, asked, answered, failed, with
an excuse to fail, which is that its caller left or that the backup refused it.  Every
request it is asked comes to an end.  `Turns!C` maps to it.

History: `alone` (no other turn has published a listing since), `excused`.

### 2.8 Offer

| Model | Code |
|---|---|
| `Choose` | `Brain.Answer`: named clusters and groups, what the caller's scope reaches, the refusal |
| `ListSource`, `MissSource` | one source of `buildTools`'s loop, listed or failed |
| `Places`, `RouteAt`, `Routes` | `buildRoutes`: copies of a tool on several clusters merge into one route, which belongs to the server where the name was met first |
| `MayUse`, `Offerable`, `Weight` | the gating by rule and scope, the catalog, `priority` |
| `Precedes`, `Turn`, `Sooner`, `FirstOf` | `interleave`: a server's tools in order of priority, the first of each server, then the second of each |
| `Preferred`, `Reserved`, `InTurn`, `Direct` | the reserve for servers nobody asked about; what a request carries, and the three bridge tools when something is left out |
| `Build` | the end of `buildTools` |

Recognising a cluster's name in a question is an input (`Question`), as are the rules.
Names are pairs of a prefix and a tool; a name that `qualify` would give to two tools
of one source is left out (`Distinct`): the code then keeps one route for both.

The code builds lists: it appends routes as it meets them, sorts each server's stably,
and takes them round by round.  The model says what of that matters, and as sets: a
route keeps the place where it was met, `Precedes` is the stable sort's order, `Turn`
the round in which a route's server reaches it, and `FirstOf` a list's first elements.

### 2.9 Rules

`Evaluate` is the code's, cluster by cluster: PDB rules, then instances in order, each
finding through `Add` (disabled rules, exclusions, annotations that no drain blocker
obeys), and a single instance's finding that takes the place of those of its PDBs: the
code removes them while it walks the instances, so a finding goes with the first instance
that takes it (`TakenBy`).
`Desired`, `RoundedUp` and `Observed` are Kubernetes (external), defined apart from the
code's arithmetic, because the properties compare the two.

### 2.10 Weekly

| Model | Code |
|---|---|
| `store`, `disk` | `Store.st` and its file: last slot, reports, first-seen |
| `busy`, `accepted` | `Runner.busy`; the slot between `Do` and `mark` |
| `CheckFirst`, `CheckTooLate`, `CheckFires`, `CheckMarks` | the branches of `check`; the last two are two steps because `Do` starts the job before `mark` writes |
| `Demand`, `Build`, `EndJob` | `Do` for an admin's build or another job; `BuildReport` with `Collect` and `Store.Add`; a job without a report |
| `Save` | `flush`: the memory changes and the file may not |
| `Crash`, `Boot`, `Advance` | the process, and the clock, which waits while the timer has something to do |

A finding is its key.  `Reports` takes up the report from here; the two share a store in
the code and no field of it.  History: `fires`, `first`, `gaps`, `again` (starts of a
slot's job that was started before).

## 3. Runs

Deadlock is checked for `ScopeCache`, `Turns` and the two runs of `Agent`, whose turn may
only stop when it is done.  The other runs use `CHECK_DEADLOCK FALSE`: the process may
really end there (an exit with no restart left, a cancelled context with nothing under
way, a bounded supply of ids or of time, an inventory that is judged once).

| Run | Question | Bounds, and why they are enough |
|---|---|---|
| `schedules` | Do quotas, marks and the dirty flag survive every interleaving with flush, shutdown and restart? | 2 users with a quota of 1, 2 ids, 2 goroutines for 1 token, 2 processes, time 0..1. Two runs meet at the token and at an id, two users at the total; one flush overlaps any command. Users, ids and goroutines are symmetric. |
| `schedules_pool` | Is the pool bounded, the cadence kept, and does every run end? | 1 schedule, 1 token, 2 goroutines, time 0..2 with interval 1 so that a tick can be late by a slot. No symmetry: it checks liveness. |
| `alerts` | Is the budget spent on the worst? | 1 channel, 2 alerts of one cluster and 1 of another, 2 ranks, budget 1, window 1, cooldown 2: subjects and context compete. The history variables, which neither a guard nor the property reads, are left out of the states that are told apart (`VIEW`). |
| `alerts_shared` | Is nothing repeated early, is nothing quiet without reason, and does every window and batch end? | 2 channels with 1 alert, so that their windows close together or apart; ranks 1 and 3 around the minimum, loudness 2; 2 batches at once, so that one outlives the cooldown and fails beside the next; a cooldown of three windows, so that pruning has something to prune wrongly. |
| `scope_cache` | How old can the access be that a handler acts on? | 2 callers and 2 regions, so that a flight is shared, led by either, and half failed; TTL 2, timeout 1. One user: users share nothing but locks. |
| `scope_cache_refresh` | "so the next Resolve re-queries every region" | TTL 1. Violated. |
| `reports` | Is nothing sent unapproved, twice, or forgotten? | 2 findings and 3 teams in 2 emails (one team without a recipient, in an email with one that has), one finding that the second scan may see under either of two teams of different emails, one of which an admin may have excluded; 2 ids with room for 1 report, so a build replaces a report in any state; 1 failing write at any point, any number of panics, restarts, resends. |
| `chat` | What does a yes grant and a no end, and what does a turn remember? | 2 users, 3 posts or alerts in any overlap, 2 uses of which a turn asks at most one. Three turns are what the properties need: one that asks, one that replaces it or replies, one that replies too. A transcript is cut after any exchange, or not. All are symmetric. |
| `agent` | What is a turn offered; does it end, with every call answered, nothing run or shown that must not be, and the newest results kept? | 3 rounds (a text with unmeasured cells is only sent back with two to go) of up to 2 calls, 1 nudge, 2 continuations. A caller with a namespace on one cluster who is admin of the other, so that the wrong cluster's answer shows; a tool of each kind that is routed or authorized differently. Results of 0 to 2 runes, 3 a round, 6 a conversation: a round is cut, one round fits, the second or third drops some of the first. 4 outputs: a list that is filtered with a foreign record beside it, a foreign document, a text, a list too large to filter. The offer: 2 clusters with a tool in common, a global source, a list with room for fewer than there are, callers with all, part or none of the scope, every way to name clusters, each source failing or not. It is chosen in other states than the turn's, so the two do not multiply. |
| `turns` | Does every turn get whole answers, right routes and an end, and does the system recover? | 2 turns on a pool of 1 (a reconnect lets the second run), 2 servers that share a tool's name, one of them stateful and one with an allow-list; 2 attempts, 2 failures to open the breaker, a cooldown of 1; 7 wires: a text, a text with a call, a stream that ends early, arguments cut at the output limit, markup, a refusal, a network error. Either the servers or the models are in trouble in a behaviour (`trouble`), which keeps the product finite enough for liveness. |
| `weekly` | Is a slot built once and not skipped, is the history right, do the rules lose nothing and advise right? | 2 clusters with a problem each, 3 reports (a row that breaks and one that does not), slots every 3 ticks with a catch-up of 1, a crash and a lost write. Rules: inventories of up to 2 PDBs and 2 instances, in every combination of annotation, exclusion and disabled rule that a branch looks at; and every specification with values 0 to 7 and 13 percentages over 1 to 7 members. |
| `agent_continuation` | "continued from where it broke off" | The same instance. Violated. |

### What the violations show

Each is a sentence of the repository that the code does not keep.

1. `RefreshIsCurrent` — `Invalidate` leaves the singleflight call alone, so a
   refresh joins a sweep that began before the change, returns its result, and the
   sweep caches it for a whole TTL (`cache.go:79-80`, README.md:174-177).
2. `ContinuationSeesTheCut` — `finish` tells the model to go on from where it broke
   off.  When the cut text came from `run` it is in the messages; when it came from
   `demandAnswer` or `review` it is not, so the model continues a text it cannot see,
   after a review even the draft, and the two are joined (`agent.go:546`,
   README.md:289-291).

### Disagreements that the models reach and no run is about

Each of these is a behaviour of the models that follow the code; the sentence it
disagrees with is quoted, and the checked properties are stated so that they say what
the code does keep.

- `Trigger` takes the in-flight mark, and the timer neither takes nor looks at it.  With
  two tokens, "run <id>" at the moment the schedule is due runs it twice at once
  (README.md:182 and `runner.go:34-35`: one run of an id at a time).
- Alerts in their cooldown count against `maxPerWindow`.  When they use it up, a new
  alert behind them is put on the skipped list of a batch that is then dropped because
  it investigates nothing (README.md:215-216, "listed rather than dropped silently").
- Three ends of a batch keep the cooldown of alerts that nobody investigated or answered:
  its channel was unmarked between the tick and the batch (`alerts/runner.go:81-84`), it
  panicked (`runner.go:105-109`), or `Investigate` returns nil because the owner lost
  access or the model said nothing.  `aggregator.go:102` calls `lastRun` "the last time
  each fingerprint was INVESTIGATED".  `QuietHasALook` names these ends (`Unanswered`) and
  says that there is no other.
- `Failed` deletes the cooldown whatever batch set it.  A batch that waits or runs for
  longer than the cooldown and then fails releases the alert while a newer batch with it
  is under way or was answered, so it is handed out again at once, where
  `bot/alerts.go:60` tells the channel that "the same alert is not looked at again" for
  the cooldown.  `NoEarlyRepeat` names this case (`overtaken`) beside a plain failure.
- The cooldown of an alert has no channel, so one channel's answer silences the alert in
  another, which got none; `aggregator.go:233` says of it that "the channel already has
  that answer".
- A namespace that is labelled anew between the preview and the delivery sends its
  finding to its new team: `Intersect` (`bestpractice/report.go:114-138`) joins findings by
  `Finding.Key`, which has no team (`rules.go:82-88`), and keeps the second scan's.  That
  team, or its email, need not be in the preview, which README.md:248-250 says "names every
  email and who receives it".  (An excluded team gets nothing either way: `recheckReport`
  drops its findings before they are joined.)  If the new team's email went out already, a
  resend leaves the finding out.  `OnlyApproved` goes by key.
- A yes can grant what its writer was not asked: a thread has one proposal, the last
  `put` wins, and it is put before the answer that explains it is posted, where
  README.md:438-440 says a yes "grants exactly that proposal".  `MisreadOnlyInOverlap`
  says when: only turns that ran side by side, or a request whose post failed, can
  mislead a yes.
- A slot is marked after its job was accepted, and in memory even when the write fails:
  a crash in between builds the week's report again, where `bestpractice/report.go:150`
  says that "a restart neither loses a pending report nor runs twice" and
  `bestpractice/runner.go:156` that a crash "does not send it twice".
  `AgainOnlyAfterACrash` says how often it can.
- After the cooldown every concurrent request goes to the primary, where README.md:276
  has it "probed once".
- The mux calls whoever owns a tool now, where `mux.go:106` has "the server that
  advertised the tool": another turn's listing, with a server missing, may have given
  the name to another one, or taken it away.  `AloneIsRight` says when it may not.
- A client that has shaken hands never does so again, so a stateful server that
  restarted stays unreachable until the bot restarts too; `Recovers` excepts it.
- Of an object with arrays only the largest is filtered; its other arrays and fields are
  shown as they are, unless they are counts keyed by a namespace (`filter.go:66-72`,
  `dominantArrayKey`), where `filter.go:11-20` has "every record that references a
  namespace the user is not authorized for" dropped.  `NothingForeign` speaks of the list.
- An identifier argument that is not a string is not looked up (`opaque.go:117-119`), so a
  list of invented ones passes the check that `unseenIDMessage` explains;
  `RunsOnlyWhatItMay` speaks of single ones.
- A tool call that `max_tokens` cuts before its first fragment becomes a call with empty
  arguments; later cuts are rejected (`anthropic.go:349-357`).
- "Key identifies a finding" (`rules.go:81`): two quorum systems under one PDB share the
  key of their below-quorum findings, and the second's age is the first's.
- A `minAvailable` number of a PDB over several instances is compared with one
  instance's members.
- A list that may carry three tools or fewer is exceeded when the three bridge tools
  join it; and "keeps its whole tool list" (`agent.go:129`) gives way to the quarter
  that is reserved for clusters a question did not name.
- `ErrNoClusterTools` (`brain.go:22-24`) is also the answer to a question that names only
  clusters outside its caller's scope.

### Fairness

Three runs assume any.  `Schedules!FairSpec`: the loop and each run goroutine
move when they can (`WF`); `Acquire` is strongly fair because Go serves senders
blocked on a channel in order of arrival, and a token that comes free again and
again reaches the one that waits.  A run returns because its context has a
deadline (`RunnerOptions.Timeout`).  Nothing is assumed of users, of the shutdown
or of the disk.  `Alerts!FairSpec` is the same for batches, plus the ticker and
the clock.  `Turns!FairSpec`: each turn moves, as every HTTP request below it has a
timeout (`mcp/client.go`, `llm/anthropic.go`) and the wait between attempts is bounded;
the clock runs; and a free handler takes the post that waits.  Which outcome a step has
is never assumed: `FailsBack` and `Recovers` state as their premise what the environment
must do (the primary stops refusing; the servers answer and turns go on listing).

### Mutants

Before a definition stands, as `AcquireOneMore`, `DeliverOnTrust`, `TrimNewest` and so on,
the form it would have with a plausible slip in the code (a token too many, a claim
that trusts the command's look, the newest results dropped first).  `PROJECT.json`
pairs each property of a passing run with the slip that breaks it.

## 4. Proofs

Every invariant and action property of the passing runs is a theorem; liveness is not.

Assumed throughout: the named `ASSUME`s of the modules, which TLC evaluates in the runs.
They say that users, ids, goroutines, channels, alerts, clusters and their problems are
finite sets, limits are natural numbers and positive where the code makes them so, ranks
and periods are numbers, a mux and a list of sources name nothing twice, and `None` is
no entry, request, batch or listing.  No theorem bounds the number of users, ids, runs,
alerts, reports, regions, callers, posts, turns, servers or tools, the length of time,
or the number of restarts.

`SchedulesProofs`

- `TypeCorrect`: the type invariant is inductive by itself, given that `Advance`
  and `AfterResult` keep an entry's type (lemmas).
- `PoolBounded`: by `PoolInv`, which says that the holders of tokens *are* the
  running runs; the bound alone is not inductive, as `Finish` removes from `sem`
  and `PoolBound` counts stages.
- `MarkCorrect`: the marks equal the ids of manual runs, inductive with the types.
- `LimitsCorrect`: by `LimitsInv`, the limits of memory, file *and* the copy that
  `Flush` holds between its halves, which becomes the file and, after a restart,
  the memory.  `ShrinkKeepsLimits` carries the cardinalities.
- `CleanCorrect`: by `CleanInv`, which follows the copy through the write.
- `CadenceKept`: an action property, from `RoundUp`, the arithmetic of
  `advance`'s closed form.

`ScopeCacheProofs`

- `ScopeTypeCorrect`: types; a query's `elapsed` stays within the timeout.
- `AccessPropagates`: by `PropagationInv`.  A change is invisible only as long as
  an old answer can travel: `SweepsRight` bounds what a sweep may have heard by its
  elapsed time, `EntriesRight` what an entry says by its age plus one query,
  `FindsRight` what is handed over, and `CountsRight` what a caller may count on.
  None of the four is inductive alone: an answer moves from a sweep to an entry to
  a find to a caller.

`AlertsProofs`

- `AlertsTypeCorrect`: types; that a batch is one the code can form is the long part.
- `CooldownKept`, an action property: by `TimeInv`, that until the cooldown is over the
  map holds exactly the time since the hand-out, unless a failure took it away, and the
  history says which.  Within one tick it is the order of the walk: of two channels that
  close together the later finds the alert in its cooldown (`Fresh`).
- `NoSilentFailure`: by `CoolInv`, that what still suppresses something belongs to a batch
  under way or to one that kept it, and `ByInv`, that an alert's last batch is really
  about it, so that its failure reaches the alert.
- `BudgetOnTheWorst`, an action property: by `SeenInv`, that no two alerts of a window
  arrived at one place.  Only then is `Ahead` a strict order without ties, in which "fewer
  than `MaxPerWindow` come before" picks a full budget and nothing better is left out
  (`SpentInOrder`).

`ReportsProofs`

- `ReportsTypeCorrect`: types of store, file and job.
- `NothingUnapproved`, `MailedAtMostOnce`: by `MailInv`.  The property speaks of what was
  mailed; what makes it hold is spread over memory, file and job: `ReportOK` says what a
  report of a given status may have mailed, and has to hold of both copies, as a restart
  makes one the other; `InDelivery` that while a job delivers, both say so, and that what
  it is about to send is approved by key and of no excluded team, whatever the second scan
  made of the teams; `JobInv` that what went out is on the job's lists and what it has yet
  to try is not.
- `EmailsAccountedFor`, an action property: from the same invariant, as a job that ends
  has put each email on one of its lists.

`ChatProofs`

- `ChatTypeCorrect`: by `TypeInv`, the types together with what a turn holds at each
  stage (a grant only after a yes, a result only at the end).
- `ProposalUsedOnce`, `GrantCorrect`: by `OfferInv`.  That no two turns have the same
  `from` is inductive only with the proposal itself: what waits in the store is what
  its turn asked for, that turn has answered, and nobody has taken it.  A turn offers
  at most once, after every other step of its own that could matter, so `OneTurn`
  and `QuietSteps` dispose of all actions but `Take` and `Offer`.
- `GrantInTime`: an action property; only `Take` changes a grant, to what `Taken`
  returns.
- `YesMeansTheLast`, `NoIsKept`: by `ScreenInv`.  What a person saw is history, so the
  invariant is mostly about the order of turns: `RecordInv` says what a turn's record may
  hold, `AskedInv` that the last request on the screen did not end before another was
  written, `LatestInv` that what waits, or was taken, was neither replaced by a turn that
  came after it nor declined.
- `MemoryIsOnesOwn`: by `MemoryInv`, over transcripts, the histories turns go on with and
  the one a proposal carries: an exchange of somebody else gets into a transcript only
  along with an approval, and `Recalls` follows it from the proposal to the transcript.
  A cut drops the oldest first, so what carries somebody's exchange keeps the approval
  that brought it.
- `FollowUpsKnow`: by `KnownInv`: a finished exchange is in its user's transcript, expired,
  was pushed out of it by a later one, or another turn of the same user ran beside it and
  may have overwritten it.  What is lost stays lost (`LostForGood`).

`TurnsProofs`

- `TurnsTypeCorrect`: one lemma per group of actions of `ToolServers` and `Models`, and
  the composition from them.
- `AloneCorrect`: by `AloneInv`.  The property speaks of a turn that has been told; a
  turn gets there through two publications, so the invariant follows its listing: from
  the first publication on the failures are its own, from the second the owners are,
  and both only as long as `alone` holds, which any other turn's publication ends.
- `ImplementsCompletion`: the safety part of the refinement.  `RequestsOK` relates a
  request to its turn's stage and to its excuse; `Kept` lists what one turn's step may
  be to `Completion`, `OneTurnKept` makes an abstract step of it once for all actions,
  and a lemma per action shows that it is one of the list.
- `AnswersAreWhole`: a reply is what `Stream` made of some wire, so `PassedIsWhole` says it
  of wires.  That a message which comes to its end is whole is the model's part and an
  assumption (`WholeAtTheEnd`); that nothing else passes, neither a stream that breaks
  off, nor an error, half a body, arguments that do not parse, or a call written as text,
  is the code's, and is what the proof goes through.

`WeeklyProofs`

- `WeeklyTypeCorrect`: types of the store and its file.
- `NoWeekSkipped`: by `SlotsInv`: whatever slot memory or file name as the last has been
  started, was marked by a first start, or was too late, and a slot accepted by the
  runner has been started.  The rest is that `Slots.Last` yields the last multiple of
  the period (`SlotIsLast`), which takes the lemmas about division.
- `RepeatsHaveACrash`: by `RepeatInv`.  Counting repeats and crashes is not enough: the
  invariant also says when a repeat may still come (`MayRepeat`: the record that will be
  read lies behind a start), and that its crash is then counted already.
- `AgesAreRight`: by `History`, of memory and of file: the first-seen time of a key is
  the creation of the first report of its unbroken row, a row that is broken only by a
  report that read the key's cluster; and what the last report calls new are the keys
  first seen by it.  Reports are built one after another, so creation times grow.
- `ScaledAsKubernetes`, `BelowQuorumIsRight`: the arithmetic of `Scaled` and `Loose`,
  for every number of members and every specification; `AdviceHolds` is `AdviceIsRight`
  for every specification and every positive number of members.
- `BlockersReported`: for an inventory of any size whose instances are a list.  The
  finding is found, cannot be silenced, and if an instance takes it along, the least
  such instance names it.
- `KeysAreKeys`: for an inventory in which no two instances have both namespace and name
  in common, as Kubernetes has it.  `Shapes` lists what a finding of each rule looks like.

`AgentProofs`

- `AgentTypeCorrect`: types and `StageInv`, which stages have calls left.
- `NoCallUnanswered`: by `ResultsInv`: the results are blocks, one per round, in which
  each call has one; a round under way has those of its first calls.
- `OnlyOnesOwn`: by `ConfinedInv`: the lists and documents of results are confined when they
  join the round, and the budgets only take records away.  What lies beside a list is not
  part of the statement.
- `NothingBeyondScope`: by `KnownInv`: an identifier a call may carry is one the question
  or a result told; a call is checked in the step in which it reaches a server.
- `AsksAtMost`: by `WorkInv`, how often the model was asked, stage by stage.
- `OldestGoFirst`, an action property: by `TrimInv`.  `KeepAllowed` and `DroppedFirst`
  relate what the two budgets leave; the sums over results are recursive functions.
- `OfferComplete`, `ShareFair`: by `OfferInv`: the offer is what `Build` makes of the
  question and of what was listed.  Completeness is then about `Routes`: a name's first
  place exists (places are ordered like pairs of numbers) and its route stands for all
  of them.  Fairness is about ranks: in a finite set with a strict total order, ranks
  run from 0 without gaps (`RanksAll`), so the first n are n (`FirstOfSize`), a server's
  k-th tool is in the list only if every other waiting server has k - 1 there, and the
  two groups share the room as `Reserved` says (`Split`).

The library's induction takes an operator as a parameter, so `AgentProofs` states it for
sets (`LeastNat`, `Inductive`, `Recursion`) and derives from it what the recursive
functions of the model compute.  Operators that fold a sequence or filter it with a
`LAMBDA` stay opaque to the provers; where a property needed one, the model defines the
same by sets and quantifiers.

Model-checked only:

- `EveryRunEnds`, `WindowCloses`, `FailsBack`, `Recovers`, `EveryPostHandled`, and the
  fairness in `Completes`: liveness, which the prover does not do.
- The two properties that are violated.

## 5. Not modelled

- The grammar of schedules, zones and daylight saving; a `daily` schedule is an
  interval to the store as well (`advance` adds `Every`).
- The file of the alert marks and restarts in `Alerts`: the buffer and the cooldown
  are lost with the process by design.
- Text: parsing alerts, rendering reports and emails, prompts, PromQL; recognising a
  cluster in a question; how the search ranks the tools a list has no room for; the keys
  of summary documents that hide a namespace (`filterKeyedCounts`).
- The file of the transcripts; the rate limiter, whose buckets are one locked function.
- The HTTP and MCP API (`internal/api`), stateless over parts modelled above.
- The layers below a request: HTTP, SMTP, JSON-RPC, the frames of the WebSocket, its
  backoff, attachments and typing; metrics; configuration; the wiring in `main`.

## 6. Plan

1. Abstract specifications: an at-most-once mailing, implemented by `Reports` without
   lost answers; a resolver that answers within a bounded age, implemented by
   `ScopeCache`.
2. `RateLimiter`: the lazily refilled buckets of `ratelimit.go`, whose `now` is read
   before the lock.
