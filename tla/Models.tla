------------------------------- MODULE Models -------------------------------
(***************************************************************************)
(* The model behind concurrent turns of the agent: Client.Complete, stream,  *)
(* parseStream and parseJSON of internal/llm/anthropic.go, the leak check of *)
(* leak.go, and the circuit breaker of failover.go.                          *)
(*                                                                           *)
(* A wire is what comes back for one HTTP request: a status, and the events  *)
(* of the stream, or of the one JSON body some proxies send instead, as far  *)
(* as they arrived.  A text or a tool's arguments come in pieces; the model  *)
(* tells how many, which is all that truncation can change, and says of the  *)
(* events which there are, where the code reads them one by one.             *)
(***************************************************************************)
EXTENDS Goroutines, Naturals, Sequences, FiniteSets, SequencesExt

CONSTANTS
  Wires,        \* what a model may answer with (a bound of the model)
  TextParts,    \* the pieces of a whole text
  ArgsParts,    \* the pieces that make a tool's arguments parse
  MaxAttempts, Threshold,
  Cooldown      \* in ticks

Wire == [status: {0, 200, 400, 429, 500}, json: BOOLEAN, cut: BOOLEAN, leaks: BOOLEAN,
         events: Seq([type: {"text", "tool", "delta", "stop", "max_tokens", "end", "error"},
                      index: Nat])]

ASSUME ModelsConstants ==
  /\ Wires \subseteq Wire
  /\ {TextParts, ArgsParts, MaxAttempts, Threshold, Cooldown} \subseteq Nat \ {0}

VARIABLES
  failures,  \* of the primary in a row, counted up to Threshold
  openFor,   \* ticks until openUntil; 0 also for the zero time
  asking,    \* each turn's request under way: whose attempt it is, and what was heard
  reply,     \* what Complete returned last
  left,      \* the turn's context is done
  excused    \* history: the caller left, or the backup refused

modelVars == <<failures, openFor, asking, reply, left, excused>>

-----------------------------------------------------------------------------
(* One answer of a model. *)

Has(w, types) == \E k \in DOMAIN w.events : w.events[k].type \in types

\* What a block's pieces are told by is its index.
Starts(w) == {i \in DOMAIN w.events : w.events[i].type \in {"text", "tool"}}
Pieces(w, i) ==
  {k \in DOMAIN w.events : k > i /\ w.events[k].type = "delta" /\ w.events[k].index = w.events[i].index}

Blocks(w, of) ==
  {[at |-> i, parts |-> Cardinality(Pieces(w, i))] : i \in {i \in Starts(w) : w.events[i].type = of}}

\* The last reason to stop is the one that counts.
Truncated(w) ==
  \E k \in DOMAIN w.events : /\ w.events[k].type = "max_tokens"
                            /\ \A n \in DOMAIN w.events : n > k => w.events[n].type # "stop"

\* Arguments of which nothing came count as the empty object, not as cut off.
Unparsed(w) == \E b \in Blocks(w, "tool") : b.parts \in 1..(ArgsParts - 1)

Content(w) == [texts |-> Blocks(w, "text"), calls |-> Blocks(w, "tool"), truncated |-> Truncated(w)]

Retryable == [kind |-> "retryable", content |-> None]
Permanent == [kind |-> "permanent", content |-> None]
Refused == [kind |-> "refused", content |-> None]

\* parseStream needs the end of the message and no error, parseJSON a body that decodes.
Ended(w) == Has(w, {"stop", "max_tokens", "end"})
IncompleteOnErrors(w) == Has(w, {"error"}) \/ w.cut \/ Unparsed(w)
Incomplete(w) == Has(w, {"error"}) \/ w.cut \/ (~w.json /\ ~Ended(w)) \/ Unparsed(w)

\* A call written as text, in place of a call.
Leaked(w) == w.leaks /\ Blocks(w, "tool") = {}

Stream(w) ==
  CASE w.status \in {0, 429, 500} -> Retryable
    [] w.status = 400 -> Permanent
    [] w.status = 200 /\ Incomplete(w) -> Retryable
    [] w.status = 200 /\ ~Incomplete(w) /\ Leaked(w) -> Permanent
    [] OTHER -> [kind |-> "ok", content |-> Content(w)]

\* The model's side of it (external): a block it sent in part is the last thing of a
\* message that broke off, met an error or the output limit, or is a call written as text.
ASSUME WholeAtTheEnd ==
  \A w \in Wires : \A i \in Starts(w) :
    \/ Cardinality(Pieces(w, i)) >= (IF w.events[i].type = "text" THEN TextParts ELSE ArgsParts)
    \/ w.status # 200 \/ w.cut \/ Has(w, {"error"}) \/ (~w.json /\ ~Ended(w))
    \/ Truncated(w) \/ Leaked(w)

-----------------------------------------------------------------------------
(* The breaker and the requests. *)

Outcomes == {Stream(w) : w \in Wires}

\* What a request ends with: the content, or one kind of error.
Verdict(o) == IF o.kind = "ok" THEN o ELSE Refused
Heard == {None} \cup {Verdict(o) : o \in Outcomes}
Request == [model: {"primary", "backup"}, attempt: 1..MaxAttempts, heard: Heard]

ASSUME NoneIsNoRequest == None \notin Request

ModelsTypeOK ==
  /\ failures \in 0..Threshold /\ openFor \in 0..Cooldown
  /\ asking \in [Turns -> Request \cup {None}]
  /\ reply \in [Turns -> Heard]
  /\ left \in [Turns -> BOOLEAN] /\ excused \in [Turns -> BOOLEAN]

ModelsInit ==
  /\ failures = 0 /\ openFor = 0
  /\ asking = [t \in Turns |-> None] /\ reply = [t \in Turns |-> None]
  /\ left = [t \in Turns |-> FALSE] /\ excused = [t \in Turns |-> FALSE]

UsePrimary == openFor = 0

First(model) == [model |-> model, attempt |-> 1, heard |-> None]
Closed(model, o) == [model |-> model, attempt |-> 1, heard |-> o]

\* Failover.Complete begins.
Ask(t) ==
  /\ asking[t] = None
  /\ asking' = [asking EXCEPT ![t] = First(IF UsePrimary THEN "primary" ELSE "backup")]
  /\ reply' = [reply EXCEPT ![t] = None]
  /\ excused' = [excused EXCEPT ![t] = left[t]]
  /\ UNCHANGED <<failures, openFor, left>>

\* Whether an attempt is followed by another one.
AgainOneMore(t, o) ==
  o.kind = "retryable" /\ asking[t].attempt <= MaxAttempts /\ ~left[t]
Again(t, o) ==
  o.kind = "retryable" /\ asking[t].attempt < MaxAttempts /\ ~left[t]

\* One attempt of Client.Complete ends.  Without its caller the HTTP request is
\* cancelled, and so is the wait for the next attempt.
Attempt(t, o) ==
  LET q == asking[t] IN
  /\ q # None /\ q.heard = None
  /\ left[t] => o = Retryable
  /\ asking' = [asking EXCEPT ![t] = IF Again(t, o) THEN [q EXCEPT !.attempt = @ + 1]
                                               ELSE Closed(q.model, Verdict(o))]
  /\ excused' = [excused EXCEPT ![t] = @ \/ (q.model = "backup" /\ ~Again(t, o) /\ o.kind # "ok")]
  /\ UNCHANGED <<failures, openFor, reply, left>>

\* onPrimaryResult.
Record(ok) ==
  LET n == IF failures < Threshold THEN failures + 1 ELSE failures IN
  IF ok THEN failures' = 0 /\ openFor' = 0
  ELSE failures' = n /\ openFor' = (IF n >= Threshold THEN Cooldown ELSE openFor)

\* The primary's result moves the breaker while the caller is there.
LearnFromAll(t) ==
  IF asking[t].model = "primary" THEN Record(asking[t].heard.kind = "ok")
  ELSE UNCHANGED <<failures, openFor>>
Learn(t) ==
  IF asking[t].model = "primary" /\ ~left[t] THEN Record(asking[t].heard.kind = "ok")
  ELSE UNCHANGED <<failures, openFor>>

\* A refusal of the primary is followed by the backup, for a caller who is there.
FallsBackWhenOpen(t) ==
  asking[t].model = "primary" /\ asking[t].heard.kind # "ok" /\ ~left[t] /\ ~UsePrimary
FallsBack(t) == asking[t].model = "primary" /\ asking[t].heard.kind # "ok" /\ ~left[t]

Settle(t) ==
  /\ asking[t] # None /\ asking[t].heard # None
  /\ Learn(t)
  /\ IF FallsBack(t)
     THEN asking' = [asking EXCEPT ![t] = First("backup")] /\ UNCHANGED reply
     ELSE /\ asking' = [asking EXCEPT ![t] = None]
          /\ reply' = [reply EXCEPT ![t] = asking[t].heard]
  /\ UNCHANGED <<left, excused>>

\* The caller's context ends while it waits.
Leave(t) ==
  /\ asking[t] # None /\ ~left[t]
  /\ left' = [left EXCEPT ![t] = TRUE]
  /\ excused' = [excused EXCEPT ![t] = TRUE]
  /\ UNCHANGED <<failures, openFor, asking, reply>>

\* The clock.
Cool == openFor > 0 /\ openFor' = openFor - 1 /\ UNCHANGED <<failures, asking, reply, left, excused>>
=============================================================================
