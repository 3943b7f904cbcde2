------------------------------ MODULE ScopeCache ------------------------------
(***************************************************************************)
(* A user's access as the bot sees it: CachedResolver of                     *)
(* internal/authzclient/cache.go over the per-region sweep of                *)
(* internal/authzclient/client.go, and the "refresh" command of              *)
(* internal/bot/service.go.                                                  *)
(*                                                                           *)
(* What a region grants is reduced to whether it grants anything: a region   *)
(* is in a Scope exactly when it said "granted".  To the code a region that  *)
(* failed and one that grants nothing look the same; the model keeps them    *)
(* apart because the properties do.                                          *)
(***************************************************************************)
EXTENDS Naturals, FiniteSets

CONSTANTS
  Users, Regions,
  Callers,       \* handlers that resolve a scope
  TTL,           \* authz.cacheTTL
  QueryTimeout,  \* authz.timeout, the http.Client's
  None

ASSUME ScopeConstants ==
  /\ TTL \in Nat \ {0} /\ QueryTimeout \in Nat
  /\ None \notin {"granted", "none", "failed"}

\* After this long an access change must have reached everyone.
Horizon == TTL + QueryTimeout

VARIABLES
  access,   \* what each region's mcp-authz would say now
  since,    \* time since that last changed
  entries,  \* CachedResolver.entries
  flight,   \* singleflight.Group: the call in progress for a user
  callers   \* the calls of Resolve in progress

vars == <<access, since, entries, flight, callers>>

Says == {"granted", "none", "failed"}
Answers == [Regions -> Says]

Entry == [says: Answers, age: 0..(TTL + 1)]

\* "check" is before the second look at the cache, "query" while regions are
\* asked, "found" when the function given to Do has returned.
Flight == [stage: {"check", "query"}, heard: [Regions -> Says \cup {None}], elapsed: 0..QueryTimeout]
          \cup [stage: {"found"}, got: Answers]

\* was: what must be in the result, as far as a caller may count on it.
Caller == [user: Users, kind: {"plain", "refresh"},
           stage: {"ask", "miss", "wait", "done"},
           was: [Regions -> {"granted", "none", None}],
           got: Answers \cup {None}]

ASSUME NoneIsAbsent == None \notin Entry /\ None \notin Flight /\ None \notin Caller

TypeOK ==
  /\ access \in [Users -> [Regions -> {"granted", "none"}]]
  /\ since \in [Users -> [Regions -> 0..Horizon]]
  /\ entries \in [Users -> Entry \cup {None}]
  /\ flight \in [Users -> Flight \cup {None}]
  /\ callers \in [Callers -> Caller \cup {None}]

Init ==
  /\ access \in [Users -> [Regions -> {"granted", "none"}]]
  /\ since = [u \in Users |-> [r \in Regions |-> Horizon]]
  /\ entries = [u \in Users |-> None]
  /\ flight = [u \in Users |-> None]
  /\ callers = [c \in Callers |-> None]

At(c, st) == callers[c] # None /\ callers[c].stage = st
Flying(u, st) == flight[u] # None /\ flight[u].stage = st
Fresh(u) == entries[u] # None /\ entries[u].age < TTL

-----------------------------------------------------------------------------
(* Resolve *)

\* What an ordinary call may count on is what has not changed for a Horizon.
LongKnown(u) == [r \in Regions |-> IF since[u][r] = Horizon THEN access[u][r] ELSE None]

Call(c, u) ==
  /\ callers[c] = None
  /\ callers' = [callers EXCEPT ![c] =
       [user |-> u, kind |-> "plain", stage |-> "ask", was |-> LongKnown(u), got |-> None]]
  /\ UNCHANGED <<access, since, entries, flight>>

\* The refresh command: Invalidate, then Resolve.
Refresh(c, u) ==
  /\ callers[c] = None
  /\ entries' = [entries EXCEPT ![u] = None]
  /\ callers' = [callers EXCEPT ![c] =
       [user |-> u, kind |-> "refresh", stage |-> "ask", was |-> access[u], got |-> None]]
  /\ UNCHANGED <<access, since, flight>>

LookUp(c) ==
  /\ At(c, "ask")
  /\ LET u == callers[c].user IN
     callers' = IF Fresh(u)
                THEN [callers EXCEPT ![c].stage = "done", ![c].got = entries[u].says]
                ELSE [callers EXCEPT ![c].stage = "miss"]
  /\ UNCHANGED <<access, since, entries, flight>>

\* group.Do: the first to miss leads, the others wait for what it finds.
Join(c) ==
  /\ At(c, "miss")
  /\ LET u == callers[c].user IN
     flight' = IF flight[u] # None THEN flight
               ELSE [flight EXCEPT ![u] =
                      [stage |-> "check", heard |-> [r \in Regions |-> None], elapsed |-> 0]]
  /\ callers' = [callers EXCEPT ![c].stage = "wait"]
  /\ UNCHANGED <<access, since, entries>>

Found(u, got) == flight' = [flight EXCEPT ![u] = [stage |-> "found", got |-> got]]

\* As Recheck, starting the life of the entry it finds anew.
RecheckRenews(u) ==
  /\ Flying(u, "check")
  /\ IF Fresh(u) THEN /\ Found(u, entries[u].says)
                      /\ entries' = [entries EXCEPT ![u].age = 0]
     ELSE flight' = [flight EXCEPT ![u].stage = "query"] /\ UNCHANGED entries
  /\ UNCHANGED <<access, since, callers>>

\* The leader looks again: a flight that just ended may have filled the cache.
Recheck(u) ==
  /\ Flying(u, "check")
  /\ IF Fresh(u) THEN Found(u, entries[u].says)
     ELSE flight' = [flight EXCEPT ![u].stage = "query"]
  /\ UNCHANGED <<access, since, entries, callers>>

\* A region answers, or fails: its service, the timeout, or the context of the
\* leader, on which all who wait depend.
Hear(u, r) ==
  /\ Flying(u, "query")
  /\ flight[u].heard[r] = None
  /\ \E answer \in {access[u][r], "failed"} :
       flight' = [flight EXCEPT ![u].heard[r] = answer]
  /\ UNCHANGED <<access, since, entries, callers>>

AllHeard(u) == \A r \in Regions : flight[u].heard[r] # None
AllFailed(u) == \A r \in Regions : flight[u].heard[r] = "failed"

Store(u) == entries' = [entries EXCEPT ![u] = [says |-> flight[u].heard, age |-> 0]]

\* The sweep has its answers.  Only if every region failed is the result an error,
\* and then nothing is cached; a partial scope is cached like a full one.
Conclude(u) ==
  /\ Flying(u, "query") /\ AllHeard(u)
  /\ Found(u, flight[u].heard)
  /\ IF AllFailed(u) THEN UNCHANGED entries ELSE Store(u)
  /\ UNCHANGED <<access, since, callers>>

\* Do returns, to everyone who joined before now.
Deliver(u) ==
  /\ Flying(u, "found")
  /\ callers' = [c \in Callers |->
       IF At(c, "wait") /\ callers[c].user = u
       THEN [callers[c] EXCEPT !.stage = "done", !.got = flight[u].got]
       ELSE callers[c]]
  /\ flight' = [flight EXCEPT ![u] = None]
  /\ UNCHANGED <<access, since, entries>>

Return(c) ==
  /\ At(c, "done")
  /\ callers' = [callers EXCEPT ![c] = None]
  /\ UNCHANGED <<access, since, entries, flight>>

-----------------------------------------------------------------------------
\* StartSweeper.
Evict(u) ==
  /\ entries[u] # None /\ entries[u].age > TTL
  /\ entries' = [entries EXCEPT ![u] = None]
  /\ UNCHANGED <<access, since, flight, callers>>

\* Somebody's role bindings change; calls in progress may return either.
Change(u, r) ==
  /\ access' = [access EXCEPT ![u][r] = IF @ = "granted" THEN "none" ELSE "granted"]
  /\ since' = [since EXCEPT ![u][r] = 0]
  /\ callers' = [c \in Callers |->
       IF callers[c] # None /\ callers[c].user = u
       THEN [callers[c] EXCEPT !.was[r] = None] ELSE callers[c]]
  /\ UNCHANGED <<entries, flight>>

Lesser(m, n) == IF m < n THEN m ELSE n

Aged ==
  /\ since' = [u \in Users |-> [r \in Regions |-> Lesser(since[u][r] + 1, Horizon)]]
  /\ entries' = [u \in Users |-> IF entries[u] = None THEN None
                                 ELSE [entries[u] EXCEPT !.age = Lesser(@ + 1, TTL + 1)]]
  /\ flight' = [u \in Users |-> IF Flying(u, "query")
                                THEN [flight[u] EXCEPT !.elapsed = @ + 1] ELSE flight[u]]

\* The clock, counted no further than anything compares it: no query outlives
\* its timeout, and what a flight found is handed over within the instant.
Pass ==
  /\ \A u \in Users : ~Flying(u, "found")
  /\ \A u \in Users : Flying(u, "query") => flight[u].elapsed < QueryTimeout
  /\ Aged
  /\ UNCHANGED <<access, callers>>

-----------------------------------------------------------------------------
FlightStep(u) ==
  Recheck(u) \/ (\E r \in Regions : Hear(u, r)) \/ Conclude(u) \/ Deliver(u)
CallerStep(c) == LookUp(c) \/ Join(c) \/ Return(c)

Next ==
  \/ \E c \in Callers : \/ \E u \in Users : Call(c, u) \/ Refresh(c, u)
                        \/ CallerStep(c)
  \/ \E u \in Users : FlightStep(u) \/ Evict(u)
  \/ \E u \in Users, r \in Regions : Change(u, r)
  \/ Pass

Spec == Init /\ [][Next]_vars

-----------------------------------------------------------------------------
(* Properties *)

Agrees(c) ==
  At(c, "done") =>
    \A r \in Regions : callers[c].was[r] # None =>
      callers[c].got[r] \in {callers[c].was[r], "failed"}

\* Propagation of access through the cache, its second look and shared flights:
\* whoever asks a TTL and a query's timeout after a region changed its mind gets
\* the new answer, so revoked access is not used any more and granted access is
\* not missing, except that a region that failed is left out.
Propagation == \A c \in Callers : callers[c] # None /\ callers[c].kind = "plain" => Agrees(c)

\* cache.go: Invalidate "drops a user's cached scope so the next Resolve
\* re-queries every region".
RefreshIsCurrent == \A c \in Callers : callers[c] # None /\ callers[c].kind = "refresh" => Agrees(c)
=============================================================================
