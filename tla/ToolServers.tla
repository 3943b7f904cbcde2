---------------------------- MODULE ToolServers ----------------------------
(***************************************************************************)
(* The tool servers of one cluster behind concurrent turns of the agent:     *)
(* Mux of internal/mcp/mux.go over the Clients of client.go, each with its    *)
(* handshake and session, as agent.buildTools and CallTool use them.          *)
(*                                                                           *)
(* Every turn lists first: it asks the servers in order without a lock, and   *)
(* then replaces what all turns share in two critical sections, the servers    *)
(* that failed and the owners of the tools, and reads the failures in a third. *)
(***************************************************************************)
EXTENDS Goroutines, Naturals, Sequences, FiniteSets, SequencesExt

CONSTANTS
  Tools,
  Servers,   \* the sequence the mux was built with
  Offers,    \* per server: the tools it advertises
  Enabled,   \* per server: its allowTools
  Stateful   \* the servers that refuse a session they do not know

Hosts == ToSet(Servers)

ASSUME ToolServersConstants ==
  /\ Servers \in Seq(Hosts) /\ Servers # <<>> /\ IsInjective(Servers)
  /\ Offers \in [Hosts -> SUBSET Tools] /\ Enabled \in [Hosts -> SUBSET Tools]
  /\ Stateful \subseteq Hosts /\ None \notin Hosts \cup Tools

VARIABLES
  initDone,   \* the clients that have shaken hands
  forgotten,  \* the servers that restarted and do not know the client's session
  owner,      \* Mux.owner
  failed,     \* Mux.failed
  listing,    \* each turn's walk over the servers
  told,       \* what the walk told the turn: the tools it may call, and what is missing
  calling,    \* each turn's call under way
  alone       \* history: no other turn has published since this one did

serverVars == <<initDone, forgotten, owner, failed, listing, told, calling, alone>>

Owners == [Tools -> Hosts \cup {None}]

\* at is the server that is asked, or a step after the last one; greet is set
\* while the handshake is under way.
Listing == [at: 1..(Len(Servers) + 3), greet: BOOLEAN, found: Owners, missing: SUBSET Hosts]

\* missing is what failed to answer this walk, degraded what the prompt says did.
Told == [found: Owners, missing: SUBSET Hosts, degraded: SUBSET Hosts]
Call == [tool: Tools, server: Hosts, greet: BOOLEAN]

ASSUME NoneIsNoListing == None \notin Listing /\ None \notin Told /\ None \notin Call

ServersTypeOK ==
  /\ initDone \subseteq Hosts /\ forgotten \subseteq Stateful \cap initDone
  /\ owner \in Owners /\ failed \subseteq Hosts
  /\ listing \in [Turns -> Listing \cup {None}]
  /\ told \in [Turns -> Told \cup {None}]
  /\ calling \in [Turns -> Call \cup {None}]
  /\ alone \in [Turns -> BOOLEAN]

Unowned == [x \in Tools |-> None]

ServersInit ==
  /\ initDone \in {{}, Hosts} /\ forgotten = {} /\ owner = Unowned /\ failed = {}
  /\ listing = [t \in Turns |-> None] /\ told = [t \in Turns |-> None]
  /\ calling = [t \in Turns |-> None] /\ alone = [t \in Turns |-> FALSE]

-----------------------------------------------------------------------------
(* The handshake, before a listing and before a call. *)

\* The unlocked gap between the look at initDone and the handshake is the step
\* from arriving at a server to Greet: two turns may greet one server.
MustGreet(s) == s \notin initDone

Greet(s) == initDone' = initDone \cup {s} /\ forgotten' = forgotten \ {s}

\* A server that is up answers anybody whose session it knows.
Answers(s) == s \notin forgotten

-----------------------------------------------------------------------------
(* Listing. *)

\* The walk moves on to server i, or to the end.
MoveTo(l, i) ==
  [l EXCEPT !.at = i, !.greet = i <= Len(Servers) /\ MustGreet(Servers[i])]

StartListing(t) ==
  /\ listing[t] = None
  /\ listing' = [listing EXCEPT ![t] =
       MoveTo([at |-> 1, greet |-> FALSE, found |-> Unowned, missing |-> {}], 1)]
  /\ told' = [told EXCEPT ![t] = None]
  /\ alone' = [alone EXCEPT ![t] = FALSE]
  /\ UNCHANGED <<initDone, forgotten, owner, failed, calling>>

AtServer(t) == listing[t] # None /\ listing[t].at <= Len(Servers)
Here(t) == Servers[listing[t].at]

\* First come, first served on a name; only what the allow-list lets through.
Claim(found, s) ==
  [x \in Tools |-> IF found[x] = None /\ x \in Offers[s] \cap Enabled[s] THEN s ELSE found[x]]

ListGreet(t) ==
  /\ AtServer(t) /\ listing[t].greet
  /\ Greet(Here(t))
  /\ listing' = [listing EXCEPT ![t].greet = FALSE]
  /\ UNCHANGED <<owner, failed, told, calling, alone>>

ListServer(t) ==
  /\ AtServer(t) /\ ~listing[t].greet /\ Answers(Here(t))
  /\ LET l == listing[t] IN
     listing' = [listing EXCEPT ![t] =
       MoveTo([l EXCEPT !.found = Claim(l.found, Here(t))], l.at + 1)]
  /\ UNCHANGED <<initDone, forgotten, owner, failed, told, calling, alone>>

\* The handshake or the request fails: the server is down, or refuses the session.
MissServer(t) ==
  /\ AtServer(t)
  /\ LET l == listing[t] IN
     listing' = [listing EXCEPT ![t] =
       MoveTo([l EXCEPT !.missing = l.missing \cup {Here(t)}], l.at + 1)]
  /\ UNCHANGED <<initDone, forgotten, owner, failed, told, calling, alone>>

\* A walk that found nobody changes the failures and leaves the routes.
AfterFailures(l) == IF l.missing = Hosts THEN None ELSE [l EXCEPT !.at = @ + 1]

\* What the two critical sections write: the outcome of this walk alone.
FailuresAdded(l) == failed \cup l.missing
Failures(l) == l.missing
RoutesKept(l) == [x \in Tools |-> IF l.found[x] = None THEN owner[x] ELSE l.found[x]]
Routes(l) == l.found

PublishFailed(t) ==
  /\ listing[t] # None /\ listing[t].at = Len(Servers) + 1
  /\ failed' = Failures(listing[t])
  /\ listing' = [listing EXCEPT ![t] = AfterFailures(@)]
  /\ alone' = [u \in Turns |-> u = t]
  /\ UNCHANGED <<initDone, forgotten, owner, told, calling>>

PublishOwner(t) ==
  /\ listing[t] # None /\ listing[t].at = Len(Servers) + 2
  /\ owner' = Routes(listing[t])
  /\ listing' = [listing EXCEPT ![t].at = @ + 1]
  /\ alone' = [u \in Turns |-> u = t /\ alone[t]]
  /\ UNCHANGED <<initDone, forgotten, failed, told, calling>>

\* ListFailures, as buildTools calls it after ListTools.
ReadFailures(t) ==
  /\ listing[t] # None /\ listing[t].at = Len(Servers) + 3
  /\ told' = [told EXCEPT ![t] = [found |-> listing[t].found, missing |-> listing[t].missing,
                                  degraded |-> failed]]
  /\ listing' = [listing EXCEPT ![t] = None]
  /\ UNCHANGED <<initDone, forgotten, owner, failed, calling, alone>>

-----------------------------------------------------------------------------
(* Calls. *)

\* Mux.CallTool and the allow-list of Client.CallTool: whom a call goes to.
Reachable(x) == owner[x] # None /\ x \in Enabled[owner[x]]

Route(t, x) ==
  /\ calling[t] = None /\ Reachable(x)
  /\ calling' = [calling EXCEPT ![t] =
       [tool |-> x, server |-> owner[x], greet |-> MustGreet(owner[x])]]
  /\ UNCHANGED <<initDone, forgotten, owner, failed, listing, told, alone>>

CallGreet(t) ==
  /\ calling[t] # None /\ calling[t].greet
  /\ Greet(calling[t].server)
  /\ calling' = [calling EXCEPT ![t].greet = FALSE]
  /\ UNCHANGED <<owner, failed, listing, told, alone>>

\* The server answers, or the handshake or the call fails: the agent gets a result.
EndCall(t) ==
  /\ calling[t] # None
  /\ calling' = [calling EXCEPT ![t] = None]
  /\ UNCHANGED <<initDone, forgotten, owner, failed, listing, told, alone>>

\* A server forgets its sessions, and the client keeps its own.
Restart(s) ==
  /\ s \in (Stateful \cap initDone) \ forgotten
  /\ forgotten' = forgotten \cup {s}
  /\ UNCHANGED <<initDone, owner, failed, listing, told, calling, alone>>

ListStep(t) ==
  ListGreet(t) \/ ListServer(t) \/ PublishFailed(t) \/ PublishOwner(t) \/ ReadFailures(t)
=============================================================================
