------------------------------- MODULE Offer -------------------------------
(***************************************************************************)
(* Which tools a question gets: Answer of internal/brain/brain.go chooses    *)
(* the clusters and global groups, buildTools of internal/agent/agent.go     *)
(* lists them one after the other, buildRoutes of route.go merges the same    *)
(* tool of several clusters, interleave of toolset.go picks what fits the     *)
(* request, and newCatalog of catalog.go defers the rest to tool_search.      *)
(***************************************************************************)
EXTENDS Integers, Sequences, FiniteSets, SequencesExt, FiniteSetsExt

CONSTANTS
  Configured,   \* the clusters that have tool servers, in the order of their names
  Groups,       \* the aliases of the global servers, in the order of theirs
  AdminGroups,  \* the groups with a server for cluster-admins
  Gated,        \* the tools whose rule is ClusterAdminOnly
  SafeName,     \* a tool's name as the model may write it
  Priority,     \* a tool's place in the trim order, higher first
  Bridge,       \* the tools that lead to the deferred ones
  Questions     \* what may be asked, by whom (a bound of the model)

ClusterSet == ToSet(Configured)
GroupSet == ToSet(Groups)
Sources == Configured \o Groups
ToolSet == DOMAIN SafeName

\* scope holds the caller's clusters, with or without servers; wide: cluster-admin.
\* lists is what each source lists, best known server first.
Question == [named: SUBSET ClusterSet, scope: SUBSET ClusterSet, wide: SUBSET ClusterSet, max: Nat \ {0},
             lists: [ClusterSet \cup GroupSet -> Seq([tool: ToolSet, server: Nat])]]

\* A tool is known by its name to the mux, and by its safe name to the model: no server
\* list holds two tools that differ in unsafe characters alone (a bound of the model).
Distinct(list) ==
  \A i, j \in 1..Len(list) :
    SafeName[list[i].tool] = SafeName[list[j].tool] => i = j

ASSUME OfferConstants ==
  /\ Configured \in Seq(ClusterSet) /\ Groups \in Seq(GroupSet)
  /\ IsInjective(Configured) /\ IsInjective(Groups) /\ ClusterSet \cap GroupSet = {}
  /\ AdminGroups \subseteq GroupSet /\ Gated \subseteq ToolSet
  /\ Priority \in [ToolSet -> Nat] /\ Bridge \in Nat
  /\ \A q \in Questions :
       q \in Question /\ q.wide \subseteq q.scope /\ \A s \in DOMAIN q.lists : Distinct(q.lists[s])

VARIABLES
  question,
  progress,
  left,      \* the places in Sources of those that are still to be listed
  listed,    \* of those that answered
  offer      \* the routes the model sees and those behind the bridge

offerVars == <<question, progress, left, listed, offer>>

NoOffer == [direct |-> {}, deferred |-> {}]

OfferInit ==
  /\ question \in Questions /\ progress = "asked"
  /\ left = {} /\ listed = {} /\ offer = NoOffer

-----------------------------------------------------------------------------
(* The sources of a question. *)

\* A question that names clusters gets those and no others.
ClustersOf(q) == {c \in ClusterSet : c \in q.scope /\ (q.named # {} => c \in q.named)}

\* visibleGlobal: an admin of any cluster sees the groups for admins.
VisibleGroups(q) == {g \in GroupSet : g \in AdminGroups => q.wide # {}}

Choose ==
  /\ progress = "asked"
  /\ left' = {i \in DOMAIN Sources : Sources[i] \in ClustersOf(question) \cup VisibleGroups(question)}
  /\ progress' = IF left' = {} THEN "no tools" ELSE "listing"
  /\ UNCHANGED <<question, listed, offer>>

\* The next source.
IsNext(i) == \A j \in left : i <= j

\* ListTools of one source answers, or fails.
ListSource ==
  /\ progress = "listing"
  /\ \E i \in left : IsNext(i) /\ left' = left \ {i} /\ listed' = listed \cup {i}
  /\ UNCHANGED <<question, progress, offer>>

MissSource ==
  /\ progress = "listing"
  /\ \E i \in left : IsNext(i) /\ left' = left \ {i}
  /\ UNCHANGED <<question, progress, listed, offer>>

-----------------------------------------------------------------------------
(* Routes: one per tool, whatever the number of clusters that have it. *)

\* A tool is met at a place: its source's, and its own in the source's list.
Places == UNION {{<<i, j>> : j \in DOMAIN question.lists[Sources[i]]} : i \in listed}
SourceAt(p) == Sources[p[1]]
ToolAt(p) == question.lists[SourceAt(p)][p[2]]
Before(p, q) == p[1] < q[1] \/ (p[1] = q[1] /\ p[2] < q[2])

\* A group's tool keeps a name of its own.
RouteName(s, tool) == IF s \in GroupSet THEN <<s, tool>> ELSE SafeName[tool]
NameAt(p) == RouteName(SourceAt(p), ToolAt(p).tool)

\* A source where the caller may not use the tool is known to the route, so that a call
\* there is refused with a reason, but does not make it offered.
MayUseAnywhere(s, tool) == tool \in Gated => question.wide # {}
MayUse(s, tool) == tool \in Gated => s \in question.wide

\* All that is met under one name becomes a route, which belongs to the server where it
\* was met first.
Same(p) == {q \in Places : NameAt(q) = NameAt(p)}
Usable(p) == {q \in Same(p) : MayUse(SourceAt(q), ToolAt(q).tool)}

RouteAt(p) ==
  [name |-> NameAt(p), at |-> p, server |-> <<SourceAt(p), ToolAt(p).server>>,
   tools |-> {ToolAt(q).tool : q \in Same(p)}, on |-> {SourceAt(q) : q \in Usable(p)},
   preferred |-> \E q \in Usable(p) : SourceAt(q) \in question.named]

Routes == {RouteAt(p) : p \in {p \in Places : \A q \in Same(p) : ~Before(q, p)}}

Offerable(routes) == {r \in routes : r.on # {}}

-----------------------------------------------------------------------------
(* What fits. *)

Weight(r) == Max({Priority[x] : x \in r.tools})

\* A server's tools: higher priority first, and otherwise as the server lists them.
OfServer(routes, r) == {x \in routes : x.server = r.server}
Precedes(x, r) == Weight(x) > Weight(r) \/ (Weight(x) = Weight(r) /\ Before(x.at, r.at))

\* The first of each server, then the second of each, and so on; servers in the order in
\* which they appear.
Turn(routes, r) == Cardinality({x \in OfServer(routes, r) : Precedes(x, r)})
Leads(routes, x, r) ==
  \E y \in OfServer(routes, x) : \A z \in OfServer(routes, r) : Before(y.at, z.at)
Sooner(routes, x, r) ==
  \/ Turn(routes, x) < Turn(routes, r)
  \/ Turn(routes, x) = Turn(routes, r) /\ Leads(routes, x, r)

FirstOf(routes, n) == {r \in routes : Cardinality({x \in routes : Sooner(routes, x, r)}) < n}

\* A server is preferred when the question names a cluster that has one of its tools.
Preferred(routes) == {r \in routes : \E x \in OfServer(routes, r) : x.preferred}

\* What is held for servers nobody asked about: a tool each, and a quarter at most where
\* somebody asked about others.
Servers(routes) == {r.server : r \in routes}
ReservedAll(preferred, rest, max) == Cardinality(Servers(rest))
Reserved(preferred, rest, max) ==
  IF preferred # {} THEN Min({Cardinality(Servers(rest)), max \div 4}) ELSE Cardinality(Servers(rest))

InTurn(routes, max) ==
  LET preferred == Preferred(routes)
      rest == routes \ preferred
      first == FirstOf(preferred, max - Reserved(preferred, rest, max))
  IN first \cup FirstOf(rest, max - Cardinality(first))

\* What does not fit at all leaves room for the bridge.
Direct(routes, max) ==
  IF Cardinality(routes) <= max THEN routes
  ELSE IF max > Bridge THEN InTurn(routes, max - Bridge) ELSE {}

Build ==
  /\ progress = "listing" /\ left = {}
  /\ IF listed = {} THEN progress' = "failed" /\ UNCHANGED offer
     ELSE LET routes == Offerable(Routes)  direct == Direct(routes, question.max)
          IN progress' = "offered" /\ offer' = [direct |-> direct, deferred |-> routes \ direct]
  /\ UNCHANGED <<question, left, listed>>

OfferNext == Choose \/ ListSource \/ MissSource \/ Build
OfferSpec == OfferInit /\ [][OfferNext]_offerVars

-----------------------------------------------------------------------------
(* Properties. *)

Permitted(s, tool) == tool \in Gated => s \in question.wide

\* The sources that answered and have a tool of that name which the caller may use.
Where(name) ==
  {Sources[i] : i \in
     {i \in listed : \E t \in ToSet(question.lists[Sources[i]]) :
                      RouteName(Sources[i], t.tool) = name /\ Permitted(Sources[i], t.tool)}}

\* What the caller may use on a source that answered is offered once, in the list or
\* behind the bridge, for every source that has it; and nothing else is: not a tool for
\* admins of a cluster to an admin of another one, whatever is merged and trimmed.
OfferIsWhole ==
  progress = "offered" =>
    LET all == offer.direct \cup offer.deferred IN
    /\ offer.direct \cap offer.deferred = {}
    /\ \A r \in all : r.on = Where(r.name) /\ r.on # {}
    /\ \A r, x \in all : r.name = x.name => r = x
    /\ \A i \in listed : \A t \in ToSet(question.lists[Sources[i]]) :
         Permitted(Sources[i], t.tool) => \E r \in all : r.name = RouteName(Sources[i], t.tool)

OnServer(r, of) == Cardinality({x \in of : x.server = r.server})

\* When not all fits, the list is full with the bridge in it, the clusters the question
\* names have three quarters of it or all they want, no server has two more than another
\* of its kind that wants more, and each keeps its most important ones.
ShareIsFair ==
  progress = "offered" /\ offer.deferred # {} /\ question.max > Bridge =>
    LET room == question.max - Bridge
        all == offer.direct \cup offer.deferred
        Wanted(r) == \E x \in all : x.server = r.server /\ x.preferred
    IN /\ Cardinality(offer.direct) = room
       /\ \A r \in offer.deferred : Wanted(r) =>
            Cardinality({x \in offer.direct : Wanted(x)}) >= room - room \div 4
       /\ \A r \in offer.deferred, x \in offer.direct :
            /\ Wanted(r) = Wanted(x) => OnServer(x, offer.direct) <= OnServer(r, offer.direct) + 1
            /\ r.server = x.server => Weight(x) >= Weight(r)
=============================================================================
