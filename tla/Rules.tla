------------------------------- MODULE Rules -------------------------------
(***************************************************************************)
(* What the best-practice report finds on a cluster: Evaluate of              *)
(* internal/bestpractice/rules.go, the label selectors of selector.go and the *)
(* percentages of inventory.go.  Pure operators over an audit:                *)
(*                                                                           *)
(*   pdbs       a set of PodDisruptionBudgets, named by numbers               *)
(*   instances  the sequence of brokers, caches and quorum systems            *)
(*   ns         per namespace its labels, team and whether its environment is  *)
(*              one that counts as production                                 *)
(*                                                                           *)
(* and options: excluded selectors and teams, disabled rules.  An ignore       *)
(* annotation is the set of its comma-separated entries.  Titles and details   *)
(* are left out, up to the names a detail must mention.                       *)
(***************************************************************************)
EXTENDS Integers, Sequences, FiniteSets, SequencesExt, FiniteSetsExt

VARIABLE judged  \* an audit and the options, or a PDB's specification over the members of one
                 \* quorum system (the inputs are a bound of the model)

DrainRules == {"max-unavailable-zero", "min-available-all", "overlap", "blocked-unhealthy"}
AllRules == DrainRules \cup {"below-quorum", "quorum-no-pdb", "rabbitmq-single", "redis-single"}

\* A finding: about is the instance it judges, with is the second PDB of a pair, and
\* blockers are the PDBs whose findings were folded into it.
Finding(rule, on, name) ==
  [rule |-> rule, ns |-> on.ns, kind |-> "pdb", name |-> name, with |-> 0, about |-> 0,
   blockers |-> {}]

\* Finding.Key, within one cluster.
KeyOfFirst(f) == <<f.ns, f.kind, f.name, f.rule>>
Key(f) == <<f.ns, f.kind, f.name, f.rule, f.with>>

-----------------------------------------------------------------------------
(* Namespaces. *)

Holds(req, labels) ==
  LET has == req.key \in DOMAIN labels  is == has /\ labels[req.key] \in req.values IN
  CASE req.op = "exists" -> has
    [] req.op = "!exists" -> ~has
    [] req.op \in {"=", "in"} -> is
    [] req.op \in {"!=", "notin"} -> ~is

Matches(selector, labels) == \A req \in selector : Holds(req, labels)

\* Unknown labels are excluded by no selector.
Skipped(a, o, ns) ==
  \/ a.ns[ns].known /\ \E s \in o.selectors : Matches(s, a.ns[ns].labels)
  \/ a.ns[ns].team \in o.teams

-----------------------------------------------------------------------------
(* The arithmetic of a PDB. *)

\* Percentages round up.
Scaled(v, n) == IF v.percent THEN (v.value * n + 99) \div 100 ELSE v.value

Headroom(p) == p.expected - p.desired
Blocks(p) == p.expected > 0 /\ Headroom(p) <= 0

\* Healthy enough in general, and too many unhealthy pods now.
Stuck(p) ==
  Headroom(p) > 0 /\ p.allowed = 0 /\ p.healthy < p.desired /\ ~p.evictsUnhealthy

\* How many of n healthy members go, by the specification.
Allowed(p, n) ==
  CASE p.spec.of = "max" -> Min({Scaled(p.spec, n), n})
    [] p.spec.of = "min" -> Max({n - Scaled(p.spec, n), 0})
    [] OTHER -> 0

Tolerated(n) == (n - 1) \div 2

-----------------------------------------------------------------------------
(* What is reported, and what an annotation keeps out. *)

Ignores(annotation, rule) == rule \in annotation \/ "*" \in annotation

\* A drain blocker cannot be ignored.
Silenced(f, annotations) ==
  f.rule \notin DrainRules /\ \E i \in annotations : Ignores(i, f.rule)

\* evaluator.add: what of a finding is reported, and what is only counted.
Add(a, o, f, annotations) ==
  LET wanted == f.rule \notin o.disabled /\ ~Skipped(a, o, f.ns)
      silent == Silenced(f, annotations)
  IN [found |-> {x \in {f} : wanted /\ ~silent}, ignored |-> {x \in {f} : wanted /\ silent}]

All(results) == [found |-> UNION {r.found : r \in results}, ignored |-> UNION {r.ignored : r \in results}]

Named(a, ns, name) == {p \in a.pdbs : p.ns = ns /\ p.name = name}
BlockRule(p) == IF p.spec.of = "max" THEN "max-unavailable-zero" ELSE "min-available-all"

\* A pair is reported once, on its first name.
PdbFindings(p) ==
  (IF Blocks(p) THEN {Finding(BlockRule(p), p, p.name)} ELSE {})
  \cup {[Finding("overlap", p, p.name) EXCEPT !.with = q] : q \in {q \in p.overlaps : p.name < q}}
  \cup (IF Stuck(p) THEN {Finding("blocked-unhealthy", p, p.name)} ELSE {})

\* The annotations of a finding on a PDB: those of the PDB and of its pair.
Annotations(a, p, f) ==
  p.ignore \cup UNION {q.ignore : q \in IF f.with = 0 THEN {} ELSE Named(a, p.ns, f.with)}

PdbRules(a, o, p) == All({Add(a, o, f, Annotations(a, p, f)) : f \in PdbFindings(p)})

\* A quorum system needs a PDB, and one that keeps its majority.
Loose(a, in) ==
  {p \in UNION {Named(a, in.ns, x) : x \in in.pdbs} : Allowed(p, in.replicas) > Tolerated(in.replicas)}
QuorumRules(a, o, in) ==
  LET none == [Finding("quorum-no-pdb", in, in.name) EXCEPT !.kind = "instance"]
      below(p) == [Finding("below-quorum", in, p.name) EXCEPT !.about = in.name]
  IN IF in.pdbs = {} THEN Add(a, o, none, {in.ignore})
     ELSE All({Add(a, o, below(p), p.ignore \cup {in.ignore}) : p \in Loose(a, in)})

\* The findings a single-instance finding takes the place of.
Folds(in, f) ==
  /\ f.ns = in.ns /\ f.kind = "pdb" /\ f.name \in in.pdbs
  /\ f.rule \in {"max-unavailable-zero", "min-available-all"}

Single(a, in) ==
  a.ns[in.ns].production /\ in.replicas = 1 /\ in.engine \in {"rabbitmq", "redis"}
SingleRule(in) == IF in.engine = "rabbitmq" THEN "rabbitmq-single" ELSE "redis-single"

\* Whether the finding will be reported, and may take others along.
ReportedIfEnabled(o, rule, in) == rule \notin o.disabled
Reported(o, rule, in) == rule \notin o.disabled /\ ~Ignores(in.ignore, rule)

TakesAlong(a, o, in, f) == Single(a, in) /\ Reported(o, SingleRule(in), in) /\ Folds(in, f)

\* Instances are judged in order, and a finding goes with the first one that takes it.
TakenBy(a, o, found, i) ==
  {f \in found : /\ TakesAlong(a, o, a.instances[i], f)
                 /\ \A j \in 1..(i - 1) : ~TakesAlong(a, o, a.instances[j], f)}

SingleRules(a, o, in, taken) ==
  Add(a, o, [Finding(SingleRule(in), in, in.name) EXCEPT !.kind = "instance",
                                                        !.blockers = {f.name : f \in taken}],
      {in.ignore})

InstanceRules(a, o, in, taken) ==
  All((IF a.ns[in.ns].production /\ in.quorum /\ in.replicas >= 2 THEN {QuorumRules(a, o, in)} ELSE {})
      \cup (IF Single(a, in) THEN {SingleRules(a, o, in, taken)} ELSE {}))

\* Evaluate, of one cluster.
Evaluate(a, o) ==
  LET pdbs == All({PdbRules(a, o, p) : p \in a.pdbs})
      taken(i) == TakenBy(a, o, pdbs.found, i)
      which == DOMAIN a.instances
      instances == All({InstanceRules(a, o, a.instances[i], taken(i)) : i \in which})
  IN [found |-> (pdbs.found \ UNION {taken(i) : i \in which}) \cup instances.found,
      ignored |-> pdbs.ignored \cup instances.ignored]
-----------------------------------------------------------------------------
(* The advice of a finding on a PDB that covers the n members of one instance: *)
(* the specifications it names, each with the members to run.                  *)

To(of, value, n) == [spec |-> [of |-> of, value |-> value, percent |-> FALSE], n |-> n]

DrainFixes(rule, n) ==
  CASE rule = "max-unavailable-zero" -> {To("max", 1, n)}
    [] rule = "min-available-all" /\ n = 1 -> {To("min", 1, 2), To("max", 1, 1)}
    [] rule = "min-available-all" /\ n > 1 -> {To("max", 1, n), To("min", n - 1, n)}

QuorumFixesToHalf(rule, n) ==
  IF rule = "below-quorum" /\ n > 2 THEN {To("min", n \div 2, n)} ELSE {To("max", 1, 3)}
QuorumFixes(rule, n) ==
  CASE n = 2 -> {To("max", 1, 3)}
    [] rule = "below-quorum" /\ n > 2 -> {To("min", n \div 2 + 1, n), To("max", 1, n)}
    [] rule = "quorum-no-pdb" /\ n > 2 -> {To("max", 1, n)}

Fixes(rule, n) ==
  IF rule \in {"below-quorum", "quorum-no-pdb"} THEN QuorumFixes(rule, n) ELSE DrainFixes(rule, n)

-----------------------------------------------------------------------------
(* What Kubernetes makes of a specification, which the rules are judged by.     *)

\* The disruption controller rounds percentages up and keeps desiredHealthy pods.
RoundedUp(v, n) == IF v.percent THEN Min({k \in 0..(v.value * n) : k * 100 >= v.value * n}) ELSE v.value
Desired(spec, n) ==
  CASE spec.of = "max" -> Max({n - RoundedUp(spec, n), 0})
    [] spec.of = "min" -> RoundedUp(spec, n)

\* A PDB over n pods of which some are healthy, as the controller reports it.
Observed(name, spec, n, healthy) ==
  [ns |-> "ns", name |-> name, spec |-> spec, expected |-> n, healthy |-> healthy,
   desired |-> Desired(spec, n), allowed |-> Max({healthy - Desired(spec, n), 0}),
   evictsUnhealthy |-> FALSE, overlaps |-> {}, ignore |-> {}]

\* A quorum system of n members under one PDB.
Alone(spec, n, healthy) ==
  [pdbs |-> {Observed(1, spec, n, healthy)},
   instances |-> <<[ns |-> "ns", name |-> 1, engine |-> "etcd", replicas |-> n, quorum |-> TRUE,
                    pdbs |-> {1}, ignore |-> {}]>>,
   ns |-> [x \in {"ns"} |-> [known |-> FALSE, labels |-> <<>>, team |-> "", production |-> TRUE]]]

NoOptions == [selectors |-> {}, teams |-> {}, disabled |-> {}]
RulesOn(spec, n, healthy) == {f.rule : f \in Evaluate(Alone(spec, n, healthy), NoOptions).found}

-----------------------------------------------------------------------------
(* Properties. *)

Audited == judged.of = "audit"
Result == Evaluate(judged.audit, judged.options)

\* A PDB that allows no eviction is reported whatever is ignored, by a finding of its own
\* or inside the one of the instance it covers: merging and silencing lose none.
EveryBlockerReported ==
  Audited =>
    LET r == Result IN
    \A p \in judged.audit.pdbs :
      Blocks(p) /\ BlockRule(p) \notin judged.options.disabled
      /\ ~Skipped(judged.audit, judged.options, p.ns) =>
        \E f \in r.found :
          f.ns = p.ns /\ (p.name \in f.blockers \/ (f.rule = BlockRule(p) /\ f.name = p.name))

\* Two findings share a key, by which weeks are compared and approvals are matched, only
\* when one PDB is judged for several quorum systems.
KeysCollideOnlyWhenShared ==
  Audited =>
    LET r == Result IN
    \A f, g \in r.found :
      Key(f) = Key(g) /\ f # g => f.rule = "below-quorum" /\ f.about # g.about

VerdictIsRight ==
  judged.n >= 2 =>
    LET n == judged.n  left == Min({Desired(judged.spec, n), n}) IN
    \A healthy \in 0..n :
      "below-quorum" \in RulesOn(judged.spec, n, healthy) <=> left < n \div 2 + 1

FixesEnd ==
  \A r \in RulesOn(judged.spec, judged.n, judged.n) : \A x \in Fixes(r, judged.n) :
    \A q \in RulesOn(x.spec, x.n, x.n) : \A y \in Fixes(q, x.n) :
      RulesOn(y.spec, y.n, y.n) = {}

\* A PDB is said to break a quorum exactly when Kubernetes, with every member healthy,
\* would let go so many at once that no majority is left, and whoever is down at the
\* moment does not change the verdict; and who follows the advice of a report, and then
\* that of the next one, is done: no fix leads to a third finding.
AdviceIsRight == judged.of = "pdb" => VerdictIsRight /\ FixesEnd
=============================================================================
