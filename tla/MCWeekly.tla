------------------------------ MODULE MCWeekly ------------------------------
(* Either weeks of a report on two clusters with one problem each, or the rules  *)
(* on one inventory of up to two PDBs and two instances.                        *)
EXTENDS Weekly, Rules

CONSTANTS c1, c2, k1, k2

MCProblems == c1 :> {k1} @@ c2 :> {k2}

Spec1(of, value) == [of |-> of, value |-> value, percent |-> FALSE]
Percent(of, value) == [of |-> of, value |-> value, percent |-> TRUE]

Specs ==
  {Spec1(of, v) : of \in {"max", "min"}, v \in 0..7}
  \cup {Percent(of, v) : of \in {"max", "min"}, v \in {0, 1, 20, 33, 34, 49, 50, 51, 60, 67, 75, 99, 100}}

Notes == {{}, {"*"}, {"redis-single"}, {"max-unavailable-zero", "below-quorum"}}

Namespaces ==
  [known : BOOLEAN, labels : {<<>>, [env |-> "lab"]}, team : {"core"}, production : BOOLEAN]

Instance(name, engine, n, pdbs, note) ==
  [ns |-> "ns", name |-> name, engine |-> engine, replicas |-> n, quorum |-> engine # "redis",
   pdbs |-> pdbs, ignore |-> note]

FirstInstances ==
  {Instance(1, "redis", 1, ps, note) : ps \in {{}, {1}, {1, 2}}, note \in Notes}
  \cup {Instance(1, "etcd", 3, ps, {}) : ps \in {{}, {1}}}
SecondInstances ==
  {Instance(2, "etcd", 3, {1}, {}), Instance(2, "rabbitmq", 1, {1, 2}, {}),
   Instance(2, "rabbitmq", 1, {1, 2}, {"rabbitmq-single"})}

FirstPdbs ==
  {[Observed(1, s, 3, h) EXCEPT !.ignore = i, !.overlaps = o] :
     s \in {Spec1("max", 0), Spec1("max", 2), Spec1("min", 3)}, h \in {2, 3},
     i \in {{}, {{"*"}}, {{"max-unavailable-zero"}}}, o \in {{}, {2, 3}}}
SecondPdbs ==
  {[Observed(2, Spec1("max", v), 3, 3) EXCEPT !.overlaps = {1}, !.ignore = {{"overlap"}}] : v \in {0, 1}}

Audits ==
  {[pdbs |-> {p} \cup q, instances |-> <<i>> \o j, ns |-> [x \in {"ns"} |-> n]] :
     p \in FirstPdbs, q \in {{}} \cup {{x} : x \in SecondPdbs},
     i \in FirstInstances, j \in {<<>>} \cup {<<x>> : x \in SecondInstances}, n \in Namespaces}

AuditOptions ==
  {[NoOptions EXCEPT !.disabled = d] : d \in {{}, {"redis-single"}, {"max-unavailable-zero"}}}
  \cup {[NoOptions EXCEPT !.teams = {"core"}]}
  \cup {[NoOptions EXCEPT !.selectors = {{[key |-> "env", op |-> op, values |-> {"lab"}]}}] :
          op \in {"=", "notin", "!exists"}}

Judgements ==
  [of : {"audit"}, audit : Audits, options : AuditOptions] \cup [of : {"pdb"}, spec : Specs, n : 1..7]

Nothing == [of |-> "nothing"]
Still == judged = Nothing /\ UNCHANGED judged

MCInit == Init /\ judged \in Judgements \cup {Nothing}
MCNext ==
  \/ CheckFirst /\ Still
  \/ CheckTooLate /\ Still
  \/ CheckFires /\ Still
  \/ CheckMarks /\ Still
  \/ Still /\ \E kind \in {"asked", "other"} : Demand(kind)
  \/ Still /\ \E scanned \in SUBSET Clusters, keys \in SUBSET Keys : Build(scanned, keys)
  \/ EndJob /\ Still
  \/ Advance /\ Still
  \/ Crash /\ Still
  \/ Boot /\ Still

MCSpec == MCInit /\ [][MCNext]_<<vars, judged>>
=============================================================================
