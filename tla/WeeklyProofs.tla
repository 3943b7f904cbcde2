---------------------------- MODULE WeeklyProofs ----------------------------
(***************************************************************************)
(* The weekly report: that no week is passed over by an idle runner, and    *)
(* that a slot is started again only after a crash; what the rules make of  *)
(* percentages and quorums, and what they report, for any inventory; and    *)
(* that the ages of findings are right, whatever crashes, lost writes,      *)
(* other jobs and unread clusters do.                                       *)
(***************************************************************************)
EXTENDS Weekly, Rules, FiniteSetTheorems, SequenceTheorems, TLAPS

-----------------------------------------------------------------------------
(* Multiples of the period *)

LEMMA DivMod ==
  ASSUME NEW n \in Nat, NEW p \in Nat \ {0}
  PROVE  \E q \in Nat, r \in 0..(p - 1) : n = p * q + r /\ r = n % p
<1> DEFINE q == n \div p
           r == n % p
<1>1. q \in Nat /\ p * q <= n /\ n < p * q + p
  BY Z3
<1>2. r = n - p * q
  BY Z3
<1> HIDE DEF q
<1>3. p * q \in Nat
  BY <1>1
<1> HIDE DEF r
<1>4. r \in 0..(p - 1)
  BY <1>1, <1>2, <1>3
<1>5. n = p * q + r
  BY <1>1, <1>2, <1>3
<1>6. n = p * q + (n % p) /\ n % p \in 0..(p - 1)
  BY <1>4, <1>5, Zenon DEF r
<1> QED BY <1>1, <1>6, Zenon

LEMMA Multiple ==
  ASSUME NEW q \in Nat, NEW p \in Nat \ {0}
  PROVE  (p * q) % p = 0
<1>1. p * q \in Nat
  BY SMT
<1>2. PICK k \in Nat, r \in 0..(p - 1) : p * q = p * k + r /\ r = (p * q) % p
  BY <1>1, DivMod
<1> DEFINE m == (p * q) % p
<1>3. m = r
  BY <1>2, Zenon
<1> HIDE DEF m
<1>4. p * q = p * k + m /\ m \in 0..(p - 1)
  BY <1>2, <1>3, Zenon
<1>5. p * (q - k) = m
  BY <1>4, Z3
<1>6. m = 0
  <2>1. CASE q - k <= 0
    <3>1. p * (q - k) <= 0
      BY <2>1, Z3
    <3> QED BY <1>4, <1>5, <3>1
  <2>2. CASE q - k >= 1
    <3>1. p * (q - k) >= p
      BY <2>2, Z3
    <3> QED BY <1>4, <1>5, <3>1
  <2> QED BY <2>1, <2>2
<1> QED BY <1>6 DEF m

LEMMA RoundDown ==
  ASSUME NEW n \in Nat, NEW p \in Nat \ {0}
  PROVE  n - (n % p) \in 0..n /\ (n - (n % p)) % p = 0
<1>1. PICK q \in Nat, r \in 0..(p - 1) : n = p * q + r /\ r = n % p
  BY DivMod
<1>2. p * q \in Nat
  BY SMT
<1>3. n - (n % p) = p * q
  BY <1>1, <1>2
<1> QED BY <1>1, <1>2, <1>3, Multiple

LEMMA NoneBetween ==
  ASSUME NEW n \in Nat, NEW p \in Nat \ {0}, NEW m \in Nat, m % p = 0, m <= n
  PROVE  m <= n - (n % p)
<1>1. PICK q \in Nat, r \in 0..(p - 1) : n = p * q + r /\ r = n % p
  BY DivMod
<1>2. PICK k \in Nat : m = p * k
  BY DivMod
<1>3. k <= q
  <2>1. SUFFICES ASSUME k > q PROVE FALSE
    BY <1>1, <1>2
  <2>2. p * k >= p * (q + 1)
    BY <2>1, SMT
  <2>3. p * (q + 1) = p * q + p
    BY SMT
  <2>4. p * q \in Nat /\ p * k \in Nat
    BY SMT
  <2> QED BY <1>1, <1>2, <2>2, <2>3, <2>4
<1>4. p * k <= p * q
  BY <1>3, SMT
<1> QED BY <1>1, <1>2, <1>4

LEMMA TimesType == MaxTime \in Nat /\ CatchUp \in Nat /\ Times \subseteq Nat
BY WeeklyConstants DEF Times

\* What Slots.Last answers: a slot, not after now, and none lies between.
LEMMA SlotIsLast ==
  ASSUME now \in Times
  PROVE  Slot \in Slots /\ Slot <= now /\ \A s \in Slots : s <= now => s <= Slot
<1>1. now \in Nat /\ Period \in Nat \ {0} /\ MaxTime \in Nat
  BY WeeklyConstants DEF Times
<1>2. Slot \in 0..now /\ Slot % Period = 0
  BY <1>1, RoundDown DEF Slot
<1>3. ASSUME NEW s \in Slots, s <= now PROVE s <= Slot
  BY <1>1, <1>3, NoneBetween DEF Slot, Slots, Times
<1> QED BY <1>1, <1>2, <1>3 DEF Slots, Times

-----------------------------------------------------------------------------
(* The inductive invariant *)

\* At time n a slot has been dealt with: started, marked by a first start, or too late.
Settled(s, n, started, marked) ==
  /\ s \in Slots /\ s <= n
  /\ started[s] > 0 \/ s \in marked \/ n - s > CatchUp

\* A store, in memory or on disk, marks only such a slot.
Marks(st, n, started, marked) ==
  /\ st = [lastSlot |-> st.lastSlot, reports |-> st.reports, firstSeen |-> st.firstSeen]
  /\ st.lastSlot # None => Settled(st.lastSlot, n, started, marked)

SlotsInv ==
  /\ now \in Times /\ fires \in [Slots -> Nat]
  /\ Marks(store, now, fires, first) /\ Marks(disk, now, fires, first)
  /\ accepted # None => accepted \in Slots /\ accepted <= now /\ fires[accepted] > 0

\* What has been dealt with stays so.
LEMMA StaysMarked ==
  ASSUME NEW n \in Times, NEW m \in Times, n <= m, NEW A, NEW B, A \subseteq B,
         NEW f, NEW g, \A s \in Slots : f[s] > 0 => g[s] > 0,
         NEW st, Marks(st, n, f, A)
  PROVE  Marks(st, m, g, B)
<1>1. CatchUp \in Nat /\ n \in Nat /\ m \in Nat
  BY WeeklyConstants DEF Times
<1>2. ASSUME NEW s, Settled(s, n, f, A) PROVE Settled(s, m, g, B)
  <2>1. s \in Slots /\ s \in Nat
    BY <1>2 DEF Settled, Slots, Times
  <2>2. s <= m /\ (n - s > CatchUp => m - s > CatchUp)
    BY <1>1, <1>2, <2>1 DEF Settled
  <2> QED BY <1>2, <2>1, <2>2 DEF Settled
<1> QED BY <1>2 DEF Marks

LEMMA MarkedStore ==
  ASSUME NEW n, NEW A, NEW f, NEW st, Marks(st, n, f, A), NEW s, Settled(s, n, f, A)
  PROVE  Marks([st EXCEPT !.lastSlot = s], n, f, A)
<1> DEFINE new == [st EXCEPT !.lastSlot = s]
<1>1. new = [lastSlot |-> s, reports |-> st.reports, firstSeen |-> st.firstSeen]
  BY DEF Marks
<1> HIDE DEF new
<1>2. Marks(new, n, f, A)
  BY <1>1 DEF Marks
<1> QED BY <1>2 DEF new

\* A mark is flushed, and the flush may fail.
LEMMA MarkMarks ==
  ASSUME SlotsInv, NEW s, Mark(s), UNCHANGED <<now, fires>>, first \subseteq first',
         accepted' \in {accepted, None}, Settled(s, now, fires, first')
  PROVE  SlotsInv'
<1>1. now \in Times /\ now <= now
  BY DEF SlotsInv, Times
<1>2. Marks(store, now, fires, first') /\ Marks(disk, now, fires, first')
  BY <1>1, StaysMarked DEF SlotsInv
<1>3. Marks([store EXCEPT !.lastSlot = s], now, fires, first')
  BY <1>2, MarkedStore
<1>4. store' = [store EXCEPT !.lastSlot = s] /\ disk' \in {disk, store'}
  BY DEF Mark, Save
<1>5. Marks(store', now', fires', first') /\ Marks(disk', now', fires', first')
  BY <1>2, <1>3, <1>4
<1> QED BY <1>5 DEF SlotsInv

\* Time does not pass over an idle process with a slot that was never started
\* (check of runner.go): a busy one leaves it for a later tick, a start without a
\* record or too late marks it, and nothing else moves the mark.
THEOREM NoWeekSkipped == Spec => NoIdleSlot
<1>1. Init => SlotsInv
  BY TimesType DEF Init, SlotsInv, Marks, Empty, Times
<1>2. SlotsInv /\ [Next]_vars => SlotsInv'
  <2> SUFFICES ASSUME SlotsInv, [Next]_vars PROVE SlotsInv'
    OBVIOUS
  <2>0. Slot \in Slots /\ Slot <= now
    BY SlotIsLast DEF SlotsInv
  <2>1. CASE CheckFirst
    <3>1. Settled(Slot, now, fires, first')
      BY <2>0, <2>1 DEF CheckFirst, Settled
    <3> QED BY <2>1, <3>1, MarkMarks DEF CheckFirst
  <2>2. CASE CheckTooLate
    <3>1. Settled(Slot, now, fires, first')
      BY <2>0, <2>2 DEF CheckTooLate, TooLate, Settled
    <3> QED BY <2>2, <3>1, MarkMarks DEF CheckTooLate
  <2>3. CASE CheckFires
    <3>1. /\ fires' \in [Slots -> Nat] /\ accepted' = Slot
          /\ fires'[Slot] > 0 /\ \A s \in Slots : fires[s] > 0 => fires'[s] > 0
      <4> HIDE DEF Slot
      <4> QED BY <2>0, <2>3 DEF CheckFires, SlotsInv
    <3>2. now' = now /\ store' = store /\ disk' = disk /\ first' = first /\ now <= now
      BY <2>3, TimesType DEF CheckFires, SlotsInv
    <3>3. Marks(store, now, fires', first) /\ Marks(disk, now, fires', first)
      BY <3>1, <3>2, StaysMarked DEF SlotsInv
    <3> QED BY <2>0, <3>1, <3>2, <3>3 DEF SlotsInv
  <2>4. CASE CheckMarks
    <3>1. Settled(accepted, now, fires, first')
      BY <2>4 DEF CheckMarks, SlotsInv, Settled
    <3> QED BY <2>4, <3>1, MarkMarks DEF CheckMarks
  <2>5. ASSUME NEW kind \in {"asked", "other"}, Demand(kind) PROVE SlotsInv'
    BY <2>5 DEF Demand, SlotsInv
  <2>6. ASSUME NEW scanned \in SUBSET Clusters, NEW keys \in SUBSET Keys, Build(scanned, keys)
        PROVE  SlotsInv'
    <3> DEFINE st == Added(scanned, keys)
    <3>1. /\ st.lastSlot = store.lastSlot
          /\ st = [lastSlot |-> st.lastSlot, reports |-> st.reports, firstSeen |-> st.firstSeen]
      <4> DEFINE seen == Seen(scanned, keys)
      <4>1. PICK r : st = [store EXCEPT !.reports = r, !.firstSeen = seen]
        BY DEF Added
      <4> HIDE DEF st
      <4> QED BY <4>1 DEF SlotsInv, Marks
    <3>2. store' = st /\ disk' \in {disk, st}
      BY <2>6 DEF Build, Save
    <3> HIDE DEF st
    <3>3. Marks(st, now, fires, first)
      BY <3>1 DEF SlotsInv, Marks
    <3> QED BY <2>6, <3>2, <3>3 DEF Build, SlotsInv
  <2>7. CASE EndJob
    BY <2>7 DEF EndJob, SlotsInv
  <2>8. CASE Advance
    <3>1. now' \in Times /\ now <= now'
      BY <2>8, WeeklyConstants DEF Advance, SlotsInv, Times
    <3>2. UNCHANGED <<store, disk, accepted, fires, first>>
      BY <2>8 DEF Advance
    <3>3. Marks(store, now', fires, first) /\ Marks(disk, now', fires, first)
      BY <3>1, StaysMarked DEF SlotsInv
    <3>4. accepted # None => accepted <= now'
      BY <3>1 DEF SlotsInv, Slots, Times
    <3> QED BY <3>1, <3>2, <3>3, <3>4 DEF SlotsInv
  <2>9. CASE Crash
    BY <2>9 DEF Crash, SlotsInv
  <2>10. CASE Boot
    BY <2>10 DEF Boot, SlotsInv
  <2>11. CASE UNCHANGED vars
    BY <2>11 DEF vars, SlotsInv
  <2> QED
    BY <2>1, <2>2, <2>3, <2>4, <2>5, <2>6, <2>7, <2>8, <2>9, <2>10, <2>11 DEF Next
<1>3. SlotsInv /\ [Next]_vars =>
        [now' > now /\ up /\ busy = None /\ ~TooLate => fires[Slot] > 0 \/ Slot \in first]_vars
  <2> SUFFICES ASSUME SlotsInv, Next, now' > now, up, busy = None, ~TooLate
               PROVE  fires[Slot] > 0 \/ Slot \in first
    OBVIOUS
  <2>1. now \in Nat
    BY TimesType DEF SlotsInv
  <2>2. Advance
    <3>1. now' # now
      BY <2>1, SMT
    <3> QED BY <3>1 DEF Next, CheckFirst, CheckTooLate, CheckFires, CheckMarks, Demand, Build,
                        EndJob, Crash, Boot
  <2>3. store.lastSlot # None /\ ~(Slot > store.lastSlot)
    BY <2>2 DEF Advance, CheckHasWork, Unrecorded, Due
  <2>4. Settled(store.lastSlot, now, fires, first)
    BY <2>3 DEF SlotsInv, Marks
  <2>5. Slot \in Slots /\ store.lastSlot <= Slot
    BY <2>4, SlotIsLast DEF SlotsInv, Settled
  <2>6. store.lastSlot = Slot
    <3>1. store.lastSlot \in Nat /\ Slot \in Nat
      BY <2>4, <2>5, TimesType DEF Settled, Slots
    <3> HIDE DEF Slot
    <3> QED BY <2>3, <2>5, <3>1
  <2> QED BY <2>4, <2>6 DEF Settled, TooLate
<1> QED BY <1>1, <1>2, <1>3, PTL DEF Spec, NoIdleSlot

-----------------------------------------------------------------------------
(* The arithmetic of the quorum rules, for quorum systems of every size and every   *)
(* specification                                                                    *)

LEMMA LeastOf ==
  ASSUME NEW S, NEW m \in S, S \subseteq Int, \A x \in S : m <= x
  PROVE  Min(S) = m
<1>1. \A x \in S : (\A y \in S : x <= y) => x = m
  OBVIOUS
<1> QED BY <1>1 DEF Min

LEMMA GreatestOf ==
  ASSUME NEW S, NEW m \in S, S \subseteq Int, \A x \in S : x <= m
  PROVE  Max(S) = m
<1>1. \A x \in S : (\A y \in S : x >= y) => x = m
  OBVIOUS
<1> QED BY <1>1 DEF Max

LEMMA MinOfTwo ==
  ASSUME NEW a \in Int, NEW b \in Int
  PROVE  Min({a, b}) = IF a <= b THEN a ELSE b
BY LeastOf

LEMMA MaxOfTwo ==
  ASSUME NEW a \in Int, NEW b \in Int
  PROVE  Max({a, b}) = IF a >= b THEN a ELSE b
BY GreatestOf

\* x hundredths, rounded up.
LEMMA Hundredths ==
  ASSUME NEW x \in Nat
  PROVE  LET k == (x + 99) \div 100 IN
         k \in 0..x /\ k * 100 >= x /\ \A j \in Nat : j * 100 >= x => k <= j
OBVIOUS

\* scaled (inventory.go) rounds a percentage as the API server and the disruption
\* controller do, whatever the percentage and the number of pods.
THEOREM ScaledAsKubernetes ==
  ASSUME NEW v \in [of : {"max", "min"}, value : Nat, percent : BOOLEAN], NEW n \in Nat
  PROVE  Scaled(v, n) = RoundedUp(v, n) /\ Scaled(v, n) \in Nat
<1>1. v.value * n \in Nat
  BY SMT
<1>2. CASE ~v.percent
  BY <1>2 DEF Scaled, RoundedUp
<1>3. CASE v.percent
  <2> DEFINE x == v.value * n
             k == (x + 99) \div 100
             S == {j \in 0..x : j * 100 >= x}
  <2>1. x \in Nat
    BY <1>1
  <2> HIDE DEF x
  <2>2. k \in S /\ \A j \in S : k <= j
    BY <2>1, Hundredths
  <2>3. S \subseteq Int
    BY <2>1
  <2> HIDE DEF S, k
  <2>4. Min(S) = k
    BY <2>2, <2>3, LeastOf
  <2>5. k \in Nat
    BY <2>1, Hundredths DEF k
  <2> QED BY <1>3, <2>4, <2>5 DEF Scaled, RoundedUp, S, k, x
<1> QED BY <1>2, <1>3

\* A quorum system is said to lose its majority (instanceRules of rules.go) exactly when
\* the PDB would leave less than a majority of healthy members, at every size.
THEOREM BelowQuorumIsRight ==
  ASSUME NEW n \in Nat \ {0}, NEW p, p.spec \in [of : {"max", "min"}, value : Nat, percent : BOOLEAN]
  PROVE  Allowed(p, n) > Tolerated(n) <=> Min({Desired(p.spec, n), n}) < n \div 2 + 1
<1> DEFINE r == Scaled(p.spec, n)
<1>1. r \in Nat /\ r = RoundedUp(p.spec, n)
  BY ScaledAsKubernetes
<1> HIDE DEF r
<1>2. ASSUME NEW a \in 0..n PROVE a > Tolerated(n) <=> n - a < n \div 2 + 1
  BY DEF Tolerated
<1>3. CASE p.spec.of = "max"
  <2>1. Allowed(p, n) = IF r <= n THEN r ELSE n
    BY <1>1, <1>3, MinOfTwo DEF Allowed, r
  <2>2. Desired(p.spec, n) = IF n - r >= 0 THEN n - r ELSE 0
    BY <1>1, <1>3, MaxOfTwo DEF Desired
  <2>3. Min({Desired(p.spec, n), n}) = n - Allowed(p, n) /\ Allowed(p, n) \in 0..n
    BY <1>1, <2>1, <2>2, MinOfTwo
  <2> QED BY <1>2, <2>3
<1>4. CASE p.spec.of = "min"
  <2>1. Allowed(p, n) = IF n - r >= 0 THEN n - r ELSE 0
    BY <1>1, <1>4, MaxOfTwo DEF Allowed, r
  <2>2. Desired(p.spec, n) = r
    BY <1>1, <1>4 DEF Desired
  <2>3. Min({Desired(p.spec, n), n}) = n - Allowed(p, n) /\ Allowed(p, n) \in 0..n
    BY <1>1, <2>1, <2>2, MinOfTwo
  <2> QED BY <1>2, <2>3
<1> QED BY <1>3, <1>4

-----------------------------------------------------------------------------
(* What the rules find                                                              *)

LEMMA LeastNat ==
  ASSUME NEW T, T \subseteq Nat, T # {}
  PROVE  \E m \in T : \A n \in T : m <= n
<1>1. PICK k \in T : TRUE
  OBVIOUS
<1> DEFINE Below == {0..n : n \in {t \in T : t <= k}}
<1>2. IsWellFoundedOn(StrictSubsetOrdering(0..k), FiniteSubsetsOf(0..k))
  BY FS_StrictSubsetOrderingWellFounded
<1>3. Below \subseteq FiniteSubsetsOf(0..k) /\ Below # {}
  <2> SUFFICES ASSUME NEW b \in Below PROVE b \in FiniteSubsetsOf(0..k)
    <3>1. 0..k \in Below
      BY <1>1
    <3> QED BY <3>1
  <2>1. PICK n \in T : n <= k /\ b = 0..n
    OBVIOUS
  <2>2. b \in SUBSET (0..k) /\ IsFiniteSet(b)
    BY <1>1, <2>1, FS_Interval
  <2> QED BY <2>2 DEF FiniteSubsetsOf
<1>4. PICK r \in Below : \A q \in Below : <<q, r>> \notin StrictSubsetOrdering(0..k)
  <2> HIDE DEF Below
  <2> QED BY <1>2, <1>3, WFMin
<1>5. PICK m \in T : m <= k /\ r = 0..m
  BY <1>4
<1>6. ASSUME NEW n \in T, ~(m <= n) PROVE FALSE
  <2>1. 0..n \in Below /\ 0..n \subseteq r /\ 0..n # r /\ r \subseteq 0..k
    BY <1>1, <1>5, <1>6
  <2>2. <<0..n, r>> \in StrictSubsetOrdering(0..k)
    BY <2>1 DEF StrictSubsetOrdering
  <2> QED BY <1>4, <2>1, <2>2
<1> QED BY <1>6

LEMMA AddFields ==
  ASSUME NEW a, NEW o, NEW f, NEW notes
  PROVE  \A x : x \in Add(a, o, f, notes).found <=>
                  /\ x = f /\ f.rule \notin o.disabled /\ ~Skipped(a, o, f.ns)
                  /\ ~Silenced(f, notes)
BY DEF Add

LEMMA AllFields ==
  ASSUME NEW S
  PROVE  \A x : x \in All(S).found <=> \E r \in S : x \in r.found
BY DEF All

\* A finding of Evaluate is one of a PDB that was not taken along, or one of an instance.
FoundOnPdbs(a, o) == All({PdbRules(a, o, p) : p \in a.pdbs}).found

LEMMA EvaluateFields ==
  ASSUME NEW a, NEW o
  PROVE  \A f : f \in Evaluate(a, o).found <=>
           \/ /\ f \in FoundOnPdbs(a, o)
              /\ \A i \in DOMAIN a.instances : f \notin TakenBy(a, o, FoundOnPdbs(a, o), i)
           \/ \E i \in DOMAIN a.instances :
                f \in InstanceRules(a, o, a.instances[i], TakenBy(a, o, FoundOnPdbs(a, o), i)).found
<1> DEFINE pdbs == All({PdbRules(a, o, p) : p \in a.pdbs})
           taken(i) == TakenBy(a, o, pdbs.found, i)
           instances == All({InstanceRules(a, o, a.instances[i], taken(i)) : i \in DOMAIN a.instances})
<1>1. Evaluate(a, o).found
        = (pdbs.found \ UNION {taken(i) : i \in DOMAIN a.instances}) \cup instances.found
  BY DEF Evaluate
<1>2. pdbs.found = FoundOnPdbs(a, o)
  BY DEF FoundOnPdbs
<1>3. \A f : f \in instances.found <=>
             \E i \in DOMAIN a.instances : f \in InstanceRules(a, o, a.instances[i], taken(i)).found
  <2>1. PICK S : S = {InstanceRules(a, o, a.instances[i], taken(i)) : i \in DOMAIN a.instances}
    OBVIOUS
  <2>2. instances = All(S)
    BY <2>1
  <2>3. \A f : f \in instances.found <=> \E r \in S : f \in r.found
    BY <2>2, AllFields
  <2> HIDE DEF instances, taken
  <2> QED BY <2>1, <2>3
<1> HIDE DEF pdbs, instances
<1> QED BY <1>1, <1>2, <1>3

\* What is found on PDBs, one by one.
LEMMA OnPdbs ==
  ASSUME NEW a, NEW o
  PROVE  \A f : f \in FoundOnPdbs(a, o) <=>
           \E p \in a.pdbs :
             /\ f \in PdbFindings(p) /\ f.rule \notin o.disabled /\ ~Skipped(a, o, f.ns)
             /\ ~Silenced(f, Annotations(a, p, f))
<1>1. \A f : f \in FoundOnPdbs(a, o) <=> \E p \in a.pdbs : f \in PdbRules(a, o, p).found
  BY AllFields DEF FoundOnPdbs
<1>2. ASSUME NEW p
      PROVE  \A f : f \in PdbRules(a, o, p).found <=>
               /\ f \in PdbFindings(p) /\ f.rule \notin o.disabled /\ ~Skipped(a, o, f.ns)
               /\ ~Silenced(f, Annotations(a, p, f))
  <2>1. \A f : f \in PdbRules(a, o, p).found <=>
               \E g \in PdbFindings(p) : f \in Add(a, o, g, Annotations(a, p, g)).found
    BY AllFields DEF PdbRules
  <2> QED BY <2>1, AddFields
<1> QED BY <1>1, <1>2

\* A finding that may be taken along goes with one instance, the first that takes it.
LEMMA FirstTakes ==
  ASSUME NEW a, NEW o, NEW found, NEW f \in found, NEW len \in Nat, DOMAIN a.instances = 1..len,
         NEW i \in 1..len, TakesAlong(a, o, a.instances[i], f)
  PROVE  \E m \in 1..len : f \in TakenBy(a, o, found, m)
<1> DEFINE T == {j \in 1..len : TakesAlong(a, o, a.instances[j], f)}
<1>1. T \subseteq Nat /\ T # {}
  OBVIOUS
<1>2. PICK m \in T : \A j \in T : m <= j
  <2> HIDE DEF T
  <2> QED BY <1>1, LeastNat
<1>3. \A j \in 1..(m - 1) : ~TakesAlong(a, o, a.instances[j], f)
  <2> SUFFICES ASSUME NEW j \in 1..(m - 1), TakesAlong(a, o, a.instances[j], f) PROVE FALSE
    OBVIOUS
  <2>1. j \in 1..len /\ ~(m <= j)
    BY <1>2
  <2> QED BY <1>2, <2>1
<1> QED BY <1>2, <1>3 DEF TakenBy

\* A PDB that allows no eviction is reported, whatever annotations and instances there are,
\* in an inventory of any size: by its own finding, or by that of the instance which took
\* it along (pdbRules and singleInstance of rules.go).
THEOREM BlockersReported ==
  ASSUME Audited, NEW len \in Nat, DOMAIN judged.audit.instances = 1..len
  PROVE  EveryBlockerReported
<1> DEFINE a == judged.audit
           o == judged.options
           found == FoundOnPdbs(a, o)
<1> SUFFICES ASSUME NEW p \in a.pdbs, Blocks(p), BlockRule(p) \notin o.disabled,
                    ~Skipped(a, o, p.ns)
             PROVE  \E f \in Result.found :
                      f.ns = p.ns /\ (p.name \in f.blockers \/ (f.rule = BlockRule(p) /\ f.name = p.name))
  BY DEF EveryBlockerReported
<1>1. PICK f : f = Finding(BlockRule(p), p, p.name)
  OBVIOUS
<1>2. /\ f.rule = BlockRule(p) /\ f.ns = p.ns /\ f.name = p.name
      /\ f.rule \in DrainRules /\ f \in PdbFindings(p)
  BY <1>1 DEF Finding, BlockRule, DrainRules, PdbFindings
<1>3. f \in found
  BY <1>2, OnPdbs DEF Silenced
<1>4. DOMAIN a.instances = 1..len
  OBVIOUS
<1>5. \A x : x \in Result.found <=>
           \/ x \in found /\ \A i \in DOMAIN a.instances : x \notin TakenBy(a, o, found, i)
           \/ \E i \in DOMAIN a.instances :
                x \in InstanceRules(a, o, a.instances[i], TakenBy(a, o, found, i)).found
  <2> HIDE DEF a, o
  <2>1. Result = Evaluate(a, o)
    BY DEF Result, a, o
  <2> QED BY <2>1, EvaluateFields
<1> HIDE DEF a, o, found
<1>6. CASE \A i \in DOMAIN a.instances : f \notin TakenBy(a, o, found, i)
  BY <1>2, <1>3, <1>5, <1>6
<1>7. CASE \E i \in DOMAIN a.instances : f \in TakenBy(a, o, found, i)
  <2>1. PICK i \in DOMAIN a.instances : f \in TakenBy(a, o, found, i)
    BY <1>7
  <2>2. PICK in : in = a.instances[i]
    OBVIOUS
  <2>3. PICK taken : taken = TakenBy(a, o, found, i)
    OBVIOUS
  <2>4. f \in taken /\ TakesAlong(a, o, in, f)
    BY <2>1, <2>2, <2>3 DEF TakenBy
  <2>5. PICK g : g = [Finding(SingleRule(in), in, in.name) EXCEPT !.kind = "instance",
                                                      !.blockers = {x.name : x \in taken}]
    OBVIOUS
  <2>6. g.rule = SingleRule(in) /\ g.ns = in.ns /\ g.blockers = {x.name : x \in taken}
    BY <2>5 DEF Finding
  <2>7. /\ Single(a, in) /\ in.ns = p.ns
        /\ SingleRule(in) \notin o.disabled /\ ~Ignores(in.ignore, SingleRule(in))
    BY <1>2, <2>4 DEF TakesAlong, Reported, Folds
  <2>8. g \in SingleRules(a, o, in, taken).found
    <3>1. SingleRules(a, o, in, taken) = Add(a, o, g, {in.ignore})
      BY <2>5 DEF SingleRules
    <3>2. g.rule \notin o.disabled /\ ~Skipped(a, o, g.ns)
      BY <2>6, <2>7
    <3>3. ~Silenced(g, {in.ignore})
      BY <2>6, <2>7 DEF Silenced
    <3> QED BY <3>1, <3>2, <3>3, AddFields
  <2>9. g \in InstanceRules(a, o, in, taken).found
    BY <2>7, <2>8, AllFields DEF InstanceRules
  <2>10. g \in Result.found
    BY <1>5, <2>2, <2>3, <2>9
  <2>11. p.name \in g.blockers
    BY <1>2, <2>4, <2>6
  <2> QED BY <2>6, <2>7, <2>10, <2>11
<1> QED BY <1>6, <1>7

\* What a finding is, besides its key.
Shape(a, o, f) ==
  /\ f = [rule |-> f.rule, ns |-> f.ns, kind |-> f.kind, name |-> f.name, with |-> f.with,
          about |-> f.about, blockers |-> f.blockers]
  /\ \/ /\ f.rule \in DrainRules \cup {"quorum-no-pdb"} /\ f.about = 0 /\ f.blockers = {}
     \/ /\ f.rule = "below-quorum" /\ f.blockers = {}
     \/ /\ f.rule \in {"rabbitmq-single", "redis-single"} /\ f.about = 0
        /\ \E i \in DOMAIN a.instances :
             /\ f.ns = a.instances[i].ns /\ f.name = a.instances[i].name
             /\ f.blockers = {x.name : x \in TakenBy(a, o, FoundOnPdbs(a, o), i)}

LEMMA InstanceShapes ==
  ASSUME NEW a, NEW o, NEW i \in DOMAIN a.instances,
         NEW f \in InstanceRules(a, o, a.instances[i], TakenBy(a, o, FoundOnPdbs(a, o), i)).found
  PROVE  Shape(a, o, f)
<1>1. PICK in : in = a.instances[i]
  OBVIOUS
<1>2. PICK taken : taken = TakenBy(a, o, FoundOnPdbs(a, o), i)
  OBVIOUS
<1>3. \/ f \in QuorumRules(a, o, in).found
      \/ f \in SingleRules(a, o, in, taken).found
  <2>1. f \in InstanceRules(a, o, in, taken).found
    BY <1>1, <1>2
  <2> QED BY <2>1, AllFields DEF InstanceRules
<1>4. CASE f \in SingleRules(a, o, in, taken).found
  <2>1. f = [Finding(SingleRule(in), in, in.name) EXCEPT !.kind = "instance",
                                                      !.blockers = {x.name : x \in taken}]
    BY <1>4, AddFields DEF SingleRules
  <2>2. SingleRule(in) \in {"rabbitmq-single", "redis-single"}
    BY DEF SingleRule
  <2> QED BY <1>1, <1>2, <2>1, <2>2 DEF Finding, Shape
<1>5. CASE f \in QuorumRules(a, o, in).found
  <2>1. CASE in.pdbs = {}
    <3>1. f = [Finding("quorum-no-pdb", in, in.name) EXCEPT !.kind = "instance"]
      BY <1>5, <2>1, AddFields DEF QuorumRules
    <3> QED BY <3>1 DEF Finding, Shape
  <2>2. CASE in.pdbs # {}
    <3> DEFINE below(p) == [Finding("below-quorum", in, p.name) EXCEPT !.about = in.name]
    <3>1. PICK S : S = {Add(a, o, below(p), p.ignore \cup {in.ignore}) : p \in Loose(a, in)}
      OBVIOUS
    <3>2. QuorumRules(a, o, in) = All(S)
      BY <2>2, <3>1 DEF QuorumRules
    <3>3. \E r \in S : f \in r.found
      BY <1>5, <3>2, AllFields
    <3>4. PICK p : f \in Add(a, o, below(p), p.ignore \cup {in.ignore}).found
      BY <3>1, <3>3
    <3>5. f = below(p)
      BY <3>4, AddFields
    <3> QED BY <3>5 DEF Finding, Shape
  <2> QED BY <2>1, <2>2
<1> QED BY <1>3, <1>4, <1>5

LEMMA Shapes ==
  ASSUME NEW a, NEW o, NEW f \in Evaluate(a, o).found
  PROVE  Shape(a, o, f)
<1>1. CASE f \in FoundOnPdbs(a, o)
  <2>1. PICK p \in a.pdbs : f \in PdbFindings(p)
    BY <1>1, OnPdbs
  <2>2. \/ f = Finding(BlockRule(p), p, p.name)
        \/ \E q \in p.overlaps : f = [Finding("overlap", p, p.name) EXCEPT !.with = q]
        \/ f = Finding("blocked-unhealthy", p, p.name)
    BY <2>1 DEF PdbFindings
  <2> QED BY <2>2 DEF Finding, Shape, BlockRule, DrainRules
<1>2. CASE \E i \in DOMAIN a.instances :
             f \in InstanceRules(a, o, a.instances[i], TakenBy(a, o, FoundOnPdbs(a, o), i)).found
  BY <1>2, InstanceShapes
<1> QED BY <1>1, <1>2, EvaluateFields

\* Where an object has one name, two findings with one key are the verdicts on two quorum
\* systems under one PDB, and nothing else (Finding.Key of rules.go).
THEOREM KeysAreKeys ==
  ASSUME Audited,
         \A i, j \in DOMAIN judged.audit.instances :
           /\ judged.audit.instances[i].ns = judged.audit.instances[j].ns
           /\ judged.audit.instances[i].name = judged.audit.instances[j].name
           => i = j
  PROVE  KeysCollideOnlyWhenShared
<1> DEFINE a == judged.audit
           o == judged.options
<1> SUFFICES ASSUME NEW f \in Result.found, NEW g \in Result.found, Key(f) = Key(g), f # g
             PROVE  f.rule = "below-quorum" /\ f.about # g.about
  BY DEF KeysCollideOnlyWhenShared
<1>1. Shape(a, o, f) /\ Shape(a, o, g)
  <2>1. f \in Evaluate(a, o).found /\ g \in Evaluate(a, o).found
    BY DEF Result
  <2> QED BY <2>1, Shapes
<1>2. \A i, j \in DOMAIN a.instances :
        a.instances[i].ns = a.instances[j].ns /\ a.instances[i].name = a.instances[j].name => i = j
  OBVIOUS
<1> HIDE DEF a, o
<1>3. f.ns = g.ns /\ f.kind = g.kind /\ f.name = g.name /\ f.rule = g.rule /\ f.with = g.with
  BY DEF Key
<1>4. f.about # g.about \/ f.blockers # g.blockers
  BY <1>1, <1>3 DEF Shape
<1>5. CASE f.rule \in DrainRules \cup {"quorum-no-pdb"}
  BY <1>1, <1>3, <1>4, <1>5 DEF Shape, DrainRules
<1>6. CASE f.rule = "below-quorum"
  BY <1>1, <1>3, <1>4, <1>6 DEF Shape, DrainRules
<1>7. CASE f.rule \in {"rabbitmq-single", "redis-single"}
  <2>1. PICK i \in DOMAIN a.instances :
          /\ f.ns = a.instances[i].ns /\ f.name = a.instances[i].name
          /\ f.blockers = {x.name : x \in TakenBy(a, o, FoundOnPdbs(a, o), i)}
    BY <1>1, <1>7 DEF Shape, DrainRules
  <2>2. PICK j \in DOMAIN a.instances :
          /\ g.ns = a.instances[j].ns /\ g.name = a.instances[j].name
          /\ g.blockers = {x.name : x \in TakenBy(a, o, FoundOnPdbs(a, o), j)}
    BY <1>1, <1>3, <1>7 DEF Shape, DrainRules
  <2>3. i = j
    BY <1>2, <1>3, <2>1, <2>2
  <2>4. f.about = 0 /\ g.about = 0
    BY <1>1, <1>3, <1>7 DEF Shape, DrainRules
  <2> QED BY <1>4, <2>1, <2>2, <2>3, <2>4
<1> QED BY <1>1, <1>5, <1>6, <1>7 DEF Shape

Specification == [of : {"max", "min"}, value : Nat, percent : BOOLEAN]

LEMMA DesiredType ==
  ASSUME NEW spec \in Specification, NEW n \in Nat
  PROVE  Desired(spec, n) \in Nat
<1>1. PICK r \in Nat : r = RoundedUp(spec, n)
  BY ScaledAsKubernetes DEF Specification
<1>2. CASE spec.of = "max"
  <2>1. Desired(spec, n) = IF n - r >= 0 THEN n - r ELSE 0
    BY <1>1, <1>2, MaxOfTwo DEF Desired
  <2> QED BY <1>1, <2>1
<1>3. CASE spec.of = "min"
  BY <1>1, <1>3 DEF Desired
<1> QED BY <1>2, <1>3 DEF Specification

\* One quorum system under one PDB, in full.
Member(n) == [ns |-> "ns", name |-> 1, engine |-> "etcd", replicas |-> n, quorum |-> TRUE,
              pdbs |-> {1}, ignore |-> {}]

LEMMA AloneFields ==
  ASSUME NEW spec, NEW n, NEW healthy,
         NEW a, a = Alone(spec, n, healthy), NEW p, p = Observed(1, spec, n, healthy)
  PROVE  /\ a.pdbs = {p} /\ DOMAIN a.instances = {1} /\ a.instances[1] = Member(n)
         /\ a.ns["ns"].production /\ ~Single(a, Member(n))
         /\ ~Skipped(a, NoOptions, "ns") /\ Named(a, "ns", 1) = {p}
<1>1. /\ a.pdbs = {p} /\ a.instances = <<Member(n)>>
      /\ a.ns["ns"] = [known |-> FALSE, labels |-> <<>>, team |-> "", production |-> TRUE]
  BY DEF Alone, Member
<1>2. p.ns = "ns" /\ p.name = 1
  BY DEF Observed
<1>3. DOMAIN a.instances = {1} /\ a.instances[1] = Member(n)
  <2>1. \A x : DOMAIN <<x>> = 1..1 /\ <<x>>[1] = x
    OBVIOUS
  <2>2. 1..1 = {1}
    OBVIOUS
  <2> QED BY <1>1, <2>1, <2>2
<1>4. ~Single(a, Member(n))
  BY DEF Single, Member
<1>5. ~Skipped(a, NoOptions, "ns")
  BY <1>1 DEF Skipped, NoOptions
<1>6. Named(a, "ns", 1) = {p}
  BY <1>1, <1>2 DEF Named
<1>7. a.ns["ns"].production
  <2>1. PICK namespace :
          namespace = [known |-> FALSE, labels |-> <<>>, team |-> "", production |-> TRUE]
    OBVIOUS
  <2>2. namespace.production = TRUE
    BY <2>1
  <2> QED BY <1>1, <2>1, <2>2, Zenon
<1> QED BY <1>1, <1>3, <1>4, <1>5, <1>6, <1>7

\* What is found there.
LEMMA RulesOnOne ==
  ASSUME NEW spec \in Specification, NEW n \in Nat \ {0}, NEW healthy \in 0..n
  PROVE  LET p == Observed(1, spec, n, healthy) IN
         \A r : r \in RulesOn(spec, n, healthy) <=>
           \/ r = BlockRule(p) /\ Desired(spec, n) >= n
           \/ r = "blocked-unhealthy" /\ Stuck(p)
           \/ r = "below-quorum" /\ n >= 2 /\ Allowed(p, n) > Tolerated(n)
<1>a. PICK a : a = Alone(spec, n, healthy)
  OBVIOUS
<1>p. PICK p : p = Observed(1, spec, n, healthy)
  OBVIOUS
<1> DEFINE found == FoundOnPdbs(a, NoOptions)
<1>1. /\ a.pdbs = {p} /\ DOMAIN a.instances = {1} /\ a.instances[1] = Member(n)
      /\ a.ns["ns"].production /\ ~Single(a, Member(n))
      /\ ~Skipped(a, NoOptions, "ns") /\ Named(a, "ns", 1) = {p}
  BY <1>a, <1>p, AloneFields
<1>2. /\ p.ns = "ns" /\ p.name = 1 /\ p.overlaps = {} /\ p.ignore = {}
      /\ p.expected = n /\ p.desired = Desired(spec, n) /\ p.spec = spec
  BY <1>p DEF Observed
<1>3. \A f : f \in Evaluate(a, NoOptions).found <=>
           \/ f \in found /\ f \notin TakenBy(a, NoOptions, found, 1)
           \/ f \in InstanceRules(a, NoOptions, Member(n), TakenBy(a, NoOptions, found, 1)).found
  BY <1>1, EvaluateFields
<1>4. RulesOn(spec, n, healthy) = {f.rule : f \in Evaluate(a, NoOptions).found}
  BY <1>a DEF RulesOn
<1> HIDE DEF found
<1>5. TakenBy(a, NoOptions, found, 1) = {}
  BY <1>1 DEF TakenBy, TakesAlong
<1>6. \A f : f \in found <=> f \in PdbFindings(p)
  <2>1. \A f \in PdbFindings(p) : f.ns = "ns" /\ f.with = 0
    BY <1>2 DEF PdbFindings, Finding
  <2>2. \A f : f.with = 0 => Annotations(a, p, f) = {}
    BY <1>2 DEF Annotations
  <2>3. \A f : ~Silenced(f, {})
    BY DEF Silenced
  <2>4. NoOptions.disabled = {}
    BY DEF NoOptions
  <2>5. \A f : f \in found <=>
                 /\ f \in PdbFindings(p) /\ f.rule \notin NoOptions.disabled
                 /\ ~Skipped(a, NoOptions, f.ns) /\ ~Silenced(f, Annotations(a, p, f))
    BY <1>1, OnPdbs DEF found
  <2> SUFFICES ASSUME NEW f \in PdbFindings(p)
               PROVE  ~Skipped(a, NoOptions, f.ns) /\ ~Silenced(f, Annotations(a, p, f))
    BY <2>4, <2>5
  <2> QED BY <1>1, <2>1, <2>2, <2>3
<1>7. \A r : (\E f \in PdbFindings(p) : r = f.rule) <=>
             \/ r = BlockRule(p) /\ Blocks(p)
             \/ r = "blocked-unhealthy" /\ Stuck(p)
  <2>1. \A f : f \in PdbFindings(p) <=>
                 \/ Blocks(p) /\ f = Finding(BlockRule(p), p, p.name)
                 \/ Stuck(p) /\ f = Finding("blocked-unhealthy", p, p.name)
    BY <1>2 DEF PdbFindings
  <2>2. \A rule : Finding(rule, p, p.name).rule = rule
    BY DEF Finding
  <2> QED BY <2>1, <2>2
<1>8. Blocks(p) <=> Desired(spec, n) >= n
  BY <1>2, DesiredType DEF Blocks, Headroom
<1>9. \A f : f \in InstanceRules(a, NoOptions, Member(n), {}).found <=>
               /\ n >= 2 /\ Allowed(p, n) > Tolerated(n)
               /\ f = [Finding("below-quorum", Member(n), 1) EXCEPT !.about = 1]
  <2>1. PICK in : in = Member(n)
    OBVIOUS
  <2>2. in.ns = "ns" /\ in.name = 1 /\ in.replicas = n /\ in.quorum /\ in.pdbs = {1} /\ in.ignore = {}
    BY <2>1 DEF Member
  <2>3. \A f : f \in InstanceRules(a, NoOptions, in, {}).found <=>
               n >= 2 /\ f \in QuorumRules(a, NoOptions, in).found
    BY <1>1, <2>1, <2>2, AllFields DEF InstanceRules
  <2>4. Loose(a, in) = {x \in {p} : Allowed(x, n) > Tolerated(n)}
    BY <1>1, <2>2 DEF Loose
  <2> DEFINE below(x) == [Finding("below-quorum", in, x.name) EXCEPT !.about = in.name]
  <2>5. PICK S : S = {Add(a, NoOptions, below(x), x.ignore \cup {in.ignore}) : x \in Loose(a, in)}
    OBVIOUS
  <2>6. QuorumRules(a, NoOptions, in) = All(S)
    BY <2>2, <2>5 DEF QuorumRules
  <2>7. PICK g : g = below(p)
    OBVIOUS
  <2>8. /\ g.rule = "below-quorum" /\ g.ns = "ns"
        /\ g = [Finding("below-quorum", in, 1) EXCEPT !.about = 1]
    BY <1>2, <2>2, <2>7 DEF Finding
  <2>9. \A f : f \in Add(a, NoOptions, g, p.ignore \cup {in.ignore}).found <=> f = g
    <3>1. g.rule \notin NoOptions.disabled /\ ~Skipped(a, NoOptions, g.ns)
      BY <1>1, <2>8 DEF NoOptions
    <3>2. ~Silenced(g, p.ignore \cup {in.ignore})
      BY <1>2, <2>2 DEF Silenced, Ignores
    <3> QED BY <3>1, <3>2, AddFields
  <2>10. \A f : f \in All(S).found <=> Allowed(p, n) > Tolerated(n) /\ f = g
    <3>1. \A f : f \in All(S).found <=> \E r \in S : f \in r.found
      BY AllFields
    <3>2. \A r : r \in S <=> /\ Allowed(p, n) > Tolerated(n)
                             /\ r = Add(a, NoOptions, g, p.ignore \cup {in.ignore})
      BY <2>4, <2>5, <2>7
    <3> QED BY <2>9, <3>1, <3>2
  <2> QED BY <2>1, <2>3, <2>6, <2>8, <2>10
<1>10. [Finding("below-quorum", Member(n), 1) EXCEPT !.about = 1].rule = "below-quorum"
  BY DEF Finding
<1> SUFFICES ASSUME NEW r
             PROVE  r \in RulesOn(spec, n, healthy) <=>
                      \/ r = BlockRule(p) /\ Desired(spec, n) >= n
                      \/ r = "blocked-unhealthy" /\ Stuck(p)
                      \/ r = "below-quorum" /\ n >= 2 /\ Allowed(p, n) > Tolerated(n)
  BY <1>p
<1>11. r \in RulesOn(spec, n, healthy) <=> \E f \in Evaluate(a, NoOptions).found : r = f.rule
  BY <1>4
<1> QED BY <1>3, <1>5, <1>6, <1>7, <1>8, <1>9, <1>10, <1>11

\* With every member healthy, a specification blocks drains, breaks the quorum, or neither.
LEMMA RulesOnHealthy ==
  ASSUME NEW spec \in Specification, NEW n \in Nat \ {0}
  PROVE  \A r : r \in RulesOn(spec, n, n) <=>
           \/ Desired(spec, n) >= n
              /\ r = IF spec.of = "max" THEN "max-unavailable-zero" ELSE "min-available-all"
           \/ r = "below-quorum" /\ n >= 2 /\ Min({Desired(spec, n), n}) < n \div 2 + 1
<1>1. PICK p : p = Observed(1, spec, n, n)
  OBVIOUS
<1>2. PICK d \in Nat : d = Desired(spec, n)
  BY DesiredType
<1>3. p.spec = spec /\ p.expected = n /\ p.desired = d /\ p.healthy = n
  BY <1>1, <1>2 DEF Observed
<1>4. ~Stuck(p)
  BY <1>2, <1>3 DEF Stuck, Headroom
<1>5. Allowed(p, n) > Tolerated(n) <=> Min({Desired(spec, n), n}) < n \div 2 + 1
  BY <1>3, BelowQuorumIsRight DEF Specification
<1>6. BlockRule(p) = IF spec.of = "max" THEN "max-unavailable-zero" ELSE "min-available-all"
  BY <1>3 DEF BlockRule
<1>7. n \in 0..n
  OBVIOUS
<1>8. \A r : r \in RulesOn(spec, n, n) <=>
           \/ r = BlockRule(p) /\ Desired(spec, n) >= n
           \/ r = "blocked-unhealthy" /\ Stuck(p)
           \/ r = "below-quorum" /\ n >= 2 /\ Allowed(p, n) > Tolerated(n)
  BY <1>1, <1>7, RulesOnOne
<1> QED BY <1>4, <1>5, <1>6, <1>8

\* The verdict on a quorum does not depend on who is down.
LEMMA VerdictHolds ==
  ASSUME judged.spec \in Specification, judged.n \in Nat \ {0}
  PROVE  VerdictIsRight
<1> SUFFICES ASSUME judged.n >= 2, NEW healthy \in 0..judged.n
             PROVE  "below-quorum" \in RulesOn(judged.spec, judged.n, healthy)
                    <=> Min({Desired(judged.spec, judged.n), judged.n}) < judged.n \div 2 + 1
  BY DEF VerdictIsRight
<1>1. PICK p : p = Observed(1, judged.spec, judged.n, healthy)
  OBVIOUS
<1>2. p.spec = judged.spec
  BY <1>1 DEF Observed
<1>3. Allowed(p, judged.n) > Tolerated(judged.n)
        <=> Min({Desired(judged.spec, judged.n), judged.n}) < judged.n \div 2 + 1
  BY <1>2, BelowQuorumIsRight DEF Specification
<1>4. BlockRule(p) # "below-quorum"
  BY DEF BlockRule
<1> QED BY <1>1, <1>3, <1>4, RulesOnOne

\* What the fixes specify.
Whole(of, value) == [of |-> of, value |-> value, percent |-> FALSE]

LEMMA DesiredOfFixes ==
  ASSUME NEW value \in Nat, NEW n \in Nat \ {0}
  PROVE  /\ Desired(Whole("max", value), n) = IF n - value >= 0 THEN n - value ELSE 0
         /\ Desired(Whole("min", value), n) = value
         /\ Whole("max", value) \in Specification /\ Whole("min", value) \in Specification
BY MaxOfTwo DEF Desired, RoundedUp, Whole, Specification

LEMMA NothingLeft ==
  ASSUME NEW spec \in Specification, NEW n \in Nat \ {0}, Desired(spec, n) < n,
         n >= 2 => Desired(spec, n) >= n \div 2 + 1
  PROVE  RulesOn(spec, n, n) = {}
<1>1. PICK d \in Nat : d = Desired(spec, n)
  BY DesiredType
<1>2. Min({Desired(spec, n), n}) = d
  BY <1>1, MinOfTwo
<1>3. \A r : r \notin RulesOn(spec, n, n)
  BY <1>1, <1>2, RulesOnHealthy
<1> QED BY <1>3

LEMMA OneOfThree == RulesOn(Whole("max", 1), 3, 3) = {}
<1>1. Desired(Whole("max", 1), 3) = 2 /\ Whole("max", 1) \in Specification
  BY DesiredOfFixes
<1> QED BY <1>1, NothingLeft

\* One member may go: done, or a quorum of two to be grown to three.
LEMMA OneMayGo ==
  ASSUME NEW spec \in Specification, NEW n \in Nat \ {0}, Desired(spec, n) = n - 1
  PROVE  RulesOn(spec, n, n) \subseteq (IF n = 2 THEN {"below-quorum"} ELSE {})
<1>1. CASE n = 2
  <2>1. ~(Desired(spec, n) >= n)
    OBVIOUS
  <2>2. \A r \in RulesOn(spec, n, n) : r = "below-quorum"
    BY <2>1, RulesOnHealthy
  <2> QED BY <1>1, <2>2
<1>2. CASE n # 2
  <2>1. n >= 2 => n - 1 >= n \div 2 + 1
    BY <1>2
  <2>2. n - 1 < n
    OBVIOUS
  <2> QED BY <1>2, <2>1, <2>2, NothingLeft
<1> QED BY <1>1, <1>2

\* A fix is either of these, or ends in nothing at once.
LEMMA FixesOf ==
  ASSUME NEW spec \in Specification, NEW n \in Nat \ {0}, NEW r \in RulesOn(spec, n, n),
         NEW x \in Fixes(r, n)
  PROVE  /\ x.n \in Nat \ {0} /\ x.spec \in Specification
         /\ \/ RulesOn(x.spec, x.n, x.n) = {}
            \/ x.n = 2 /\ RulesOn(x.spec, x.n, x.n) \subseteq {"below-quorum"}
<1>1. PICK d \in Nat : d = Desired(spec, n)
  BY DesiredType
<1>2. \/ r \in {"max-unavailable-zero", "min-available-all"}
      \/ r = "below-quorum" /\ n >= 2
  BY RulesOnHealthy
<1>3. ASSUME NEW y, NEW of \in {"max", "min"}, NEW value \in Nat, NEW k \in Nat \ {0},
             y = To(of, value, k)
      PROVE  y.n = k /\ y.spec = Whole(of, value) /\ y.spec \in Specification
  BY <1>3 DEF To, Whole, Specification
<1>4. ASSUME NEW y, NEW of \in {"max", "min"}, NEW value \in Nat, NEW k \in Nat \ {0},
             y = To(of, value, k), Desired(Whole(of, value), k) = k - 1
      PROVE  /\ y.n \in Nat \ {0} /\ y.spec \in Specification
             /\ \/ RulesOn(y.spec, y.n, y.n) = {}
                \/ y.n = 2 /\ RulesOn(y.spec, y.n, y.n) \subseteq {"below-quorum"}
  <2>1. y.n = k /\ y.spec = Whole(of, value) /\ y.spec \in Specification
    BY <1>3, <1>4
  <2>2. RulesOn(y.spec, k, k) \subseteq (IF k = 2 THEN {"below-quorum"} ELSE {})
    BY <1>4, <2>1, OneMayGo
  <2> QED BY <2>1, <2>2
<1>5. ASSUME NEW k \in Nat \ {0}
      PROVE  /\ Desired(Whole("max", 1), k) = k - 1
             /\ Desired(Whole("min", k - 1), k) = k - 1
  <2>1. k - 1 \in Nat /\ k - 1 >= 0 /\ 1 \in Nat
    OBVIOUS
  <2> QED BY <2>1, DesiredOfFixes
<1>6. CASE r = "max-unavailable-zero"
  <2>1. x = To("max", 1, n)
    BY <1>6 DEF Fixes, DrainFixes
  <2> QED BY <1>4, <1>5, <2>1
<1>7. CASE r = "min-available-all" /\ n = 1
  <2>1. x = To("min", 1, 2) \/ x = To("max", 1, 1)
    BY <1>7 DEF Fixes, DrainFixes
  <2>2. Desired(Whole("min", 1), 2) = 2 - 1 /\ Desired(Whole("max", 1), 1) = 1 - 1
    BY DesiredOfFixes
  <2>3. {1, 2} \subseteq Nat \ {0}
    OBVIOUS
  <2> QED BY <1>4, <2>1, <2>2, <2>3
<1>8. CASE r = "min-available-all" /\ n > 1
  <2>1. x = To("max", 1, n) \/ x = To("min", n - 1, n)
    BY <1>8 DEF Fixes, DrainFixes
  <2>2. n - 1 \in Nat /\ 1 \in Nat
    OBVIOUS
  <2> QED BY <1>4, <1>5, <2>1, <2>2
<1>9. CASE r = "below-quorum" /\ n = 2
  <2>1. x = To("max", 1, 3)
    BY <1>9 DEF Fixes, QuorumFixes
  <2>2. x.n = 3 /\ x.spec = Whole("max", 1) /\ x.spec \in Specification
    BY <1>3, <2>1
  <2> QED BY <2>2, OneOfThree
<1>10. CASE r = "below-quorum" /\ n > 2
  <2>1. x = To("min", n \div 2 + 1, n) \/ x = To("max", 1, n)
    BY <1>10 DEF Fixes, QuorumFixes
  <2>2. CASE x = To("max", 1, n)
    BY <1>4, <1>5, <2>2
  <2>3. CASE x = To("min", n \div 2 + 1, n)
    <3>1. PICK half \in Nat : half = n \div 2 + 1 /\ half < n
      BY <1>10
    <3>2. x.n = n /\ x.spec = Whole("min", half) /\ x.spec \in Specification
      BY <1>3, <2>3, <3>1
    <3>3. Desired(Whole("min", half), n) = half
      BY <3>1, DesiredOfFixes
    <3>4. half >= n \div 2 + 1
      BY <3>1
    <3> QED BY <3>1, <3>2, <3>3, <3>4, NothingLeft
  <2> QED BY <2>1, <2>2, <2>3
<1> QED BY <1>2, <1>6, <1>7, <1>8, <1>9, <1>10

\* Who follows the advice of a report and then that of the next one has nothing left to
\* fix, and the verdict on a quorum is Kubernetes's, for every specification of a PDB and
\* every number of members.
THEOREM AdviceHolds ==
  ASSUME judged.spec \in Specification, judged.n \in Nat \ {0}
  PROVE  AdviceIsRight
<1>1. ASSUME NEW r \in RulesOn(judged.spec, judged.n, judged.n), NEW x \in Fixes(r, judged.n),
             NEW q \in RulesOn(x.spec, x.n, x.n), NEW y \in Fixes(q, x.n)
      PROVE  RulesOn(y.spec, y.n, y.n) = {}
  <2>1. x.n = 2 /\ q = "below-quorum"
    BY FixesOf
  <2>2. y = To("max", 1, 3)
    BY <2>1 DEF Fixes, QuorumFixes
  <2>3. y.n = 3 /\ y.spec = Whole("max", 1)
    BY <2>2 DEF To, Whole
  <2> QED BY <2>3, OneOfThree
<1>2. FixesEnd
  BY <1>1 DEF FixesEnd
<1> QED BY <1>2, VerdictHolds DEF AdviceIsRight

-----------------------------------------------------------------------------
(* Types *)

LEMMA FiniteKeys == IsFiniteSet(Keys)
<1> DEFINE all == {Problems[c] : c \in Clusters}
<1>1. IsFiniteSet(all)
  <2>1. PICK f : f = [c \in Clusters |-> Problems[c]]
    OBVIOUS
  <2>2. f \in Surjection(Clusters, all)
    BY <2>1 DEF Surjection
  <2> QED BY <2>2, FS_Surjection, WeeklyConstants
<1>2. \A S \in all : IsFiniteSet(S)
  BY WeeklyConstants
<1>3. IsFiniteSet(UNION all)
  BY <1>1, <1>2, FS_UNION
<1> QED BY <1>3 DEF Keys

LEMMA ClusterOfType ==
  ASSUME NEW k \in Keys
  PROVE  ClusterOf(k) \in Clusters
BY DEF Keys, ClusterOf

LEMMA StateFields ==
  ASSUME NEW st \in State
  PROVE  /\ st.lastSlot \in Slots \cup {None} /\ st.reports \in Seq(Report)
         /\ st.firstSeen \in [Keys -> Times \cup {None}]
         /\ st = [lastSlot |-> st.lastSlot, reports |-> st.reports, firstSeen |-> st.firstSeen]
BY DEF State

\* The report that a build adds, and the state with it.
Made(scanned, keys) ==
  [created |-> now, scanned |-> scanned, keys |-> keys, new |-> Diff(scanned, keys).new,
   fixed |-> Diff(scanned, keys).fixed]

LEMMA AddedState ==
  ASSUME store \in State, now \in Times, NEW scanned \in SUBSET Clusters, NEW keys \in SUBSET Keys,
         scanned # {}
  PROVE  LET st == Added(scanned, keys) IN
         /\ st \in State /\ st.lastSlot = store.lastSlot
         /\ st.reports = Append(store.reports, Made(scanned, keys))
         /\ st.firstSeen = Seen(scanned, keys)
<1>1. Diff(scanned, keys).new \in Nat /\ Diff(scanned, keys).fixed \in Nat
  <2>1. CASE store.reports = <<>>
    BY <2>1 DEF Diff
  <2>2. CASE store.reports # <<>>
    <3>1. Latest \in Report
      BY <2>2, StateFields DEF Latest, Last
    <3>2. NewKeys(scanned, keys) \subseteq Keys /\ FixedKeys(scanned, keys) \subseteq Keys
      BY <3>1 DEF NewKeys, FixedKeys, In, Report
    <3>3. Cardinality(NewKeys(scanned, keys)) \in Nat /\ Cardinality(FixedKeys(scanned, keys)) \in Nat
      BY <3>2, FiniteKeys, FS_Subset, FS_CardinalityType
    <3> QED BY <2>2, <3>3 DEF Diff
  <2> QED BY <2>1, <2>2
<1>2. Made(scanned, keys) \in Report
  BY <1>1 DEF Made, Report
<1>3. PICK rs : rs = Append(store.reports, Made(scanned, keys))
  OBVIOUS
<1>4. rs \in Seq(Report)
  BY <1>2, <1>3, StateFields
<1>5. Seen(scanned, keys) \in [Keys -> Times \cup {None}]
  <2>1. \A k \in Keys : store.firstSeen[k] \in Times \cup {None}
    BY StateFields
  <2> QED BY <2>1 DEF Seen
<1>6. PICK seen : seen = Seen(scanned, keys)
  OBVIOUS
<1>7. Added(scanned, keys) = [store EXCEPT !.reports = rs, !.firstSeen = seen]
  BY <1>3, <1>6 DEF Added, Made
<1>8. Added(scanned, keys) = [lastSlot |-> store.lastSlot, reports |-> rs, firstSeen |-> seen]
  BY <1>7, StateFields
<1> QED BY <1>3, <1>4, <1>5, <1>6, <1>8, StateFields DEF State

LEMMA MarkedState ==
  ASSUME NEW st \in State, NEW s \in Slots
  PROVE  LET new == [st EXCEPT !.lastSlot = s] IN
         /\ new \in State /\ new.lastSlot = s
         /\ new.reports = st.reports /\ new.firstSeen = st.firstSeen
<1>1. [st EXCEPT !.lastSlot = s] = [lastSlot |-> s, reports |-> st.reports, firstSeen |-> st.firstSeen]
  BY StateFields
<1> QED BY <1>1, StateFields DEF State

\* What a step makes of the store, and what may be on disk after it.
LEMMA StoreSteps ==
  ASSUME TypeOK, Next
  PROVE  \/ UNCHANGED <<store, disk>>
         \/ Boot
         \/ \E s \in Slots : store' = [store EXCEPT !.lastSlot = s] /\ disk' \in {disk, store'}
         \/ \E scanned \in SUBSET Clusters, keys \in SUBSET Keys :
              Build(scanned, keys) /\ store' = Added(scanned, keys) /\ disk' \in {disk, store'}
<1>1. \A s : Mark(s) => store' = [store EXCEPT !.lastSlot = s] /\ disk' \in {disk, store'}
  BY DEF Mark, Save
<1>2. Slot \in Slots
  BY SlotIsLast DEF TypeOK
<1>3. CheckFirst => Mark(Slot)
  BY DEF CheckFirst
<1>4. CheckTooLate => Mark(Slot)
  BY DEF CheckTooLate
<1>5. CheckMarks => Mark(accepted) /\ accepted \in Slots
  BY DEF CheckMarks, TypeOK
<1>6. ASSUME NEW scanned \in SUBSET Clusters, NEW keys \in SUBSET Keys, Build(scanned, keys)
      PROVE  store' = Added(scanned, keys) /\ disk' \in {disk, store'}
  BY <1>6 DEF Build, Save
<1>7. CheckFires \/ EndJob \/ Advance \/ Crash \/ (\E kind \in {"asked", "other"} : Demand(kind))
        => UNCHANGED <<store, disk>>
  BY DEF CheckFires, EndJob, Advance, Crash, Demand
<1> HIDE DEF Slot
<1> QED BY <1>1, <1>2, <1>3, <1>4, <1>5, <1>6, <1>7 DEF Next

LEMMA WeeklyTypes == Spec => []TypeOK
<1>1. Init => TypeOK
  <2>1. Empty \in State
    <3>1. <<>> \in Seq(Report)
      OBVIOUS
    <3> QED BY <3>1 DEF Empty, State
  <2>2. 0 \in Times /\ 0 \in Nat
    BY TimesType DEF Times
  <2> QED BY <2>1, <2>2 DEF Init, TypeOK
<1>2. TypeOK /\ [Next]_vars => TypeOK'
  <2> SUFFICES ASSUME TypeOK, [Next]_vars PROVE TypeOK'
    OBVIOUS
  <2>1. CASE UNCHANGED vars
    BY <2>1 DEF vars, TypeOK
  <2>2. CASE Next
    <3>1. store' \in State /\ disk' \in State
      <4>1. CASE Boot
        BY <4>1 DEF Boot, TypeOK
      <4>2. ASSUME NEW s \in Slots, store' = [store EXCEPT !.lastSlot = s], disk' \in {disk, store'}
            PROVE  store' \in State /\ disk' \in State
        <5>1. store' \in State
          BY <4>2, MarkedState DEF TypeOK
        <5> QED BY <4>2, <5>1 DEF TypeOK
      <4>3. ASSUME NEW scanned \in SUBSET Clusters, NEW keys \in SUBSET Keys, Build(scanned, keys),
                   store' = Added(scanned, keys), disk' \in {disk, store'}
            PROVE  store' \in State /\ disk' \in State
        <5>1. store' \in State
          BY <4>3, AddedState DEF TypeOK, Build
        <5> QED BY <4>3, <5>1 DEF TypeOK
      <4> QED BY <2>2, <4>1, <4>2, <4>3, StoreSteps DEF TypeOK
    <3>2. Slot \in Slots
      BY SlotIsLast DEF TypeOK
    <3> HIDE DEF Slot
    <3>3. now' \in Times
      <4>1. CASE Advance
        BY <4>1, TimesType DEF Advance, TypeOK, Times
      <4> QED BY <2>2, <4>1 DEF Next, CheckFirst, CheckTooLate, CheckFires, CheckMarks, Demand,
                                Build, EndJob, Crash, Boot, TypeOK
    <3>4. gaps' \in Nat
      BY <2>2 DEF Next, CheckFirst, CheckTooLate, CheckFires, CheckMarks, Demand, Build,
                  EndJob, Advance, Crash, Boot, TypeOK
    <3>5. /\ busy' \in {None, "scheduled", "asked", "other"} /\ accepted' \in Slots \cup {None}
          /\ up' \in BOOLEAN
      BY <2>2, <3>2 DEF Next, CheckFirst, CheckTooLate, CheckFires, CheckMarks, Demand, Build,
                        EndJob, Advance, Crash, Boot, TypeOK
    <3>6. first' \subseteq Slots
      BY <2>2, <3>2 DEF Next, CheckFirst, CheckTooLate, CheckFires, CheckMarks, Demand, Build,
                        EndJob, Advance, Crash, Boot, TypeOK
    <3>7. fires' \in [Slots -> Nat] /\ again' \in Nat
      <4>1. CASE CheckFires
        <5>1. fires[Slot] \in Nat /\ fires[Slot] + 1 \in Nat
          BY <3>2 DEF TypeOK
        <5>2. fires' = [fires EXCEPT ![Slot] = fires[Slot] + 1] /\ again' \in {again, again + 1}
          BY <4>1 DEF CheckFires, TypeOK
        <5> QED BY <3>2, <5>1, <5>2 DEF TypeOK
      <4>2. CASE ~CheckFires
        BY <2>2, <4>2 DEF Next, CheckFirst, CheckTooLate, CheckMarks, Demand, Build, EndJob,
                          Advance, Crash, Boot, TypeOK
      <4> QED BY <4>1, <4>2
    <3> QED BY <3>1, <3>3, <3>4, <3>5, <3>6, <3>7 DEF TypeOK
  <2> QED BY <2>1, <2>2
<1> QED BY <1>1, <1>2, PTL DEF Spec

\* The weekly report's state has its types: times and slots within the horizon, reports
\* about clusters and keys there are (runner.go, report.go).
THEOREM WeeklyTypeCorrect == Spec => []TypeOK
BY WeeklyTypes

-----------------------------------------------------------------------------
(* A slot's report is started again only after a crash *)

\* The record that check goes by: of a process that is down, the one it will boot from.
Record == IF up THEN store ELSE disk

\* A slot that was started, and that the record does not show: its job may be started again.
MayRepeat ==
  /\ accepted = None /\ Record.lastSlot # None
  /\ \E s \in Slots : fires[s] > 0 /\ s > Record.lastSlot

\* Starts are not of the future; the one that is not marked yet is the last; and a repeat
\* that may still come has its crash counted already.
RepeatInv ==
  /\ \A s \in Slots : fires[s] > 0 => s <= now
  /\ accepted # None => \A s \in Slots : fires[s] > 0 => s <= accepted
  /\ again <= gaps
  /\ MayRepeat => again + 1 <= gaps

\* A record that shows the last start leaves nothing to repeat.
LEMMA NoneToRepeat ==
  ASSUME RepeatInv, UNCHANGED <<fires, now, again, gaps>>, accepted' = None, up, up',
         NEW s \in Slots, store' = [store EXCEPT !.lastSlot = s], store \in State,
         \A r \in Slots : fires[r] > 0 => r <= s
  PROVE  RepeatInv'
<1>1. Record'.lastSlot = s
  BY StateFields DEF Record
<1>2. \A r \in Slots : r \in Nat
  BY DEF Slots, Times
<1>3. ~MayRepeat'
  BY <1>1, <1>2 DEF MayRepeat
<1> QED BY <1>3 DEF RepeatInv

LEMMA RepeatStep ==
  ASSUME TypeOK, RepeatInv, Next
  PROVE  RepeatInv'
<1>0. /\ again \in Nat /\ gaps \in Nat /\ now \in Nat /\ store \in State /\ disk \in State
      /\ \A s \in Slots : s \in Nat /\ fires[s] \in Nat
  BY TimesType DEF TypeOK, Slots
<1>1. Slot \in Slots /\ Slot <= now /\ \A s \in Slots : s <= now => s <= Slot
  BY SlotIsLast DEF TypeOK
<1>2. \A s \in Slots : fires[s] > 0 => s <= Slot
  BY <1>1 DEF RepeatInv
<1> HIDE DEF Slot
<1>3. CASE CheckFirst
  <2>1. store' = [store EXCEPT !.lastSlot = Slot] /\ accepted' = None
    BY <1>3 DEF CheckFirst, Mark, Save
  <2> QED BY <1>0, <1>1, <1>2, <1>3, <2>1, NoneToRepeat DEF CheckFirst
<1>4. CASE CheckTooLate
  <2>1. store' = [store EXCEPT !.lastSlot = Slot] /\ accepted' = None
    BY <1>4 DEF CheckTooLate, Mark, Save
  <2> QED BY <1>0, <1>1, <1>2, <1>4, <2>1, NoneToRepeat DEF CheckTooLate
<1>5. CASE CheckMarks
  <2>1. store' = [store EXCEPT !.lastSlot = accepted] /\ accepted \in Slots
    BY <1>5 DEF CheckMarks, Mark, Save, TypeOK
  <2>2. \A s \in Slots : fires[s] > 0 => s <= accepted
    BY <1>5 DEF CheckMarks, RepeatInv
  <2> QED BY <1>0, <1>5, <2>1, <2>2, NoneToRepeat DEF CheckMarks
<1>6. CASE CheckFires
  <2>1. /\ accepted = None /\ accepted' = Slot /\ up /\ store.lastSlot # None /\ Slot > store.lastSlot
        /\ fires' = [fires EXCEPT ![Slot] = fires[Slot] + 1]
        /\ UNCHANGED <<now, gaps>>
    BY <1>6 DEF CheckFires, Due, Unrecorded, TypeOK
  <2>2. \A s \in Slots : fires'[s] > 0 => fires[s] > 0 \/ s = Slot
    BY <1>0, <1>1, <2>1 DEF TypeOK
  <2>3. Slot # None
    BY <1>0, <1>1, WeeklyConstants
  <2>4. again' <= gaps
    <3>1. CASE fires[Slot] > 0
      <4>1. MayRepeat
        BY <1>1, <2>1, <3>1 DEF MayRepeat, Record
      <4>2. again' = again + 1
        BY <1>6, <3>1 DEF CheckFires
      <4> QED BY <4>1, <4>2 DEF RepeatInv
    <3>2. CASE ~(fires[Slot] > 0)
      <4>1. again' = again
        BY <1>0, <1>6, <3>2 DEF CheckFires
      <4> QED BY <4>1 DEF RepeatInv
    <3> QED BY <3>1, <3>2
  <2>5. \A s \in Slots : fires'[s] > 0 => s <= Slot /\ s <= now
    BY <1>0, <1>1, <1>2, <2>2
  <2>6. ~MayRepeat'
    BY <2>1, <2>3 DEF MayRepeat
  <2> QED BY <2>1, <2>4, <2>5, <2>6 DEF RepeatInv
<1>7. CASE Crash
  <2>1. /\ up' = FALSE /\ accepted' = None /\ UNCHANGED <<now, disk, fires, again>>
        /\ gaps' = gaps + (IF Gap THEN 1 ELSE 0)
    BY <1>7 DEF Crash
  <2>2. MayRepeat' => Gap
    <3> SUFFICES ASSUME MayRepeat' PROVE Gap
      OBVIOUS
    <3>1. PICK s \in Slots : fires[s] > 0 /\ s > disk.lastSlot /\ disk.lastSlot # None
      BY <2>1 DEF MayRepeat, Record
    <3>2. disk.lastSlot \in Nat
      BY <1>0, <3>1, StateFields
    <3> QED BY <1>0, <3>1, <3>2 DEF Gap
  <2>3. again <= gaps
    BY DEF RepeatInv
  <2>4. again' <= gaps' /\ (Gap => again' + 1 <= gaps')
    BY <1>0, <2>1, <2>3
  <2> QED BY <2>1, <2>2, <2>4 DEF RepeatInv
<1>8. CASE Boot
  <2>1. Record' = Record /\ UNCHANGED <<now, fires, again, gaps, accepted>>
    BY <1>8 DEF Boot, Record
  <2> QED BY <2>1 DEF RepeatInv, MayRepeat
<1>9. CASE Advance
  <2>1. Record' = Record /\ UNCHANGED <<fires, again, gaps, accepted>> /\ now' = now + 1
    BY <1>9 DEF Advance, Record
  <2>2. \A s \in Slots : fires[s] > 0 => s <= now'
    BY <1>0, <2>1 DEF RepeatInv
  <2> QED BY <2>1, <2>2 DEF RepeatInv, MayRepeat
<1>10. ASSUME NEW scanned \in SUBSET Clusters, NEW keys \in SUBSET Keys, Build(scanned, keys)
       PROVE  RepeatInv'
  <2>1. /\ store' = Added(scanned, keys) /\ up /\ UNCHANGED <<now, fires, again, gaps, accepted, up>>
        /\ scanned # {}
    BY <1>10 DEF Build, Save
  <2>2. store'.lastSlot = store.lastSlot
    BY <1>0, <2>1, AddedState DEF TypeOK
  <2>3. Record'.lastSlot = Record.lastSlot
    BY <2>1, <2>2 DEF Record
  <2> QED BY <2>1, <2>3 DEF RepeatInv, MayRepeat
<1>11. CASE EndJob \/ \E kind \in {"asked", "other"} : Demand(kind)
  <2>1. Record' = Record /\ UNCHANGED <<now, fires, again, gaps, accepted>>
    BY <1>11 DEF EndJob, Demand, Record
  <2> QED BY <2>1 DEF RepeatInv, MayRepeat
<1> QED BY <1>3, <1>4, <1>5, <1>6, <1>7, <1>8, <1>9, <1>10, <1>11 DEF Next

\* A slot's report is started once; again only after a crash that came before the mark was
\* on disk, once for each such crash.
THEOREM RepeatsHaveACrash == Spec => []AgainOnlyAfterACrash
<1>1. Init => RepeatInv
  BY DEF Init, RepeatInv, MayRepeat, Record, Empty
<1>2. TypeOK /\ RepeatInv /\ [Next]_vars => RepeatInv'
  <2> SUFFICES ASSUME TypeOK, RepeatInv, [Next]_vars PROVE RepeatInv'
    OBVIOUS
  <2>1. CASE UNCHANGED vars
    BY <2>1 DEF vars, RepeatInv, MayRepeat, Record
  <2> QED BY <2>1, RepeatStep
<1>3. RepeatInv => AgainOnlyAfterACrash
  BY DEF RepeatInv, AgainOnlyAfterACrash
<1> QED BY <1>1, <1>2, <1>3, WeeklyTypes, PTL DEF Spec

-----------------------------------------------------------------------------
(* The history of a problem *)

ReadBy(st, c) == {i \in 1..Len(st.reports) : c \in st.reports[i].scanned}
Row(st, k, read) == {i \in read : \A j \in read : j >= i => k \in st.reports[j].keys}

\* last is the last report that could read k's cluster.
LastRead(st, c, last) == last \in ReadBy(st, c) /\ \A i \in ReadBy(st, c) : i <= last

\* k is closed, or open since the first report of the row that ends with the last one.
RowRight(st, k) ==
  LET read == ReadBy(st, ClusterOf(k)) IN
  \/ read = {} /\ st.firstSeen[k] = None
  \/ \E last \in read :
       LastRead(st, ClusterOf(k), last) /\ k \notin st.reports[last].keys /\ st.firstSeen[k] = None
  \/ \E last, m \in read :
       /\ LastRead(st, ClusterOf(k), last) /\ k \in st.reports[last].keys
       /\ m \in Row(st, k, read) /\ \A i \in Row(st, k, read) : m <= i
       /\ st.firstSeen[k] = st.reports[m].created

\* What the latest report calls new is what it is the first to have seen.
NewRight(st) ==
  Len(st.reports) >= 2 =>
    LET before == st.reports[Len(st.reports) - 1]
        latest == st.reports[Len(st.reports)] IN
    latest.new = Cardinality({k \in In(latest.keys, before.scanned) :
                                st.firstSeen[k] = latest.created})

History(st) == (\A k \in Keys : RowRight(st, k)) /\ NewRight(st)

\* Nothing but a build touches a history.
LEMMA SameHistory ==
  ASSUME NEW st, NEW new, History(st), new.reports = st.reports, new.firstSeen = st.firstSeen
  PROVE  History(new)
BY DEF History, RowRight, NewRight, ReadBy, Row, LastRead

\* What a build of the clusters scanned makes of a history.
LEMMA AddedRows ==
  ASSUME store \in State, now \in Times, History(store),
         NEW scanned \in SUBSET Clusters, NEW keys \in SUBSET Keys, scanned # {},
         Collected(scanned, keys)
  PROVE  \A k \in Keys : RowRight(Added(scanned, keys), k)
<1>1. PICK st : st = Added(scanned, keys)
  OBVIOUS
<1>2. PICK rs, len : /\ rs = store.reports /\ rs \in Seq(Report)
                     /\ len \in Nat /\ Len(rs) = len /\ DOMAIN rs = 1..len
  <2>1. PICK rs : rs = store.reports
    OBVIOUS
  <2>2. rs \in Seq(Report)
    BY <2>1, StateFields
  <2>3. PICK len : len = Len(rs)
    OBVIOUS
  <2>4. len \in Nat /\ DOMAIN rs = 1..len
    BY <2>2, <2>3
  <2> QED BY <2>1, <2>2, <2>3, <2>4
<1>3. PICK new : new = Made(scanned, keys)
  OBVIOUS
<1>4. /\ st.reports = Append(rs, new) /\ st.firstSeen = Seen(scanned, keys)
      /\ new.created = now /\ new.scanned = scanned /\ new.keys = keys
  BY <1>1, <1>2, <1>3, AddedState DEF Made
<1>5. PICK all : all = st.reports
  OBVIOUS
<1>6. /\ Len(all) = len + 1 /\ all[len + 1] = new
      /\ \A i \in 1..len : all[i] = rs[i]
  BY <1>2, <1>4, <1>5
<1> SUFFICES ASSUME NEW k \in Keys PROVE RowRight(st, k)
  BY <1>1
<1>7. PICK c \in Clusters : c = ClusterOf(k)
  BY ClusterOfType
<1>8. RowRight(store, k)
  BY DEF History
<1>9. PICK old : old = ReadBy(store, c)
  OBVIOUS
<1>10. PICK read : read = ReadBy(st, c)
  OBVIOUS
<1>11. old \subseteq 1..len /\ \A i \in 1..len : i \in old <=> c \in rs[i].scanned
  BY <1>2, <1>9 DEF ReadBy
<1>12. \A i : i \in read <=> i \in 1..(len + 1) /\ c \in all[i].scanned
  BY <1>5, <1>6, <1>10 DEF ReadBy
<1>13. \A i : i \in read <=> i \in old \/ (i = len + 1 /\ c \in scanned)
  <2>1. \A i \in 1..len : i \in read <=> i \in old
    BY <1>2, <1>6, <1>11, <1>12
  <2>2. len + 1 \in read <=> c \in scanned
    BY <1>2, <1>4, <1>6, <1>12
  <2>3. len + 1 \notin old
    BY <1>2, <1>11
  <2> SUFFICES ASSUME NEW i PROVE i \in read <=> i \in old \/ (i = len + 1 /\ c \in scanned)
    OBVIOUS
  <2>4. CASE i = len + 1
    BY <2>2, <2>3, <2>4
  <2>5. CASE i # len + 1 /\ i \in 1..len
    BY <2>1, <2>5
  <2>6. CASE i # len + 1 /\ i \notin 1..len
    <3>1. i \notin 1..(len + 1)
      BY <1>2, <2>6
    <3>2. i \notin read
      BY <1>12, <3>1
    <3>3. i \notin old
      BY <1>11, <2>6
    <3> QED BY <2>6, <3>2, <3>3
  <2> QED BY <2>4, <2>5, <2>6
<1>14. st.firstSeen[k] = IF k \notin keys /\ c \notin scanned THEN store.firstSeen[k]
                         ELSE IF k \notin keys THEN None
                         ELSE IF store.firstSeen[k] = None THEN now ELSE store.firstSeen[k]
  BY <1>4, <1>7 DEF Seen
<1>15. CASE c \notin scanned
  <2>1. k \notin keys
    BY <1>7, <1>15 DEF Collected, In
  <2>2. read = old /\ st.firstSeen[k] = store.firstSeen[k]
    BY <1>13, <1>14, <1>15, <2>1
  <2>3. \A i \in old : all[i] = store.reports[i]
    BY <1>2, <1>6, <1>11
  <2>4. Row(st, k, read) = Row(store, k, old)
    BY <1>5, <2>2, <2>3 DEF Row
  <2>5. \A i : LastRead(st, c, i) <=> LastRead(store, c, i)
    BY <1>9, <1>10, <2>2 DEF LastRead
  <2> QED BY <1>5, <1>7, <1>8, <1>9, <1>10, <2>2, <2>3, <2>4, <2>5 DEF RowRight
<1>16. CASE c \in scanned
  <2>1. len + 1 \in read /\ LastRead(st, c, len + 1)
    <3>1. len + 1 \in read
      BY <1>13, <1>16
    <3>2. \A i \in old : i <= len + 1
      BY <1>2, <1>11
    <3>3. \A i \in read : i <= len + 1
      BY <1>2, <1>13, <3>2
    <3>4. \A i \in read : len + 1 >= i
      <4> SUFFICES ASSUME NEW i \in read PROVE len + 1 >= i
        OBVIOUS
      <4>1. i \in Nat
        BY <1>12
      <4> QED BY <1>2, <3>3, <4>1
    <3> QED BY <1>10, <3>1, <3>4 DEF LastRead
  <2>2. CASE k \notin keys
    <3>1. st.firstSeen[k] = None /\ k \notin st.reports[len + 1].keys
      BY <1>4, <1>5, <1>6, <1>14, <1>16, <2>2
    <3> QED BY <1>7, <1>10, <2>1, <3>1 DEF RowRight
  <2>3. CASE k \in keys
    <3>1. k \in st.reports[len + 1].keys /\ st.reports[len + 1].created = now
      BY <1>4, <1>5, <1>6, <2>3
    <3>2. \A i : i \in Row(st, k, read) <=> i \in Row(store, k, old) \/ i = len + 1
      <4>1. \A i \in old : st.reports[i] = store.reports[i]
        BY <1>2, <1>5, <1>6, <1>11
      <4>2. \A j \in read : j = len + 1 \/ (j \in old /\ ~ (j >= len + 1))
        <5>1. \A j \in 1..len : ~ (j >= len + 1)
          BY <1>2
        <5> QED BY <1>2, <1>11, <1>13, <5>1
      <4>3. \A j \in old : j \in read /\ j # len + 1 /\ len + 1 >= j
        <5>1. \A j \in 1..len : j # len + 1 /\ len + 1 >= j
          BY <1>2
        <5> QED BY <1>11, <1>13, <5>1
      <4> SUFFICES ASSUME NEW i
                   PROVE  i \in Row(st, k, read) <=> i \in Row(store, k, old) \/ i = len + 1
        OBVIOUS
      <4>4. CASE i = len + 1
        BY <2>1, <3>1, <4>1, <4>2, <4>4 DEF Row
      <4>5. CASE i # len + 1
        <5>1. i \in read <=> i \in old
          BY <4>2, <4>3, <4>5
        <5>2. ASSUME i \in Row(st, k, read) PROVE i \in Row(store, k, old)
          BY <4>1, <4>3, <5>1, <5>2 DEF Row
        <5>3. ASSUME i \in Row(store, k, old) PROVE i \in Row(st, k, read)
          BY <3>1, <4>1, <4>2, <5>1, <5>3 DEF Row
        <5> QED BY <4>5, <5>2, <5>3
      <4> QED BY <4>4, <4>5
    <3>3. CASE \E last, m \in old :
                 /\ k \in store.reports[last].keys
                 /\ m \in Row(store, k, old) /\ \A i \in Row(store, k, old) : m <= i
                 /\ store.firstSeen[k] = store.reports[m].created
      <4>1. PICK m \in old : /\ m \in Row(store, k, old) /\ \A i \in Row(store, k, old) : m <= i
                             /\ store.firstSeen[k] = store.reports[m].created
        BY <3>3
      <4>2. m \in read /\ m \in Row(st, k, read)
        BY <1>13, <3>2, <4>1
      <4>3. \A i \in Row(st, k, read) : m <= i
        BY <1>2, <1>11, <3>2, <4>1
      <4>4. store.reports[m].created \in Nat
        <5>1. m \in DOMAIN rs
          BY <1>2, <1>11
        <5>2. rs[m] \in Report
          BY <1>2, <5>1
        <5>3. rs[m].created \in Times
          BY <5>2 DEF Report
        <5> QED BY <1>2, <5>3, TimesType
      <4>5. st.firstSeen[k] = st.reports[m].created
        <5>1. store.firstSeen[k] # None
          BY <4>1, <4>4, WeeklyConstants
        <5>2. st.reports[m] = store.reports[m]
          BY <1>2, <1>5, <1>6, <1>11
        <5> QED BY <1>14, <2>3, <4>1, <5>1, <5>2
      <4> QED BY <1>7, <1>10, <2>1, <3>1, <4>2, <4>3, <4>5 DEF RowRight
    <3>4. CASE store.firstSeen[k] = None /\ Row(store, k, old) = {}
      <4>1. st.firstSeen[k] = now
        BY <1>14, <2>3, <3>4
      <4>2. len + 1 \in Row(st, k, read) /\ \A i \in Row(st, k, read) : len + 1 <= i
        BY <1>2, <3>2, <3>4
      <4> QED BY <1>7, <1>10, <2>1, <3>1, <4>1, <4>2 DEF RowRight
    <3>5. CASE \E last \in old : /\ LastRead(store, c, last) /\ k \notin store.reports[last].keys
                                 /\ store.firstSeen[k] = None
      <4>1. PICK last \in old : LastRead(store, c, last) /\ k \notin store.reports[last].keys
        BY <3>5
      <4>2. \A i \in old : last >= i
        BY <1>9, <1>11, <4>1 DEF LastRead
      <4>3. Row(store, k, old) = {}
        BY <4>1, <4>2 DEF Row
      <4> QED BY <3>4, <3>5, <4>3
    <3>6. CASE old = {} /\ store.firstSeen[k] = None
      <4>1. Row(store, k, old) = {}
        BY <3>6 DEF Row
      <4> QED BY <3>4, <3>6, <4>1
    <3> QED BY <1>7, <1>8, <1>9, <3>3, <3>5, <3>6 DEF RowRight
  <2> QED BY <2>2, <2>3
<1> QED BY <1>15, <1>16

LEMMA AddedNew ==
  ASSUME store \in State, now \in Times, History(store),
         NEW scanned \in SUBSET Clusters, NEW keys \in SUBSET Keys, scanned # {},
         Collected(scanned, keys),
         \A i \in 1..Len(store.reports) : store.reports[i].created < now
  PROVE  NewRight(Added(scanned, keys))
<1>1. PICK st : st = Added(scanned, keys)
  OBVIOUS
<1>2. PICK rs, len : /\ rs = store.reports /\ rs \in Seq(Report)
                     /\ len \in Nat /\ Len(rs) = len /\ DOMAIN rs = 1..len
  <2>1. PICK rs : rs = store.reports
    OBVIOUS
  <2>2. rs \in Seq(Report)
    BY <2>1, StateFields
  <2>3. PICK len : len = Len(rs)
    OBVIOUS
  <2>4. len \in Nat /\ DOMAIN rs = 1..len
    BY <2>2, <2>3
  <2> QED BY <2>1, <2>2, <2>3, <2>4
<1>3. PICK new : new = Made(scanned, keys)
  OBVIOUS
<1>4. /\ st.reports = Append(rs, new) /\ st.firstSeen = Seen(scanned, keys)
      /\ new.created = now /\ new.keys = keys /\ new.new = Diff(scanned, keys).new
  BY <1>1, <1>2, <1>3, AddedState DEF Made
<1>5. PICK all : all = st.reports
  OBVIOUS
<1>6. /\ Len(all) = len + 1 /\ all[len + 1] = new
      /\ \A i \in 1..len : all[i] = rs[i]
  BY <1>2, <1>4, <1>5
<1> SUFFICES ASSUME len >= 1 PROVE NewRight(st)
  BY <1>1, <1>2, <1>5, <1>6 DEF NewRight
<1>7. rs # <<>> /\ Latest = rs[len] /\ rs[len] \in Report
  BY <1>2 DEF Latest, Last
<1>8. PICK before : before = rs[len]
  OBVIOUS
<1>9. new.new = Cardinality(NewKeys(scanned, keys))
  BY <1>2, <1>4, <1>7 DEF Diff
<1>10. NewKeys(scanned, keys) = In(keys, scanned \cap before.scanned) \ before.keys
  BY <1>2, <1>7, <1>8 DEF NewKeys, Compared
<1>11. ASSUME NEW k \in keys, ClusterOf(k) \in before.scanned
       PROVE  st.firstSeen[k] = now <=> k \notin before.keys
  <2>1. RowRight(store, k) /\ k \in Keys
    BY DEF History
  <2>2. PICK old : old = ReadBy(store, ClusterOf(k))
    OBVIOUS
  <2>3. old \subseteq 1..len /\ len \in old
    BY <1>2, <1>8, <1>11, <2>2 DEF ReadBy
  <2>4. \A last \in old : LastRead(store, ClusterOf(k), last) => last = len
    BY <2>2, <2>3 DEF LastRead
  <2>5. st.firstSeen[k] = IF store.firstSeen[k] = None THEN now ELSE store.firstSeen[k]
    BY <1>4 DEF Seen
  <2>6. CASE k \notin before.keys
    <3>1. store.firstSeen[k] = None
      BY <1>2, <1>8, <2>1, <2>2, <2>3, <2>4, <2>6 DEF RowRight
    <3> QED BY <2>5, <2>6, <3>1
  <2>7. CASE k \in before.keys
    <3>1. PICK m \in old : store.firstSeen[k] = store.reports[m].created
      BY <1>2, <1>8, <2>1, <2>2, <2>3, <2>4, <2>7 DEF RowRight
    <3>2. store.reports[m].created \in Nat /\ store.reports[m].created < now
      <4>1. m \in DOMAIN rs
        BY <1>2, <2>3
      <4>2. rs[m] \in Report
        BY <1>2, <4>1
      <4>3. rs[m].created \in Times
        BY <4>2 DEF Report
      <4> QED BY <1>2, <4>1, <4>3, TimesType
    <3>3. store.firstSeen[k] # None /\ store.firstSeen[k] # now
      BY <3>1, <3>2, WeeklyConstants
    <3> QED BY <2>5, <2>7, <3>3
  <2> QED BY <2>6, <2>7
<1>12. In(keys, scanned \cap before.scanned) \ before.keys
         = {k \in In(keys, before.scanned) : st.firstSeen[k] = now}
  <2>1. \A k \in keys : ClusterOf(k) \in scanned
    BY DEF Collected, In
  <2> QED BY <1>11, <2>1 DEF In
<1>13. all[len + 1 - 1] = before /\ len + 1 - 1 = len
  BY <1>2, <1>6, <1>8
<1>14. PICK n : n = Len(st.reports)
  OBVIOUS
<1>15. n = len + 1 /\ st.reports[n] = new /\ st.reports[n - 1] = before
  BY <1>2, <1>5, <1>6, <1>13, <1>14
<1>16. new.new = Cardinality({k \in In(new.keys, before.scanned) : st.firstSeen[k] = new.created})
  BY <1>4, <1>9, <1>10, <1>12
<1> QED BY <1>14, <1>15, <1>16 DEF NewRight

LEMMA HistoryInvariant == Spec => [](History(store) /\ History(disk))
<1>1. Init => History(store) /\ History(disk)
  <2>1. History(Empty)
    <3>1. /\ Len(Empty.reports) = 0 /\ \A k \in Keys : Empty.firstSeen[k] = None
          /\ \A c : ReadBy(Empty, c) = {}
      BY DEF Empty, ReadBy
    <3> QED BY <3>1 DEF History, RowRight, NewRight
  <2> QED BY <2>1 DEF Init
<1>2. TypeOK /\ History(store) /\ History(disk) /\ [Next]_vars => (History(store) /\ History(disk))'
  <2> SUFFICES ASSUME TypeOK, History(store), History(disk), [Next]_vars
               PROVE  History(store') /\ History(disk')
    BY DEF History, RowRight, NewRight, ReadBy, Row, LastRead
  <2>1. CASE UNCHANGED vars
    BY <2>1 DEF vars
  <2>2. CASE Next
    <3>1. CASE UNCHANGED <<store, disk>>
      BY <3>1
    <3>2. CASE Boot
      BY <3>2 DEF Boot
    <3>3. ASSUME NEW s \in Slots, store' = [store EXCEPT !.lastSlot = s], disk' \in {disk, store'}
          PROVE  History(store') /\ History(disk')
      <4>1. store'.reports = store.reports /\ store'.firstSeen = store.firstSeen
        BY <3>3, MarkedState DEF TypeOK
      <4>2. History(store')
        BY <4>1, SameHistory
      <4> QED BY <3>3, <4>2
    <3>4. ASSUME NEW scanned \in SUBSET Clusters, NEW keys \in SUBSET Keys, Build(scanned, keys),
                 store' = Added(scanned, keys), disk' \in {disk, store'}
          PROVE  History(store') /\ History(disk')
      <4>1. /\ Collected(scanned, keys) /\ scanned # {} /\ store \in State /\ now \in Times
            /\ \A i \in 1..Len(store.reports) : store.reports[i].created < now
        BY <3>4 DEF Build, TypeOK
      <4>2. History(Added(scanned, keys))
        BY <4>1, AddedRows, AddedNew DEF History
      <4> QED BY <3>4, <4>2
    <3> QED BY <2>2, <3>1, <3>2, <3>3, <3>4, StoreSteps
  <2> QED BY <2>1, <2>2
<1> QED BY <1>1, <1>2, WeeklyTypes, PTL DEF Spec

\* A problem counts as open since the first report of the unbroken row that saw it, and what
\* the latest report calls new is what it is the first to have seen.
THEOREM AgesAreRight == Spec => []HistoryRight
<1>1. TypeOK /\ History(store) => HistoryRight
  <2> SUFFICES ASSUME TypeOK, History(store) PROVE HistoryRight
    OBVIOUS
  <2>0. PICK len \in Nat : Len(store.reports) = len /\ store.reports \in Seq(Report)
    BY StateFields DEF TypeOK
  <2>1. ASSUME NEW k \in Keys
        PROVE  LET read == ReportsThatRead(ClusterOf(k)) IN
               IF read = {} \/ k \notin store.reports[Max(read)].keys THEN store.firstSeen[k] = None
               ELSE LET row == {i \in read : \A j \in read : j >= i => k \in store.reports[j].keys} IN
                    store.firstSeen[k] = store.reports[Min(row)].created
    <3>1. PICK read : read = ReadBy(store, ClusterOf(k))
      OBVIOUS
    <3>2. ReportsThatRead(ClusterOf(k)) = read /\ read \subseteq Int
      BY <2>0, <3>1 DEF ReportsThatRead, ReadBy
    <3>3. PICK row : row = {i \in read : \A j \in read : j >= i => k \in store.reports[j].keys}
      OBVIOUS
    <3>4. Row(store, k, read) = row /\ row \subseteq Int
      BY <3>2, <3>3 DEF Row
    <3>5. \A last \in read : LastRead(store, ClusterOf(k), last) => Max(read) = last
      BY <3>1, <3>2, GreatestOf DEF LastRead
    <3>6. \A m \in row : (\A i \in row : m <= i) => Min(row) = m
      BY <3>4, LeastOf
    <3>7. \/ read = {} /\ store.firstSeen[k] = None
          \/ read # {} /\ k \notin store.reports[Max(read)].keys /\ store.firstSeen[k] = None
          \/ read # {} /\ k \in store.reports[Max(read)].keys
             /\ store.firstSeen[k] = store.reports[Min(row)].created
      <4>1. RowRight(store, k)
        BY DEF History
      <4> QED BY <3>1, <3>4, <3>5, <3>6, <4>1 DEF RowRight
    <3> QED BY <3>2, <3>3, <3>7
  <2>2. ASSUME Len(store.reports) >= 2 PROVE Latest = store.reports[Len(store.reports)]
    BY DEF Latest, Last
  <2> QED BY <2>1, <2>2 DEF HistoryRight, History, NewRight
<1> QED BY <1>1, HistoryInvariant, WeeklyTypes, PTL
=============================================================================
