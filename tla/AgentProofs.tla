---------------------------- MODULE AgentProofs ----------------------------
(***************************************************************************)
(* A turn's types, that every call has its result, that what is filtered is *)
(* the caller's, that a call which reaches a server is one the caller may   *)
(* make, that a turn's requests are bounded, and that what is cut goes from *)
(* the oldest on, for any model and servers; then that the tools offered    *)
(* for a question are whole and fairly shared, for any clusters, groups and *)
(* lists.                                                                   *)
(***************************************************************************)
EXTENDS Agent, Offer, FiniteSetTheorems, SequenceTheorems, TLAPS

-----------------------------------------------------------------------------
(* Recursion over a sequence.  The library states induction for an operator; *)
(* these state it for a set.                                                 *)

\* A set of naturals that is not empty has a least element.
LEMMA LeastNat == ASSUME NEW T, T \subseteq Nat, T # {} PROVE \E m \in T : \A n \in T : m <= n
<1>1. PICK k \in T : TRUE
  OBVIOUS
<1> DEFINE Below == {0..n : n \in {t \in T : t <= k}}
<1>2. IsWellFoundedOn(StrictSubsetOrdering(0..k), FiniteSubsetsOf(0..k))
  BY FS_StrictSubsetOrderingWellFounded
<1>3. Below \subseteq FiniteSubsetsOf(0..k) /\ Below # {}
  <2> SUFFICES ASSUME NEW b \in Below PROVE b \in FiniteSubsetsOf(0..k)
    <3>1. 0..k \in Below
      BY <1>1
    <3> QED BY <3>1
  <2>1. PICK n \in T : n <= k /\ b = 0..n
    OBVIOUS
  <2>2. b \in SUBSET (0..k) /\ 0 \in Int /\ n \in Int
    BY <1>1, <2>1
  <2>3. IsFiniteSet(b)
    BY <2>1, <2>2, FS_Interval
  <2> QED BY <2>2, <2>3 DEF FiniteSubsetsOf
<1>4. PICK r \in Below : \A q \in Below : <<q, r>> \notin StrictSubsetOrdering(0..k)
  <2> HIDE DEF Below
  <2> QED BY <1>2, <1>3, WFMin
<1>5. PICK m \in T : m <= k /\ r = 0..m
  BY <1>4
<1>6. ASSUME NEW n \in T, ~(m <= n) PROVE FALSE
  <2>1. 0..n \in Below /\ 0..n \subseteq r /\ 0..n # r /\ r \subseteq 0..k
    BY <1>1, <1>5, <1>6
  <2>2. <<0..n, r>> \in StrictSubsetOrdering(0..k)
    BY <2>1 DEF StrictSubsetOrdering
  <2> QED BY <1>4, <2>1, <2>2
<1> QED BY <1>6

LEMMA Inductive == ASSUME NEW T, 0 \in T, \A n \in Nat : n \in T => n + 1 \in T PROVE Nat \subseteq T
<1> SUFFICES ASSUME Nat \ T # {} PROVE FALSE
  OBVIOUS
<1>1. PICK m \in Nat \ T : \A n \in Nat \ T : m <= n
  BY LeastNat
<1>2. m - 1 \in Nat /\ m - 1 \in T
  BY <1>1
<1> QED BY <1>1, <1>2

Keeps(step, n, V) == \A i \in 1..n : \A v \in V : step[i][v] \in V
Follows(g, base, step, n) == g[0] = base /\ \A i \in 1..n : g[i] = step[i][g[i - 1]]

\* A recursion over the first n numbers whose steps stay in V has a solution there.
LEMMA Recursion ==
  ASSUME NEW V, NEW n \in Nat, NEW base \in V, NEW step, Keeps(step, n, V)
  PROVE  \E g \in [0..n -> V] : Follows(g, base, step, n)
<1> DEFINE Good(m, g) == g[0] = base /\ \A i \in 1..m : g[i] = step[i][g[i - 1]]
           T == {m \in Nat : m <= n => \E g \in [0..m -> V] : Good(m, g)}
<1>1. 0 \in T
  <2>1. [i \in 0..0 |-> base] \in [0..0 -> V] /\ Good(0, [i \in 0..0 |-> base])
    OBVIOUS
  <2> QED BY <2>1
<1>2. ASSUME NEW m \in Nat, m \in T PROVE m + 1 \in T
  <2> SUFFICES ASSUME m + 1 <= n PROVE \E g \in [0..(m+1) -> V] : Good(m + 1, g)
    OBVIOUS
  <2>0. m <= n /\ m + 1 \in 1..n
    OBVIOUS
  <2>1. PICK g \in [0..m -> V] : Good(m, g)
    <3> HIDE DEF Good
    <3> QED BY <1>2, <2>0
  <2> DEFINE h == [i \in 0..(m+1) |-> IF i <= m THEN g[i] ELSE step[m + 1][g[m]]]
  <2>2. h \in [0..(m+1) -> V]
    BY <2>0 DEF Keeps
  <2>3. (\A i \in 0..m : h[i] = g[i]) /\ h[m + 1] = step[m + 1][g[m]]
    OBVIOUS
  <2> HIDE DEF h
  <2>4. ASSUME NEW i \in 1..(m+1) PROVE h[i] = step[i][h[i - 1]]
    <3>1. CASE i = m + 1
      BY <2>3, <3>1
    <3>2. CASE i \in 1..m
      <4>1. i - 1 \in 0..m /\ i \in 0..m
        BY <3>2
      <4> QED BY <2>1, <2>3, <3>2, <4>1
    <3> QED BY <3>1, <3>2
  <2>5. h[0] = base
    BY <2>1, <2>3
  <2> QED BY <2>2, <2>4, <2>5
<1>3. n \in T
  <2> HIDE DEF T
  <2> QED BY <1>1, <1>2, Inductive
<1> QED BY <1>3 DEF Follows

LEMMA TotalType == ASSUME NEW s \in Seq(Nat) PROVE Total(s) \in Nat
<1> DEFINE Eq(f) == f = [n \in 0..Len(s) |-> IF n = 0 THEN 0 ELSE f[n - 1] + s[n]]
           sum == CHOOSE f : Eq(f)
<1>1. PICK len \in Nat : len = Len(s) /\ \A i \in 1..len : s[i] \in Nat
  OBVIOUS
<1>2. PICK step : \A i \in 1..len : \A v \in Nat : step[i][v] = v + s[i]
  <2>1. \A i \in 1..len : \A v \in Nat : [j \in 1..len |-> [w \in Nat |-> w + s[j]]][i][v] = v + s[i]
    OBVIOUS
  <2> QED BY <2>1
<1>3. Keeps(step, len, Nat)
  <2> SUFFICES ASSUME NEW i \in 1..len, NEW v \in Nat PROVE step[i][v] \in Nat
    BY DEF Keeps
  <2>1. s[i] \in Nat /\ step[i][v] = v + s[i]
    BY <1>1, <1>2
  <2> QED BY <2>1
<1>4. PICK g \in [0..len -> Nat] : Follows(g, 0, step, len)
  BY <1>3, Recursion
<1>5. \A i \in 1..len : g[i] = g[i - 1] + s[i]
  <2> SUFFICES ASSUME NEW i \in 1..len PROVE g[i] = g[i - 1] + s[i]
    OBVIOUS
  <2>1. g[i - 1] \in Nat /\ g[i] = step[i][g[i - 1]]
    BY <1>4 DEF Follows
  <2> QED BY <1>2, <2>1
<1>6. Eq(sum)
  <2>1. Eq(g)
    BY <1>1, <1>4, <1>5 DEF Follows
  <2> QED BY <2>1
<1>7. Total(s) = sum[len]
  BY <1>1 DEF Total
<1> HIDE DEF sum
<1> DEFINE U == {i \in Nat : i <= len => sum[i] \in Nat}
<1>8. 0 \in U
  BY <1>1, <1>6
<1>9. \A i \in Nat : i \in U => i + 1 \in U
  BY <1>1, <1>6
<1>10. len \in U
  <2> HIDE DEF U
  <2> QED BY <1>8, <1>9, Inductive
<1> QED BY <1>7, <1>10

\* What the filter keeps are records the caller may see.
LEMMA AllowedRecords ==
  ASSUME NEW R, NEW recs \in Seq(R), NEW k
  PROVE  Allowed(recs, k) \in Seq({rec \in R : RecordAllowed(rec, k)})
<1> DEFINE Eq(f) == f = [n \in 0..Len(recs) |->
                           IF n = 0 THEN <<>> ELSE KeepAllowed(f[n - 1], recs[n], k)]
           kept == CHOOSE f : Eq(f)
<1>1. PICK len \in Nat : len = Len(recs) /\ \A i \in 1..len : recs[i] \in R
  OBVIOUS
<1>2. PICK Mine : Mine = {rec \in R : RecordAllowed(rec, k)}
  OBVIOUS
<1>3. \A i \in 1..len : \A v \in Seq(Mine) : KeepAllowed(v, recs[i], k) \in Seq(Mine)
  <2> SUFFICES ASSUME NEW i \in 1..len, NEW v \in Seq(Mine)
               PROVE  KeepAllowed(v, recs[i], k) \in Seq(Mine)
    OBVIOUS
  <2>1. RecordAllowed(recs[i], k) => recs[i] \in Mine
    BY <1>1, <1>2
  <2>2. CASE RecordAllowed(recs[i], k)
    BY <2>1, <2>2 DEF KeepAllowed
  <2>3. CASE ~RecordAllowed(recs[i], k)
    BY <2>3 DEF KeepAllowed
  <2> QED BY <2>2, <2>3
<1>4. PICK step : \A i \in 1..len : \A v \in Seq(Mine) : step[i][v] = KeepAllowed(v, recs[i], k)
  <2> DEFINE st == [i \in 1..len |-> [v \in Seq(Mine) |-> KeepAllowed(v, recs[i], k)]]
  <2>1. \A i \in 1..len : \A v \in Seq(Mine) : st[i][v] = KeepAllowed(v, recs[i], k)
    OBVIOUS
  <2> QED BY <2>1
<1>5. PICK g \in [0..len -> Seq(Mine)] : Follows(g, <<>>, step, len)
  <2>1. <<>> \in Seq(Mine)
    OBVIOUS
  <2>2. Keeps(step, len, Seq(Mine))
    BY <1>3, <1>4 DEF Keeps
  <2> QED BY <2>1, <2>2, Recursion
<1>6. \A i \in 1..len : g[i] = KeepAllowed(g[i - 1], recs[i], k)
  <2> SUFFICES ASSUME NEW i \in 1..len PROVE g[i] = KeepAllowed(g[i - 1], recs[i], k)
    OBVIOUS
  <2>1. g[i - 1] \in Seq(Mine) /\ g[i] = step[i][g[i - 1]]
    BY <1>5 DEF Follows
  <2> QED BY <1>4, <2>1
<1>7. Eq(kept)
  <2>1. Eq(g)
    BY <1>1, <1>5, <1>6 DEF Follows
  <2> QED BY <2>1
<1>8. Allowed(recs, k) = kept[len]
  BY <1>1 DEF Allowed
<1> HIDE DEF kept
<1> DEFINE U == {i \in Nat : i <= len => kept[i] \in Seq(Mine)}
<1>9. 0 \in U
  BY <1>1, <1>7
<1>10. ASSUME NEW i \in Nat, i \in U PROVE i + 1 \in U
  <2> SUFFICES ASSUME i + 1 <= len PROVE kept[i + 1] \in Seq(Mine)
    OBVIOUS
  <2>1. kept[i] \in Seq(Mine) /\ i + 1 \in 1..len
    BY <1>10
  <2>2. kept[i + 1] = KeepAllowed(kept[i], recs[i + 1], k)
    BY <1>1, <1>7
  <2> QED BY <1>3, <2>1, <2>2
<1>11. len \in U
  <2> HIDE DEF U
  <2> QED BY <1>9, <1>10, Inductive
<1> QED BY <1>2, <1>8, <1>11

-----------------------------------------------------------------------------
(* What becomes of a result *)

LEMMA ConstantFacts ==
  /\ MaxIter \in Nat \ {0} /\ MaxContinuations \in Nat \ {0}
  /\ RoundRunes \in Nat /\ ConversationRunes \in Nat /\ MaxNudges \in Nat /\ MaxCalls \in Nat
  /\ ResultRunes \in Nat /\ Notice \in Nat
  /\ None \notin Tools /\ None \notin Clusters /\ None \notin Ids
BY AgentConstants

LEMMA ResultFields ==
  ASSUME NEW r \in Result
  PROVE  /\ r.round \in Nat /\ r.of \in Nat /\ r.ok \in BOOLEAN
         /\ r.cluster \in Clusters \cup {None} /\ r.recs \in Seq(Records) /\ r.told \in SUBSET Ids
         /\ r.beside \in Seq(Records)
         /\ r.size \in Nat /\ r.dropped \in BOOLEAN
BY DEF Result

\* t answers the same call as r, with no record that r has not.
Reduced(r, t) ==
  /\ t \in Result
  /\ t.round = r.round /\ t.of = r.of /\ t.cluster = r.cluster
  /\ \A i \in DOMAIN t.recs : \E j \in DOMAIN r.recs : t.recs[i] = r.recs[j]

LEMMA ReducedTwice ==
  ASSUME NEW r, NEW s, NEW t, Reduced(r, s), Reduced(s, t)
  PROVE  Reduced(r, t)
BY DEF Reduced

LEMMA ReducedSelf == \A r \in Result : Reduced(r, r)
BY DEF Reduced

LEMMA SmallerType ==
  \A m, n \in Nat : Smaller(m, n) \in Nat /\ Smaller(m, n) <= m /\ Smaller(m, n) <= n
BY DEF Smaller

LEMMA CutReduces ==
  ASSUME NEW r \in Result, NEW n \in Nat
  PROVE  /\ Reduced(r, CutTo(r, n))
         /\ CutTo(r, n).told = r.told /\ CutTo(r, n).dropped = r.dropped
<1>1. PICK m \in Nat : m = Smaller(Len(r.recs), n) /\ m <= Len(r.recs)
  <2>1. r.recs \in Seq(Records)
    BY ResultFields
  <2>2. Len(r.recs) \in Nat
    BY <2>1
  <2> QED BY <2>2, SmallerType
<1>2. PICK s : s = SubSeq(r.recs, 1, m)
  OBVIOUS
<1>3. s \in Seq(Records) /\ Len(s) = m /\ \A i \in 1..m : s[i] = r.recs[i]
  BY <1>1, <1>2, ResultFields
<1>3a. PICK l \in Nat : l = Smaller(Len(r.beside), n - m) /\ l <= Len(r.beside)
  <2>1. Len(r.recs) \in Nat /\ Len(r.beside) \in Nat
    BY ResultFields
  <2>2. n - m \in Nat
    BY <1>1, <2>1 DEF Smaller
  <2> QED BY <2>1, <2>2, SmallerType
<1>3b. PICK b : b = SubSeq(r.beside, 1, l)
  OBVIOUS
<1>3c. b \in Seq(Records)
  BY <1>3a, <1>3b, ResultFields
<1>4. CutTo(r, n) = [r EXCEPT !.size = Smaller(r.size, n), !.recs = s, !.beside = b]
  BY <1>1, <1>2, <1>3a, <1>3b DEF CutTo
<1>5. Smaller(r.size, n) \in Nat
  BY ResultFields, SmallerType
<1>6. PICK t : t = CutTo(r, n)
  OBVIOUS
<1>7. /\ t \in Result
      /\ t.round = r.round /\ t.of = r.of /\ t.cluster = r.cluster
      /\ t.told = r.told /\ t.dropped = r.dropped /\ t.recs = s
  BY <1>3, <1>3c, <1>4, <1>5, <1>6 DEF Result
<1>8. \A i \in DOMAIN s : i \in DOMAIN r.recs /\ s[i] = r.recs[i]
  BY <1>1, <1>3, ResultFields
<1> QED BY <1>6, <1>7, <1>8 DEF Reduced

LEMMA DropReduces ==
  ASSUME NEW r \in Result
  PROVE  Reduced(r, Dropped(r)) /\ Dropped(r).told = r.told
<1>1. Dropped(r) \in Result
  <2>1. <<>> \in Seq(Records) /\ Notice \in Nat
    BY ConstantFacts
  <2> QED BY <2>1 DEF Dropped, Result
<1>2. /\ Dropped(r).recs = <<>> /\ Dropped(r).round = r.round /\ Dropped(r).of = r.of
      /\ Dropped(r).cluster = r.cluster /\ Dropped(r).told = r.told
  BY DEF Dropped, Result
<1>3. DOMAIN Dropped(r).recs = {}
  BY <1>2
<1> QED BY <1>1, <1>2, <1>3 DEF Reduced

\* As Reduced, result by result.
AllReduced(rs, ts) ==
  ts \in Seq(Result) /\ Len(ts) = Len(rs) /\ \A i \in 1..Len(rs) : Reduced(rs[i], ts[i])

LEMMA ShareType ==
  ASSUME NEW rs \in Seq(Result), rs # <<>>
  PROVE  Share(rs) \in Nat
<1> DEFINE fair == RoundRunes \div Len(rs)
           over == {i \in DOMAIN rs : rs[i].size > fair}
           unused == [i \in DOMAIN rs |-> fair - Smaller(rs[i].size, fair)]
<1>1. Len(rs) \in Nat \ {0} /\ DOMAIN rs = 1..Len(rs)
  OBVIOUS
<1>2. fair \in Nat
  BY <1>1, ConstantFacts
<1> HIDE DEF fair
<1>3. \A i \in DOMAIN rs : rs[i].size \in Nat
  BY ResultFields
<1>4. \A i \in DOMAIN rs : fair - Smaller(rs[i].size, fair) \in Nat
  BY <1>2, <1>3 DEF Smaller
<1>5. unused \in Seq(Nat)
  BY <1>1, <1>4
<1>6. Total(unused) \in Nat
  BY <1>5, TotalType
<1>7. IsFiniteSet(DOMAIN rs) /\ over \in SUBSET (DOMAIN rs)
  BY <1>1, FS_Interval
<1>8. Cardinality(over) \in Nat /\ (over # {} => Cardinality(over) # 0)
  BY <1>7, FS_Subset, FS_CardinalityType, FS_EmptySet
<1>9. Share(rs) = fair + IF over = {} THEN 0 ELSE Total(unused) \div Cardinality(over)
  BY DEF Share, fair
<1> HIDE DEF over, unused
<1>10. over # {} => Total(unused) \div Cardinality(over) \in Nat
  BY <1>6, <1>8
<1> QED BY <1>2, <1>9, <1>10

LEMMA CapReduces ==
  ASSUME NEW rs \in Seq(Result), rs # <<>>
  PROVE  AllReduced(rs, CapRound(rs)) /\ \A i \in 1..Len(rs) : CapRound(rs)[i].dropped = rs[i].dropped
<1>1. \A i \in 1..Len(rs) : rs[i] \in Result
  OBVIOUS
<1>2. CASE SizeOf(rs) <= RoundRunes
  BY <1>1, <1>2, ReducedSelf DEF CapRound, AllReduced
<1>3. CASE ~(SizeOf(rs) <= RoundRunes)
  <2>1. PICK n \in Nat : n = Share(rs)
    BY ShareType
  <2>2. CapRound(rs) = [i \in 1..Len(rs) |-> CutTo(rs[i], n)]
    BY <1>3, <2>1 DEF CapRound
  <2>3. \A i \in 1..Len(rs) : /\ Reduced(rs[i], CutTo(rs[i], n))
                               /\ CutTo(rs[i], n).dropped = rs[i].dropped
    BY <1>1, CutReduces
  <2>4. \A i \in 1..Len(rs) : CutTo(rs[i], n) \in Result
    BY <2>3 DEF Reduced
  <2> QED BY <2>2, <2>3, <2>4 DEF AllReduced
<1> QED BY <1>2, <1>3

LEMMA NoteReduces ==
  ASSUME NEW rs \in Seq(Result)
  PROVE  /\ AllReduced(rs, Noted(rs))
         /\ \A i \in 1..Len(rs) : /\ Noted(rs)[i].told = IdsIn(rs[i])
                                   /\ Noted(rs)[i].dropped = rs[i].dropped
<1>1. \A i \in 1..Len(rs) :
        /\ Reduced(rs[i], [rs[i] EXCEPT !.told = IdsIn(rs[i])])
        /\ [rs[i] EXCEPT !.told = IdsIn(rs[i])].told = IdsIn(rs[i])
        /\ [rs[i] EXCEPT !.told = IdsIn(rs[i])].dropped = rs[i].dropped
        /\ [rs[i] EXCEPT !.told = IdsIn(rs[i])] \in Result
  <2> SUFFICES ASSUME NEW i \in 1..Len(rs)
               PROVE  /\ Reduced(rs[i], [rs[i] EXCEPT !.told = IdsIn(rs[i])])
                      /\ [rs[i] EXCEPT !.told = IdsIn(rs[i])].told = IdsIn(rs[i])
                      /\ [rs[i] EXCEPT !.told = IdsIn(rs[i])].dropped = rs[i].dropped
                      /\ [rs[i] EXCEPT !.told = IdsIn(rs[i])] \in Result
    OBVIOUS
  <2>1. PICK r \in Result : r = rs[i]
    OBVIOUS
  <2>2. IdsIn(r) \in SUBSET Ids
    <3>1. /\ \A j \in DOMAIN r.recs : r.recs[j] \in Records
          /\ \A j \in DOMAIN r.beside : r.beside[j] \in Records
      BY ResultFields
    <3>2. \A rec \in Records : rec.id \in Ids \cup {None}
      BY AgentConstants DEF Record
    <3> QED BY <3>1, <3>2 DEF IdsIn, ToSet
  <2>3. PICK t : t = [r EXCEPT !.told = IdsIn(r)]
    OBVIOUS
  <2>4. /\ t \in Result /\ t.told = IdsIn(r) /\ t.dropped = r.dropped
        /\ t.round = r.round /\ t.of = r.of /\ t.cluster = r.cluster /\ t.recs = r.recs
    BY <2>2, <2>3 DEF Result
  <2> QED BY <2>1, <2>3, <2>4 DEF Reduced
<1> DEFINE noted(i) == [rs[i] EXCEPT !.told = IdsIn(rs[i])]
<1>2. Noted(rs) = [i \in 1..Len(rs) |-> noted(i)]
  BY DEF Noted
<1>3. \A i \in 1..Len(rs) : /\ Reduced(rs[i], noted(i)) /\ noted(i) \in Result
                             /\ noted(i).told = IdsIn(rs[i])
                             /\ noted(i).dropped = rs[i].dropped
  BY <1>1
<1> HIDE DEF noted
<1> QED BY <1>2, <1>3 DEF AllReduced

LEMMA TrimReduces ==
  ASSUME NEW rs \in Seq(Result)
  PROVE  /\ AllReduced(rs, Trim(rs))
         /\ \A i \in 1..Len(rs) : Trim(rs)[i].told = rs[i].told
<1>1. \A i \in 1..Len(rs) : rs[i] \in Result
  OBVIOUS
<1>2. CASE Fits(rs)
  BY <1>1, <1>2, ReducedSelf DEF Trim, AllReduced
<1>3. CASE ~Fits(rs)
  <2>1. PICK n : Trim(rs) = DropUpTo(rs, n)
    BY <1>3 DEF Trim
  <2> DEFINE each(i) == IF i <= n /\ i \in Trimmable(rs) THEN Dropped(rs[i]) ELSE rs[i]
  <2>2. \A i \in 1..Len(rs) : each(i) = Dropped(rs[i]) \/ each(i) = rs[i]
    OBVIOUS
  <2>3. Trim(rs) = [i \in 1..Len(rs) |-> each(i)]
    BY <2>1 DEF DropUpTo
  <2> HIDE DEF each
  <2>4. \A i \in 1..Len(rs) : Reduced(rs[i], each(i)) /\ each(i).told = rs[i].told
    BY <1>1, <2>2, DropReduces, ReducedSelf
  <2>5. \A i \in 1..Len(rs) : each(i) \in Result
    BY <2>4 DEF Reduced
  <2> QED BY <2>3, <2>4, <2>5 DEF AllReduced
<1> QED BY <1>2, <1>3

\* The list or the document of a filtered result holds only what its caller may see on
\* its cluster.
Confined(r) ==
  r.cluster # None =>
    \A i \in DOMAIN r.recs :
      LET rec == r.recs[i]  ns == rec.named \cup rec.behind IN
      ns \subseteq Scope[r.cluster] \/ (rec.flow /\ ns \cap Scope[r.cluster] # {})

LEMMA ReducedConfined ==
  ASSUME NEW r, NEW t, Reduced(r, t), Confined(r)
  PROVE  Confined(t)
<1> SUFFICES ASSUME t.cluster # None, NEW i \in DOMAIN t.recs
             PROVE  LET rec == t.recs[i]  ns == rec.named \cup rec.behind IN
                    \/ ns \subseteq Scope[t.cluster]
                    \/ rec.flow /\ ns \cap Scope[t.cluster] # {}
  BY DEF Confined
<1>1. PICK j \in DOMAIN r.recs : t.recs[i] = r.recs[j]
  BY DEF Reduced
<1>2. t.cluster = r.cluster
  BY DEF Reduced
<1> QED BY <1>1, <1>2 DEF Confined

\* A result of call number of of the round that is under way.
Answers(r, of) ==
  r \in Result /\ r.round = Len(calls) /\ r.of = of /\ ~r.dropped /\ Confined(r)

LEMMA ErrorAnswers ==
  ASSUME calls \in Seq(Nat), NEW of \in Nat
  PROVE  /\ Answers(Error(of), of)
         /\ \A ok \in BOOLEAN : Answers([Error(of) EXCEPT !.ok = ok], of)
<1>1. Len(calls) \in Nat /\ <<>> \in Seq(Records) /\ 1 \in Nat /\ {} \in SUBSET Ids
  OBVIOUS
<1>2. Error(of) \in Result /\ \A ok \in BOOLEAN : [Error(of) EXCEPT !.ok = ok] \in Result
  BY <1>1 DEF Error, Result
<1>3. /\ Error(of).round = Len(calls) /\ Error(of).of = of /\ Error(of).cluster = None
      /\ ~Error(of).dropped
      /\ \A ok \in BOOLEAN : LET e == [Error(of) EXCEPT !.ok = ok] IN
           e.round = Len(calls) /\ e.of = of /\ e.cluster = None /\ ~e.dropped
  BY DEF Error
<1> QED BY <1>2, <1>3 DEF Answers, Confined

LEMMA ShownAnswers ==
  ASSUME calls \in Seq(Nat), NEW of \in Nat, NEW k \in Clusters \cup {None},
         NEW recs \in Seq(Records), NEW beside \in Seq(Records),
         k # None => recs \in Seq({rec \in Records : RecordAllowed(rec, k)})
  PROVE  Answers(Shown(of, k, recs, beside), of)
<1>1. PICK r : r = [Error(of) EXCEPT !.ok = TRUE, !.cluster = k, !.recs = recs, !.beside = beside,
                                     !.size = Len(recs) + Len(beside)]
  OBVIOUS
<1>2. /\ r \in Result
      /\ r.round = Len(calls) /\ r.of = of /\ r.cluster = k /\ r.recs = recs /\ ~r.dropped
  <2>1. r = [round |-> Len(calls), of |-> of, ok |-> TRUE, cluster |-> k, recs |-> recs,
             beside |-> beside, told |-> {}, size |-> Len(recs) + Len(beside), dropped |-> FALSE]
    BY <1>1 DEF Error
  <2>2. Len(calls) \in Nat /\ Len(recs) + Len(beside) \in Nat
    OBVIOUS
  <2> QED BY <2>1, <2>2 DEF Result
<1>3. Confined(r)
  <2> SUFFICES ASSUME k # None, NEW i \in DOMAIN recs
               PROVE  LET ns == recs[i].named \cup recs[i].behind IN
                      ns \subseteq Scope[k] \/ (recs[i].flow /\ ns \cap Scope[k] # {})
    BY <1>2 DEF Confined
  <2>1. recs[i] \in Records /\ RecordAllowed(recs[i], k)
    OBVIOUS
  <2> QED BY <2>1 DEF RecordAllowed
<1>4. Reduced(r, CutTo(r, ResultRunes)) /\ ~CutTo(r, ResultRunes).dropped
  BY <1>2, CutReduces, ConstantFacts
<1>5. Shown(of, k, recs, beside) = CutTo(r, ResultRunes)
  BY <1>1 DEF Shown
<1> QED BY <1>2, <1>3, <1>4, <1>5, ReducedConfined DEF Answers, Reduced

LEMMA OutputAnswers ==
  ASSUME calls \in Seq(Nat), NEW of \in Nat, NEW k \in Clusters, NEW call \in Calls,
         NEW out \in Outputs, NEW resolves \in BOOLEAN
  PROVE  Answers(ResultOf(call, of, k, out, resolves), of)
<1>1. out.recs \in Seq(Records) /\ out.beside \in Seq(Records) /\ <<>> \in Seq(Records)
  BY AgentConstants DEF Output
<1>2. /\ Answers(Shown(of, None, out.recs, out.beside), of)
      /\ Answers(Shown(of, None, out.recs, <<>>), of) /\ Answers(Error(of), of)
  BY <1>1, ShownAnswers, ErrorAnswers
<1>3. Allowed(out.recs, k) \in Seq({rec \in Records : RecordAllowed(rec, k)})
  BY <1>1, AllowedRecords
<1>4. Allowed(out.recs, k) \in Seq(Records)
  BY <1>3
<1>5. Answers(Shown(of, k, Allowed(out.recs, k), out.beside), of)
  BY <1>1, <1>3, <1>4, ShownAnswers
<1>6. PICK r : r = ResultOf(call, of, k, out, resolves)
  OBVIOUS
<1>7. r \in {Shown(of, None, out.recs, out.beside), Shown(of, None, out.recs, <<>>), Error(of),
              Shown(of, k, Allowed(out.recs, k), out.beside)}
  BY <1>6 DEF ResultOf, Filtered
<1> QED BY <1>2, <1>5, <1>6, <1>7

LEMMA RoundEnds ==
  ASSUME results \in Seq(Result), NEW rs \in Seq(Result), rs # <<>>, EndRound(rs)
  PROVE  /\ AllReduced(results \o rs, results')
         /\ \A i \in 1..Len(results) : results'[i].told = results[i].told
         /\ \A id \in seen' \ seen : \E i \in DOMAIN results' : id \in results'[i].told
         /\ seen \subseteq seen' /\ round' = <<>> /\ NextIter
<1>1. PICK done : done = Noted(CapRound(rs))
  OBVIOUS
<1>2. AllReduced(rs, done)
  <2>1. AllReduced(rs, CapRound(rs))
    BY CapReduces
  <2>2. AllReduced(CapRound(rs), done)
    BY <1>1, <2>1, NoteReduces DEF AllReduced
  <2> QED BY <2>1, <2>2, ReducedTwice DEF AllReduced
<1>2a. done \in Seq(Result) /\ Len(done) = Len(rs)
  BY <1>2 DEF AllReduced
<1>3. PICK all : all = results \o done
  OBVIOUS
<1>3a. all \in Seq(Result)
  BY <1>2a, <1>3, ConcatProperties
<1>3b. Len(all) = Len(results) + Len(rs) /\ Len(rs) \in Nat /\ Len(results) \in Nat
  <2>1. Len(rs) \in Nat
    OBVIOUS
  <2>2. Len(results) \in Nat
    OBVIOUS
  <2>3. Len(results \o done) = Len(results) + Len(done)
    BY <1>2a
  <2> QED BY <1>2a, <2>1, <2>2, <2>3, <1>3
<1>4. /\ Len(all) = Len(results) + Len(rs) /\ Len(done) = Len(rs) /\ Len(rs) \in Nat
      /\ Len(results) \in Nat
      /\ \A i \in 1..Len(results) : all[i] = results[i]
      /\ \A i \in 1..Len(rs) : all[Len(results) + i] = done[i]
  BY <1>2a, <1>3b, <1>3, ConcatProperties
<1>5. AllReduced(results \o rs, all)
  <2>1. /\ Len(results \o rs) = Len(all)
        /\ \A i \in 1..Len(results) : (results \o rs)[i] = results[i] /\ results[i] \in Result
        /\ \A i \in 1..Len(rs) : (results \o rs)[Len(results) + i] = rs[i]
    BY <1>4
  <2>2. ASSUME NEW i \in 1..Len(all) PROVE Reduced((results \o rs)[i], all[i])
    <3>1. CASE i \in 1..Len(results)
      BY <1>4, <2>1, <3>1, ReducedSelf
    <3>2. CASE i - Len(results) \in 1..Len(rs)
      <4> DEFINE j == i - Len(results)
      <4>1. j \in 1..Len(rs) /\ i = Len(results) + j
        <5>1. Len(results) \in Nat /\ Len(all) \in Nat /\ i \in 1..Len(all)
          BY <1>3b
        <5> QED BY <3>2, <5>1
      <4> HIDE DEF j
      <4>2. Reduced(rs[j], done[j])
        BY <1>2, <4>1 DEF AllReduced
      <4> QED BY <1>4, <2>1, <4>1, <4>2
    <3> QED BY <1>3b, <3>1, <3>2
  <2>3. \A i \in 1..Len(results \o rs) : Reduced((results \o rs)[i], all[i])
    BY <2>1, <2>2
  <2> QED BY <1>3a, <2>1, <2>3 DEF AllReduced
<1>6. /\ results' = Trim(all)
      /\ seen' = seen \cup UNION {r.told : r \in ToSet(done)}
      /\ round' = <<>> /\ NextIter
  BY <1>1, <1>3 DEF EndRound
<1>7. AllReduced(all, results') /\ \A i \in 1..Len(all) : results'[i].told = all[i].told
  BY <1>3a, <1>6, TrimReduces
<1>8. AllReduced(results \o rs, results')
  BY <1>5, <1>7, ReducedTwice DEF AllReduced
<1>9. \A i \in 1..Len(results) : results'[i].told = results[i].told
  BY <1>4, <1>7
<1>10. ASSUME NEW id \in seen' \ seen PROVE \E i \in DOMAIN results' : id \in results'[i].told
  <2>1. PICK j \in DOMAIN done : id \in done[j].told
    BY <1>6, <1>10 DEF ToSet
  <2>2. j \in 1..Len(rs) /\ Len(results) + j \in 1..Len(all)
    <3>1. done \in Seq(Result)
      BY <1>2 DEF AllReduced
    <3>2. DOMAIN done = 1..Len(rs)
      BY <1>4, <3>1
    <3> QED BY <1>4, <2>1, <3>2
  <2>3. id \in results'[Len(results) + j].told
    BY <1>4, <1>7, <2>1, <2>2
  <2>4. DOMAIN results' = 1..Len(all)
    BY <1>7 DEF AllReduced
  <2> QED BY <2>2, <2>3, <2>4
<1> QED BY <1>6, <1>8, <1>9, <1>10

-----------------------------------------------------------------------------
(* Types *)

\* A round that is under way has calls left, and a result for each that has gone.
StageInv ==
  /\ stage \in {"think", "calls"} => iter < MaxIter
  /\ stage = "calls" => /\ calls # <<>> /\ queue # <<>>
                        /\ Len(round) + Len(queue) = calls[Len(calls)]
  /\ stage # "calls" => queue = <<>> /\ round = <<>>
  /\ stage = "finish" => finishing.by # "nobody"

LEMMA NextCall ==
  ASSUME TypeOK, StageInv, stage = "calls"
  PROVE  /\ Head(queue) \in Calls /\ Tail(queue) \in Seq(Calls)
         /\ Len(queue) \in Nat \ {0} /\ Len(Tail(queue)) = Len(queue) - 1
         /\ Number = Len(round) + 1 /\ Number \in Nat
         /\ Head(queue).tool \in Tools \cup {None}
<1>1. queue \in Seq(Calls) /\ queue # <<>> /\ calls \in Seq(Nat) /\ calls # <<>>
      /\ round \in Seq(Result)
  BY DEF TypeOK, StageInv
<1>2. Len(queue) \in Nat \ {0} /\ Head(queue) \in Calls /\ Tail(queue) \in Seq(Calls)
  BY <1>1
<1>3. Len(Tail(queue)) = Len(queue) - 1
  BY <1>1
<1>4. Len(round) \in Nat
  BY <1>1
<1>5. Number = calls[Len(calls)] - Len(queue) + 1
  BY DEF Number, Last
<1>6. Len(round) + Len(queue) = calls[Len(calls)]
  BY DEF StageInv
<1>7. Head(queue).tool \in Tools \cup {None}
  BY <1>2, AgentConstants DEF Call
<1> QED BY <1>2, <1>3, <1>4, <1>5, <1>6, <1>7

LEMMA TargetsType ==
  ASSUME NEW call \in Calls, call.tool # None
  PROVE  /\ Targets(call) \subseteq Rule[call.tool].on /\ Rule[call.tool].on \subseteq Clusters
         /\ call.tool \in Tools /\ call.ns \subseteq Namespaces /\ None \notin Targets(call)
<1>1. call.tool \in Tools /\ call.ns \subseteq Namespaces
  BY AgentConstants DEF Call
<1>2. Rule[call.tool].on \subseteq Clusters
  BY <1>1, AgentConstants
<1>3. Targets(call) \subseteq Rule[call.tool].on
  BY DEF Targets, Offered
<1> QED BY <1>1, <1>2, <1>3, ConstantFacts

\* A call's step joins a result for it.
LEMMA StepJoins ==
  ASSUME TypeOK, StageInv, CallStep
  PROVE  /\ stage = "calls" /\ Handle
         /\ \E r : Answers(r, Len(round) + 1) /\ Join(r)
         /\ proposed' \subseteq Uses
         /\ \/ ran' = None
            \/ \E k \in Clusters : /\ Head(queue).tool # None
                                   /\ k \in Targets(Head(queue))
                                   /\ Verdict(Head(queue), k) = "run"
                                   /\ ran' = [call |-> Head(queue), on |-> k]
<1> DEFINE Goal ==
      /\ stage = "calls" /\ Handle
      /\ \E r : Answers(r, Len(round) + 1) /\ Join(r)
      /\ proposed' \subseteq Uses
      /\ \/ ran' = None
         \/ \E k \in Clusters : /\ Head(queue).tool # None
                                /\ k \in Targets(Head(queue))
                                /\ Verdict(Head(queue), k) = "run"
                                /\ ran' = [call |-> Head(queue), on |-> k]
<1>0. stage = "calls" /\ calls \in Seq(Nat) /\ proposed \subseteq Uses
  BY DEF CallStep, HandleNoTool, Refuse, ToolFails, RunTool, TypeOK
<1>1. Answers(Error(Number), Len(round) + 1)
  BY <1>0, NextCall, ErrorAnswers
<1>2. ASSUME NEW ok \in BOOLEAN, HandleNoTool(ok) PROVE Goal
  <2>1. Answers([Error(Number) EXCEPT !.ok = ok], Len(round) + 1)
    BY <1>0, NextCall, ErrorAnswers
  <2> QED BY <1>0, <1>2, <2>1 DEF HandleNoTool
<1>3. ASSUME NEW k \in Clusters \cup {None}, Refuse(k) PROVE Goal
  <2>1. Head(queue) \in Calls /\ Head(queue).tool # None
    BY <1>0, <1>3, NextCall DEF Refuse
  <2>2. \A e \in Targets(Head(queue)) : Use(Head(queue), e) \in Uses
    BY <2>1, TargetsType DEF Use, Uses
  <2>3. proposed' \subseteq Uses
    BY <1>0, <1>3, <2>2 DEF Refuse
  <2> QED BY <1>0, <1>1, <1>3, <2>3 DEF Refuse
<1>4. ASSUME NEW k \in Clusters, ToolFails(k) PROVE Goal
  BY <1>0, <1>1, <1>4 DEF ToolFails
<1>5. ASSUME NEW k \in Clusters, RunTool(k) PROVE Goal
  <2>1. PICK out \in Outputs, resolves \in BOOLEAN :
          Join(ResultOf(Head(queue), Number, k, out, resolves))
    BY <1>5 DEF RunTool
  <2>2. Answers(ResultOf(Head(queue), Number, k, out, resolves), Len(round) + 1)
    BY <1>0, NextCall, OutputAnswers
  <2> QED BY <1>0, <1>5, <2>1, <2>2 DEF RunTool
<1> QED BY <1>2, <1>3, <1>4, <1>5 DEF CallStep

LEMMA JoinCases ==
  ASSUME TypeOK, StageInv, stage = "calls", Handle,
         NEW r, Answers(r, Len(round) + 1), Join(r)
  PROVE  /\ r \in Result /\ Append(round, r) \in Seq(Result) /\ Append(round, r) # <<>>
         /\ Len(Append(round, r)) = Len(round) + 1
         /\ \/ /\ Len(queue) > 1 /\ round' = Append(round, r)
               /\ UNCHANGED <<stage, iter, results, seen>>
               /\ queue' \in Seq(Calls) /\ queue' # <<>> /\ Len(queue') = Len(queue) - 1
            \/ /\ Len(queue) = 1 /\ EndRound(Append(round, r)) /\ queue' = <<>>
<1>1. r \in Result /\ round \in Seq(Result)
  BY DEF Answers, TypeOK
<1>2. /\ Append(round, r) \in Seq(Result) /\ Append(round, r) # <<>>
      /\ Len(Append(round, r)) = Len(round) + 1
  BY <1>1, AppendProperties
<1>3. /\ queue' = Tail(queue) /\ Tail(queue) \in Seq(Calls) /\ Len(queue) \in Nat \ {0}
      /\ Len(Tail(queue)) = Len(queue) - 1
  BY NextCall DEF Handle
<1>4. CASE Len(queue) > 1
  <2>1. Tail(queue) # <<>>
    BY <1>3, <1>4
  <2> QED BY <1>1, <1>2, <1>3, <1>4, <2>1 DEF Join
<1>5. CASE ~(Len(queue) > 1)
  <2>1. Len(queue) = 1
    BY <1>3, <1>5
  <2>2. Tail(queue) = <<>>
    BY <1>3, <2>1
  <2> QED BY <1>1, <1>2, <1>3, <1>5, <2>1, <2>2 DEF Join
<1> QED BY <1>4, <1>5

\* The steps that are no calls leave the calls and their results alone.
LEMMA WorkUnchanged ==
  ASSUME TypeOK, StageInv, Think \/ AnswerStep, ~ThinkCalls
  PROVE  UNCHANGED <<queue, round, calls, results, seen, proposed, review, granted>>
         /\ stage # "calls" /\ stage' # "calls" /\ ran' = None /\ requests' = requests + 1
<1> DEFINE Goal ==
         /\ UNCHANGED <<queue, round, calls, results, seen, proposed, review, granted>>
         /\ stage # "calls" /\ stage' # "calls" /\ ran' = None /\ requests' = requests + 1
<1>0. /\ \A a : Conclude(a) => stage' # "calls"
      /\ NextIter => stage' # "calls"
      /\ \A cut, notes : Finished(cut, notes) => stage' # "calls"
      /\ \A cut, notes : Weighed(cut, notes) => stage' # "calls"
  BY DEF Conclude, NextIter, Finished, Weighed
<1>1. CASE ThinkFails
  BY <1>0, <1>1 DEF ThinkFails, work, turn, Asks
<1>2. CASE ThinkIsCut
  BY <1>2 DEF ThinkIsCut, work, turn, Asks
<1>3. ASSUME NEW kind, Nudge(kind) PROVE Goal
  BY <1>0, <1>3 DEF Nudge, work, turn, Asks
<1>4. ASSUME NEW kind, Final(kind) PROVE Goal
  BY <1>0, <1>4 DEF Final, work, turn, Asks
<1>5. ASSUME NEW outcome \in {"fails", "whole", "cut"}, Demand(outcome) PROVE Goal
  <2>1. stage' # "calls"
    BY <1>0, <1>5 DEF Demand
  <2> QED BY <1>5, <2>1 DEF Demand, work, turn, Asks
<1>6. ASSUME NEW outcome \in {"fails", "whole", "cut"}, Review(outcome) PROVE Goal
  <2>1. stage' # "calls"
    BY <1>0, <1>6 DEF Review
  <2> QED BY <1>6, <2>1 DEF Review, work, turn, Asks
<1>7. ASSUME NEW instead, FinishWhole(instead) PROVE Goal
  BY <1>0, <1>7 DEF FinishWhole, work, turn, Asks
<1>8. ASSUME NEW again, FinishCut(again) PROVE Goal
  <2>1. stage = "finish" /\ stage' # "calls"
    BY <1>0, <1>8 DEF FinishCut
  <2> QED BY <1>8, <2>1 DEF FinishCut, work, turn, Asks
<1>9. CASE FinishFails
  <2>1. stage = "finish" /\ finishing.by \in {"run", "demand", "review"}
    BY <1>9 DEF FinishFails, StageInv, TypeOK, Finishing
  <2>2. stage' # "calls"
    BY <1>0, <1>9, <2>1 DEF FinishFails
  <2> QED BY <1>9, <2>1, <2>2 DEF FinishFails, work, turn, Asks
<1> QED BY <1>1, <1>2, <1>3, <1>4, <1>5, <1>6, <1>7, <1>8, <1>9 DEF Think, AnswerStep

LEMMA AnsweredType ==
  ASSUME NEW cut \in BOOLEAN, NEW notes \in SUBSET {"cut", "stopped"}
  PROVE  Answered(cut, notes) \in Answer
<1>1. notes \cup (IF iter = MaxIter THEN {"stopped"} ELSE {}) \in SUBSET {"cut", "stopped"}
  OBVIOUS
<1> QED BY <1>1 DEF Answered, Answer

LEMMA NoAnswerType == NoAnswer \in Answer
BY DEF NoAnswer, Answer

LEMMA WeighedType ==
  ASSUME answer \in Answer, NEW cut \in BOOLEAN, NEW notes \in SUBSET {"cut", "stopped"},
         Weighed(cut, notes)
  PROVE  answer' \in Answer /\ stage' = "done"
<1>1. CASE UNCHANGED answer
  BY <1>1 DEF Weighed
<1>2. CASE ~UNCHANGED answer
  <2>1. PICK kept \in SUBSET answer.notes :
          answer' = [ok |-> TRUE, cut |-> cut, notes |-> notes \cup kept]
    BY <1>2 DEF Weighed
  <2>2. notes \cup kept \in SUBSET {"cut", "stopped"}
    BY DEF Answer
  <2> QED BY <2>1, <2>2 DEF Answer, Weighed
<1> QED BY <1>1, <1>2

\* The stages, answers and counts of the steps that are no calls.
LEMMA StepTypes ==
  ASSUME TypeOK, StageInv, Think \/ AnswerStep, ~ThinkCalls
  PROVE  /\ stage' \in Stages \ {"calls"} /\ iter' \in 0..MaxIter /\ nudges' \in 0..MaxNudges
         /\ finishing' \in Finishing /\ answer' \in Answer
         /\ stage' = "think" => iter' < MaxIter
         /\ stage' = "finish" => finishing'.by # "nobody"
<1> DEFINE Goal ==
         /\ stage' \in Stages \ {"calls"} /\ iter' \in 0..MaxIter /\ nudges' \in 0..MaxNudges
         /\ finishing' \in Finishing /\ answer' \in Answer
         /\ stage' = "think" => iter' < MaxIter
         /\ stage' = "finish" => finishing'.by # "nobody"
<1>0. /\ MaxIter \in Nat \ {0} /\ MaxNudges \in Nat
      /\ iter \in 0..MaxIter /\ nudges \in 0..MaxNudges
      /\ finishing \in Finishing /\ answer \in Answer /\ stage \in Stages
      /\ stage = "finish" => finishing.by # "nobody"
  BY ConstantFacts DEF TypeOK, StageInv
<1>1. /\ \A cut \in BOOLEAN, notes \in SUBSET {"cut", "stopped"} : Answered(cut, notes) \in Answer
      /\ NoAnswer \in Answer
      /\ {} \in SUBSET {"cut", "stopped"} /\ {"cut"} \in SUBSET {"cut", "stopped"}
  BY AnsweredType, NoAnswerType
<1>2. \A a \in Answer : Conclude(a) => answer' \in Answer /\ stage' \in {"review", "done"}
  BY DEF Conclude
<1>3. Nobody \in Finishing /\ \A by \in {"run", "demand", "review"} :
        Cut(by) => finishing' \in Finishing /\ finishing'.by = by
  BY DEF Nobody, Cut, Finishing
<1>4. CASE ThinkFails
  BY <1>0, <1>1, <1>2, <1>4 DEF ThinkFails, Stages
<1>5. CASE ThinkIsCut
  BY <1>0, <1>3, <1>5 DEF ThinkIsCut, Stages
<1>6. ASSUME NEW kind \in {"announces", "preamble", "unmeasured"}, Nudge(kind) PROVE Goal
  <2>1. iter < MaxIter /\ iter' = iter + 1 /\ nudges < MaxNudges /\ nudges' = nudges + 1
    BY <1>6 DEF Nudge, NextIter, StageInv
  <2> QED BY <1>0, <1>6, <2>1 DEF Nudge, NextIter, Stages
<1>7. ASSUME NEW kind \in {"final", "announces", "preamble", "unmeasured"}, Final(kind) PROVE Goal
  <2>1. stage' \in {"demand", "review", "done"} /\ answer' \in Answer
    BY <1>0, <1>1, <1>2, <1>7 DEF Final
  <2> QED BY <1>0, <1>7, <2>1 DEF Final, Stages
<1>8. ASSUME NEW outcome \in {"fails", "whole", "cut"}, Demand(outcome) PROVE Goal
  <2>0. UNCHANGED <<iter, nudges>>
    BY <1>8 DEF Demand
  <2>1. CASE outcome = "fails"
    <3>1. (IF iter < MaxIter THEN Answered(FALSE, {}) ELSE NoAnswer) \in Answer
      BY <1>1
    <3> QED BY <1>0, <1>2, <1>8, <2>0, <2>1, <3>1 DEF Demand, Stages
  <2>2. CASE outcome = "whole"
    BY <1>0, <1>1, <1>2, <1>8, <2>0, <2>2 DEF Demand, Stages
  <2>3. CASE outcome = "cut"
    BY <1>0, <1>3, <1>8, <2>0, <2>3 DEF Demand, Stages
  <2> QED BY <2>1, <2>2, <2>3
<1>9. ASSUME NEW outcome \in {"fails", "whole", "cut"}, Review(outcome) PROVE Goal
  <2>0. UNCHANGED <<iter, nudges>>
    BY <1>9 DEF Review
  <2>1. CASE outcome = "fails"
    BY <1>0, <1>9, <2>0, <2>1 DEF Review, Stages
  <2>2. CASE outcome = "whole"
    <3>1. Weighed(FALSE, {}) /\ UNCHANGED finishing
      BY <1>9, <2>2 DEF Review
    <3> QED BY <1>0, <1>1, <2>0, <3>1, WeighedType DEF Stages
  <2>3. CASE outcome = "cut"
    BY <1>0, <1>3, <1>9, <2>0, <2>3 DEF Review, Stages
  <2> QED BY <2>1, <2>2, <2>3
<1>10. ASSUME NEW cut \in BOOLEAN, NEW notes \in {{}, {"cut"}}, Finished(cut, notes),
              UNCHANGED <<iter, nudges>>
       PROVE  Goal
  <2>1. CASE finishing.by = "review"
    <3>1. Weighed(cut, notes) /\ finishing' = Nobody
      BY <1>10, <2>1 DEF Finished
    <3> QED BY <1>0, <1>1, <1>3, <1>10, <3>1, WeighedType DEF Stages
  <2>2. CASE finishing.by # "review"
    <3>1. Conclude(Answered(cut, notes)) /\ finishing' = Nobody
      BY <1>10, <2>2 DEF Finished
    <3> QED BY <1>0, <1>1, <1>2, <1>3, <1>10, <3>1 DEF Stages
  <2> QED BY <2>1, <2>2
<1>11. ASSUME NEW instead \in BOOLEAN, FinishWhole(instead) PROVE Goal
  <2>1. Finished(instead, {}) /\ UNCHANGED <<iter, nudges>>
    BY <1>11 DEF FinishWhole
  <2> QED BY <1>10, <2>1
<1>12. ASSUME NEW again \in BOOLEAN, FinishCut(again) PROVE Goal
  <2>1. CASE ~again
    <3>1. Finished(TRUE, {"cut"}) /\ UNCHANGED <<iter, nudges>>
      BY <1>12, <2>1 DEF FinishCut
    <3> QED BY <1>10, <3>1
  <2>2. CASE again
    <3>1. PICK f : f = [finishing EXCEPT !.conts = finishing.conts + 1,
                                         !.parts = finishing.parts + 1,
                                         !.shown = finishing.shown + 1]
      OBVIOUS
    <3>2. f \in Finishing /\ f.by = finishing.by
      <4>1. /\ finishing.conts + 1 \in Nat /\ finishing.parts + 1 \in Nat
            /\ finishing.shown + 1 \in Nat
        BY <1>0 DEF Finishing
      <4> QED BY <1>0, <3>1, <4>1 DEF Finishing
    <3>3. finishing' = f /\ stage' = stage /\ answer' = answer /\ stage = "finish"
      BY <1>12, <2>2, <3>1 DEF FinishCut
    <3>4. UNCHANGED <<iter, nudges>>
      BY <1>12 DEF FinishCut
    <3> QED BY <1>0, <3>2, <3>3, <3>4
  <2> QED BY <2>1, <2>2
<1>13. CASE FinishFails
  <2>0. UNCHANGED <<iter, nudges>> /\ finishing' = Nobody /\ stage = "finish"
    BY <1>13 DEF FinishFails
  <2>1. finishing.by \in {"run", "demand", "review"}
    BY <1>0, <2>0 DEF Finishing
  <2>2. stage' \in {"review", "done"} /\ answer' \in Answer
    <3>1. CASE finishing.by = "run"
      BY <1>1, <1>2, <1>13, <3>1 DEF FinishFails
    <3>2. CASE finishing.by = "demand"
      BY <1>1, <1>2, <1>13, <3>2 DEF FinishFails
    <3>3. CASE finishing.by = "review"
      BY <1>0, <1>13, <3>3 DEF FinishFails
    <3> QED BY <2>1, <3>1, <3>2, <3>3
  <2> QED BY <1>0, <1>3, <2>0, <2>2 DEF Stages
<1> QED
  BY <1>4, <1>5, <1>6, <1>7, <1>8, <1>9, <1>11, <1>12, <1>13 DEF Think, AnswerStep

LEMMA NewRound ==
  ASSUME TypeOK, ThinkCalls
  PROVE  /\ stage = "think" /\ stage' = "calls"
         /\ queue' \in Seq(Calls) /\ queue' # <<>> /\ Len(queue') \in Nat \ {0}
         /\ calls' \in Seq(Nat) /\ Len(calls') = Len(calls) + 1 /\ calls' # <<>>
         /\ calls'[Len(calls')] = Len(queue')
         /\ \A n \in 1..Len(calls) : calls'[n] = calls[n]
         /\ UNCHANGED <<iter, nudges, review, granted, round, results, seen, proposed, finishing,
                        answer>>
         /\ ran' = None /\ requests' = requests + 1
<1>1. PICK n \in 1..MaxCalls : queue' \in [1..n -> Calls]
  BY DEF ThinkCalls
<1>2. MaxCalls \in Nat /\ calls \in Seq(Nat)
  BY ConstantFacts DEF TypeOK
<1>3. n \in Nat \ {0}
  BY <1>1, <1>2
<1>4. queue' \in Seq(Calls) /\ Len(queue') = n
  BY <1>1, <1>3
<1>5. queue' # <<>>
  BY <1>3, <1>4
<1>6. calls' = Append(calls, n)
  BY <1>4 DEF ThinkCalls
<1>7. /\ calls' \in Seq(Nat) /\ Len(calls') = Len(calls) + 1 /\ calls' # <<>>
      /\ calls'[Len(calls) + 1] = n
      /\ \A i \in 1..Len(calls) : calls'[i] = calls[i]
  BY <1>2, <1>3, <1>6, AppendProperties
<1> QED BY <1>3, <1>4, <1>5, <1>7 DEF ThinkCalls, turn, Asks

\* The next iteration, or the answer that is demanded after the last one.
LEMMA NextIterType ==
  ASSUME iter \in 0..MaxIter, iter < MaxIter, NextIter
  PROVE  /\ iter' = iter + 1 /\ iter' \in 0..MaxIter
         /\ stage' \in {"think", "demand"} /\ (stage' = "think" => iter' < MaxIter)
         /\ (stage' = "demand" => iter' = MaxIter)
BY ConstantFacts DEF NextIter

LEMMA AgentTypes == Spec => [](TypeOK /\ StageInv)
<1>1. Init => TypeOK /\ StageInv
  <2> SUFFICES ASSUME Init PROVE TypeOK /\ StageInv
    OBVIOUS
  <2>1. /\ MaxIter \in Nat \ {0} /\ MaxNudges \in Nat /\ Known \subseteq Ids
        /\ Nobody \in Finishing /\ NoAnswer \in Answer
    BY ConstantFacts, AgentConstants, NoAnswerType DEF Nobody, Finishing
  <2>2. <<>> \in Seq(Calls) /\ <<>> \in Seq(Nat) /\ <<>> \in Seq(Result)
    OBVIOUS
  <2>3. /\ stage = "think" /\ iter = 0 /\ nudges = 0 /\ requests = 0 /\ proposed = {} /\ seen = Known
        /\ queue = <<>> /\ round = <<>> /\ calls = <<>> /\ results = <<>> /\ ran = None
        /\ review \in BOOLEAN /\ granted \in Grants /\ finishing = Nobody /\ answer = NoAnswer
    BY DEF Init
  <2> QED BY <2>1, <2>2, <2>3 DEF TypeOK, StageInv, Stages
<1>2. TypeOK /\ StageInv /\ [Next]_vars => TypeOK' /\ StageInv'
  <2> SUFFICES ASSUME TypeOK, StageInv, [Next]_vars PROVE TypeOK' /\ StageInv'
    OBVIOUS
  <2>0. requests \in Nat /\ stage \in Stages /\ iter \in 0..MaxIter
    BY DEF TypeOK
  <2>1. CASE ThinkCalls
    <3>1. /\ stage = "think" /\ stage' = "calls"
          /\ queue' \in Seq(Calls) /\ queue' # <<>> /\ Len(queue') \in Nat
          /\ calls' \in Seq(Nat) /\ calls' # <<>> /\ calls'[Len(calls')] = Len(queue')
          /\ UNCHANGED <<iter, nudges, review, granted, round, results, seen, proposed, finishing,
                         answer>>
          /\ ran' = None /\ requests' = requests + 1
      BY <2>1, NewRound
    <3>2. round = <<>> /\ Len(round) = 0 /\ iter < MaxIter
      BY <3>1 DEF StageInv
    <3>3. TypeOK'
      BY <2>0, <3>1 DEF TypeOK, Stages
    <3>4. StageInv'
      BY <3>1, <3>2 DEF StageInv
    <3> QED BY <3>3, <3>4
  <2>2. CASE (Think \/ AnswerStep) /\ ~ThinkCalls
    <3>1. /\ UNCHANGED <<queue, round, calls, results, seen, proposed, review, granted>>
          /\ stage # "calls" /\ stage' # "calls" /\ ran' = None /\ requests' = requests + 1
      BY <2>2, WorkUnchanged
    <3>2. /\ stage' \in Stages \ {"calls"} /\ iter' \in 0..MaxIter /\ nudges' \in 0..MaxNudges
          /\ finishing' \in Finishing /\ answer' \in Answer
          /\ stage' = "think" => iter' < MaxIter
          /\ stage' = "finish" => finishing'.by # "nobody"
      BY <2>2, StepTypes
    <3> QED BY <2>0, <3>1, <3>2 DEF TypeOK, StageInv
  <2>3. CASE CallStep
    <3>1. /\ stage = "calls" /\ Handle /\ proposed' \subseteq Uses
          /\ \/ ran' = None
             \/ \E k \in Clusters : ran' = [call |-> Head(queue), on |-> k]
      BY <2>3, StepJoins
    <3>2. PICK r : Answers(r, Len(round) + 1) /\ Join(r)
      BY <2>3, StepJoins
    <3>3. ran' = None \/ ran' \in [call: Calls, on: Clusters]
      BY <3>1, NextCall
    <3>4. UNCHANGED <<nudges, review, granted, calls, finishing, answer, requests>>
      BY <3>1 DEF Handle, turn
    <3>5. /\ r \in Result /\ Append(round, r) \in Seq(Result) /\ Append(round, r) # <<>>
          /\ Len(Append(round, r)) = Len(round) + 1
      BY <3>1, <3>2, JoinCases
    <3>6. CASE Len(queue) > 1
      <4>1. /\ round' = Append(round, r) /\ UNCHANGED <<stage, iter, results, seen>>
            /\ queue' \in Seq(Calls) /\ queue' # <<>> /\ Len(queue') = Len(queue) - 1
        <5>1. stage = "calls" /\ Handle
          BY <3>1
        <5>2. queue \in Seq(Calls)
          BY DEF TypeOK
        <5>3. ASSUME Len(queue) = 1 PROVE FALSE
          BY <3>6, <5>2, <5>3
        <5> QED BY <3>2, <5>1, <5>3, JoinCases
      <4>2. Len(round') + Len(queue') = Len(round) + Len(queue)
        BY <3>1, <3>5, <4>1, NextCall DEF TypeOK
      <4> QED BY <3>1, <3>3, <3>4, <3>5, <4>1, <4>2 DEF TypeOK, StageInv
    <3>7. CASE ~(Len(queue) > 1)
      <4>1. EndRound(Append(round, r)) /\ queue' = <<>>
        BY <3>1, <3>2, <3>7, JoinCases
      <4>2. /\ AllReduced(results \o Append(round, r), results')
            /\ \A id \in seen' \ seen : \E i \in DOMAIN results' : id \in results'[i].told
            /\ seen \subseteq seen' /\ round' = <<>> /\ NextIter
        BY <3>5, <4>1, RoundEnds DEF TypeOK
      <4>3. results' \in Seq(Result)
        BY <4>2 DEF AllReduced
      <4>4. seen' \subseteq Ids
        <5>1. \A i \in DOMAIN results' : results'[i].told \subseteq Ids
          BY <4>3, ResultFields
        <5> QED BY <4>2, <5>1 DEF TypeOK
      <4>5. /\ iter' \in 0..MaxIter /\ stage' \in {"think", "demand"}
            /\ (stage' = "think" => iter' < MaxIter)
        BY <2>0, <3>1, <4>2, NextIterType DEF StageInv
      <4>6. <<>> \in Seq(Calls) /\ <<>> \in Seq(Result)
        OBVIOUS
      <4> QED BY <3>1, <3>3, <3>4, <4>1, <4>2, <4>3, <4>4, <4>5, <4>6 DEF TypeOK, StageInv, Stages
    <3> QED BY <3>6, <3>7
  <2>4. CASE UNCHANGED vars
    BY <2>4 DEF vars, TypeOK, StageInv
  <2> QED BY <2>1, <2>2, <2>3, <2>4 DEF Next, Done
<1> QED BY <1>1, <1>2, PTL DEF Spec

\* Every variable of a turn keeps its type, whatever the model and the servers answer.
THEOREM AgentTypeCorrect == Spec => []TypeOK
BY AgentTypes, PTL

-----------------------------------------------------------------------------
(* A result for every call *)

\* The results of round n stand together, one for each of its size calls and in their
\* order, after those of earlier rounds.
Block(rs, n, size) ==
  \E before \in 0..Len(rs) :
    /\ {i \in DOMAIN rs : rs[i].round = n} = (before + 1)..(before + size)
    /\ \A i \in 1..size : rs[before + i].of = i
    /\ \A i \in 1..before : rs[i].round < n

\* rs answers the first m rounds.
AnswersAll(rs, m) ==
  /\ \A i \in DOMAIN rs : rs[i].round <= m
  /\ \A n \in 1..m : Block(rs, n, calls[n])

\* While a round is under way, its results so far are those of its first calls, and
\* the conversation answers the rounds before it.
ResultsInv ==
  /\ stage = "calls" =>
       /\ \A i \in DOMAIN round : round[i].round = Len(calls) /\ round[i].of = i
       /\ AnswersAll(results, Len(calls) - 1)
  /\ stage # "calls" => AnswersAll(results, Len(calls))

LEMMA BlockKept ==
  ASSUME NEW rs \in Seq(Result), NEW ts \in Seq(Result), NEW n \in Nat, NEW size \in Nat,
         Len(rs) <= Len(ts),
         \A i \in 1..Len(rs) : ts[i].round = rs[i].round /\ ts[i].of = rs[i].of,
         \A i \in (Len(rs) + 1)..Len(ts) : ts[i].round # n,
         Block(rs, n, size)
  PROVE  Block(ts, n, size)
<1>1. Len(rs) \in Nat /\ Len(ts) \in Nat /\ DOMAIN rs = 1..Len(rs) /\ DOMAIN ts = 1..Len(ts)
  OBVIOUS
<1>2. PICK before \in 0..Len(rs) :
        /\ {i \in DOMAIN rs : rs[i].round = n} = (before + 1)..(before + size)
        /\ \A i \in 1..size : rs[before + i].of = i
        /\ \A i \in 1..before : rs[i].round < n
  BY DEF Block
<1>3. {i \in DOMAIN ts : ts[i].round = n} = {i \in DOMAIN rs : rs[i].round = n}
  <2>1. \A i \in DOMAIN ts : i \notin DOMAIN rs => i \in (Len(rs) + 1)..Len(ts)
    BY <1>1
  <2>2. DOMAIN rs \subseteq DOMAIN ts
    BY <1>1
  <2> QED BY <1>1, <2>1, <2>2
<1>4. \A i \in 1..size : ts[before + i].of = i
  <2> SUFFICES ASSUME NEW i \in 1..size PROVE ts[before + i].of = i
    OBVIOUS
  <2>1. before + i \in (before + 1)..(before + size)
    BY <1>1
  <2>2. before + i \in 1..Len(rs)
    BY <1>1, <1>2, <2>1
  <2> QED BY <1>2, <2>2
<1>5. \A i \in 1..before : ts[i].round < n
  <2>1. \A i \in 1..before : i \in 1..Len(rs)
    BY <1>1
  <2> QED BY <1>2, <2>1
<1>6. before \in 0..Len(ts)
  BY <1>1
<1> QED BY <1>2, <1>3, <1>4, <1>5, <1>6 DEF Block

LEMMA BlockAdded ==
  ASSUME NEW rs \in Seq(Result), NEW ts \in Seq(Result), NEW m \in Nat, NEW size \in Nat,
         Len(ts) = Len(rs) + size,
         \A i \in 1..Len(rs) : ts[i].round <= m,
         \A i \in 1..size : ts[Len(rs) + i].round = m + 1 /\ ts[Len(rs) + i].of = i
  PROVE  Block(ts, m + 1, size)
<1>1. Len(rs) \in Nat /\ Len(ts) \in Nat /\ DOMAIN ts = 1..Len(ts)
  OBVIOUS
<1>2. \A i \in 1..Len(ts) : ts[i].round \in Nat
  BY ResultFields
<1>3. \A i \in (Len(rs) + 1)..(Len(rs) + size) : ts[i].round = m + 1
  <2> SUFFICES ASSUME NEW i \in (Len(rs) + 1)..(Len(rs) + size) PROVE ts[i].round = m + 1
    OBVIOUS
  <2>1. i - Len(rs) \in 1..size /\ Len(rs) + (i - Len(rs)) = i
    BY <1>1
  <2> QED BY <2>1
<1>4. {i \in DOMAIN ts : ts[i].round = m + 1} = (Len(rs) + 1)..(Len(rs) + size)
  <2>1. \A i \in DOMAIN ts : ts[i].round = m + 1 => i \in (Len(rs) + 1)..(Len(rs) + size)
    <3> SUFFICES ASSUME NEW i \in DOMAIN ts, ts[i].round = m + 1
                 PROVE  i \in (Len(rs) + 1)..(Len(rs) + size)
      OBVIOUS
    <3>1. ~(i \in 1..Len(rs))
      BY <1>1, <1>2
    <3> QED BY <1>1, <3>1
  <2>2. (Len(rs) + 1)..(Len(rs) + size) \subseteq DOMAIN ts
    BY <1>1
  <2> QED BY <1>3, <2>1, <2>2
<1>5. \A i \in 1..Len(rs) : ts[i].round < m + 1
  <2> SUFFICES ASSUME NEW i \in 1..Len(rs) PROVE ts[i].round < m + 1
    OBVIOUS
  <2>1. i \in 1..Len(ts)
    BY <1>1
  <2> QED BY <1>2, <2>1
<1>6. Len(rs) \in 0..Len(ts)
  BY <1>1
<1> QED BY <1>4, <1>5, <1>6 DEF Block

\* What a call's step does with the results, as the invariants below need it.
LEMMA JoinEffect ==
  ASSUME TypeOK, StageInv, CallStep
  PROVE  \E r :
    /\ Answers(r, Len(round) + 1)
    /\ stage = "calls" /\ UNCHANGED <<calls, granted>>
    /\ LET rs == Append(round, r) IN
       /\ rs \in Seq(Result) /\ Len(rs) = Len(round) + 1
       /\ \A i \in 1..Len(round) : rs[i] = round[i]
       /\ rs[Len(round) + 1] = r
       /\ \/ /\ stage' = "calls" /\ round' = rs /\ UNCHANGED <<results, seen>>
          \/ /\ stage' # "calls" /\ round' = <<>>
             /\ Len(rs) = calls[Len(calls)]
             /\ AllReduced(results \o rs, results')
             /\ \A i \in 1..Len(results) : results'[i].told = results[i].told
             /\ \A id \in seen' \ seen : \E i \in DOMAIN results' : id \in results'[i].told
<1>1. stage = "calls" /\ Handle
  BY StepJoins
<1>2. PICK r : Answers(r, Len(round) + 1) /\ Join(r)
  BY StepJoins
<1>3. PICK rs : rs = Append(round, r)
  OBVIOUS
<1>4. /\ r \in Result /\ rs \in Seq(Result) /\ rs # <<>> /\ Len(rs) = Len(round) + 1
      /\ round \in Seq(Result)
  BY <1>1, <1>2, <1>3, JoinCases DEF TypeOK
<1>5. (\A i \in 1..Len(round) : rs[i] = round[i]) /\ rs[Len(round) + 1] = r
  BY <1>3, <1>4, AppendProperties
<1>6. UNCHANGED <<calls, granted>>
  BY <1>1 DEF Handle, turn
<1>7. CASE Len(queue) > 1
  <2>1. queue \in Seq(Calls)
    BY DEF TypeOK
  <2>2. ASSUME Len(queue) = 1 PROVE FALSE
    BY <1>7, <2>1, <2>2
  <2>3. round' = rs /\ UNCHANGED <<stage, results, seen>>
    BY <1>1, <1>2, <1>3, <2>2, JoinCases
  <2> QED BY <1>1, <1>2, <1>3, <1>4, <1>5, <1>6, <2>3
<1>8. CASE ~(Len(queue) > 1)
  <2>1. Len(queue) = 1 /\ EndRound(rs)
    BY <1>1, <1>2, <1>3, <1>8, JoinCases
  <2>2. Len(rs) = calls[Len(calls)]
    BY <1>1, <1>4, <2>1 DEF StageInv
  <2>3. /\ AllReduced(results \o rs, results')
        /\ \A i \in 1..Len(results) : results'[i].told = results[i].told
        /\ \A id \in seen' \ seen : \E i \in DOMAIN results' : id \in results'[i].told
        /\ round' = <<>> /\ NextIter
    BY <1>4, <2>1, RoundEnds DEF TypeOK
  <2>4. stage' # "calls"
    BY <2>3 DEF NextIter
  <2> QED BY <1>1, <1>2, <1>3, <1>4, <1>5, <1>6, <2>2, <2>3, <2>4
<1> QED BY <1>7, <1>8

LEMMA ResultsInvariant == Spec => [](TypeOK /\ StageInv /\ ResultsInv)
<1>1. Init => ResultsInv
  BY DEF Init, ResultsInv, AnswersAll
<1>2. TypeOK /\ StageInv /\ ResultsInv /\ [Next]_vars => ResultsInv'
  <2> SUFFICES ASSUME TypeOK, StageInv, ResultsInv, [Next]_vars PROVE ResultsInv'
    OBVIOUS
  <2>0. /\ calls \in Seq(Nat) /\ Len(calls) \in Nat /\ results \in Seq(Result)
        /\ round \in Seq(Result)
    BY DEF TypeOK
  <2>1. CASE ThinkCalls
    <3>1. /\ stage = "think" /\ stage' = "calls" /\ Len(calls') = Len(calls) + 1
          /\ \A n \in 1..Len(calls) : calls'[n] = calls[n]
          /\ round' = round /\ results' = results
      BY <2>1, NewRound
    <3>2. round' = <<>>
      BY <3>1 DEF StageInv
    <3>3. AnswersAll(results, Len(calls))
      BY <3>1 DEF ResultsInv
    <3>4. \A n \in 1..Len(calls) : Block(results', n, calls'[n])
      <4> SUFFICES ASSUME NEW n \in 1..Len(calls) PROVE Block(results', n, calls'[n])
        OBVIOUS
      <4>1. Block(results, n, calls[n])
        BY <3>3 DEF AnswersAll
      <4> QED BY <3>1, <4>1
    <3>5. Len(calls') - 1 = Len(calls)
      BY <2>0, <3>1
    <3>6. AnswersAll(results, Len(calls) - 1)'
      BY <3>1, <3>3, <3>4, <3>5 DEF AnswersAll
    <3> QED BY <3>1, <3>2, <3>6 DEF ResultsInv
  <2>2. CASE (Think \/ AnswerStep) /\ ~ThinkCalls
    <3>1. UNCHANGED <<round, calls, results>> /\ stage # "calls" /\ stage' # "calls"
      BY <2>2, WorkUnchanged
    <3>2. AnswersAll(results, Len(calls))
      BY <3>1 DEF ResultsInv
    <3>3. AnswersAll(results, Len(calls))'
      <4>1. /\ \A i \in DOMAIN results : results[i].round <= Len(calls)
            /\ \A n \in 1..Len(calls) : Block(results, n, calls[n])
        BY <3>2 DEF AnswersAll
      <4>2. \A i \in DOMAIN results' : results'[i].round <= Len(calls')
        BY <3>1, <4>1
      <4>3. \A n \in 1..Len(calls') : Block(results', n, calls'[n])
        BY <3>1, <4>1
      <4> QED BY <4>2, <4>3 DEF AnswersAll
    <3> QED BY <3>1, <3>3 DEF ResultsInv
  <2>3. CASE CallStep
    <3>1. PICK r : 
            /\ Answers(r, Len(round) + 1)
            /\ stage = "calls" /\ UNCHANGED <<calls, granted>>
            /\ LET rs == Append(round, r) IN
               /\ rs \in Seq(Result) /\ Len(rs) = Len(round) + 1
               /\ \A i \in 1..Len(round) : rs[i] = round[i]
               /\ rs[Len(round) + 1] = r
               /\ \/ /\ stage' = "calls" /\ round' = rs /\ UNCHANGED <<results, seen>>
                  \/ /\ stage' # "calls" /\ round' = <<>>
                     /\ Len(rs) = calls[Len(calls)]
                     /\ AllReduced(results \o rs, results')
      BY <2>3, JoinEffect
    <3>2. PICK rs : rs = Append(round, r)
      OBVIOUS
    <3>3. rs \in Seq(Result) /\ Len(rs) = Len(round) + 1 /\ Len(round) \in Nat
      BY <2>0, <3>1, <3>2
    <3>4. \A i \in 1..Len(rs) : rs[i].round = Len(calls) /\ rs[i].of = i
      <4> SUFFICES ASSUME NEW i \in 1..Len(rs) PROVE rs[i].round = Len(calls) /\ rs[i].of = i
        OBVIOUS
      <4>1. CASE i \in 1..Len(round)
        BY <2>0, <3>1, <3>2, <4>1 DEF ResultsInv
      <4>2. CASE i = Len(round) + 1
        BY <3>1, <3>2, <4>2 DEF Answers
      <4> QED BY <3>3, <4>1, <4>2
    <3>5. AnswersAll(results, Len(calls) - 1)
      BY <3>1 DEF ResultsInv
    <3>6. CASE stage' = "calls"
      <4>1. round' = rs /\ results' = results /\ calls' = calls
        BY <3>1, <3>2, <3>6
      <4>2. AnswersAll(results, Len(calls) - 1)'
        <5>1. /\ \A i \in DOMAIN results : results[i].round <= Len(calls) - 1
              /\ \A n \in 1..(Len(calls) - 1) : Block(results, n, calls[n])
          BY <3>5 DEF AnswersAll
        <5>2. \A i \in DOMAIN results' : results'[i].round <= Len(calls') - 1
          BY <4>1, <5>1
        <5>3. \A n \in 1..(Len(calls') - 1) : Block(results', n, calls'[n])
          BY <4>1, <5>1
        <5> QED BY <5>2, <5>3 DEF AnswersAll
      <4>3. DOMAIN rs = 1..Len(rs)
        BY <3>3
      <4> QED BY <3>4, <3>6, <4>1, <4>2, <4>3 DEF ResultsInv
    <3>7. CASE stage' # "calls"
      <4>1. /\ Len(rs) = calls[Len(calls)] /\ AllReduced(results \o rs, results')
            /\ calls' = calls
        BY <3>1, <3>2, <3>7
      <4>2. Len(calls) # 0 /\ Len(calls) - 1 \in Nat
        BY <2>0, <3>1 DEF StageInv
      <4>3. /\ Len(results) \in Nat /\ Len(rs) \in Nat
            /\ Len(results \o rs) = Len(results) + Len(rs)
            /\ \A i \in 1..Len(results) : (results \o rs)[i] = results[i]
            /\ \A i \in 1..Len(rs) : (results \o rs)[Len(results) + i] = rs[i]
        <5>1. Len(results) \in Nat /\ Len(rs) \in Nat
          BY <2>0, <3>3
        <5>2. Len(results \o rs) = Len(results) + Len(rs)
          BY <2>0, <3>3, ConcatProperties
        <5>3. ASSUME NEW i \in 1..Len(results) PROVE (results \o rs)[i] = results[i]
          <6>1. i \in 1..(Len(results) + Len(rs)) /\ i <= Len(results)
            BY <5>1
          <6> QED BY <2>0, <3>3, <6>1, ConcatProperties
        <5>4. ASSUME NEW i \in 1..Len(rs) PROVE (results \o rs)[Len(results) + i] = rs[i]
          <6>1. /\ Len(results) + i \in 1..(Len(results) + Len(rs))
                /\ ~(Len(results) + i <= Len(results))
                /\ (Len(results) + i) - Len(results) = i
            BY <5>1
          <6> QED BY <2>0, <3>3, <6>1, ConcatProperties
        <5> QED BY <5>1, <5>2, <5>3, <5>4
      <4>4. results' \in Seq(Result) /\ Len(results') = Len(results) + Len(rs)
        BY <4>1, <4>3 DEF AllReduced
      <4>5. \A i \in 1..Len(results) : results'[i].round = results[i].round
                                       /\ results'[i].of = results[i].of
        BY <4>1, <4>3 DEF AllReduced, Reduced
      <4>6. \A i \in 1..Len(rs) : /\ results'[Len(results) + i].round = Len(calls)
                                  /\ results'[Len(results) + i].of = i
        <5> SUFFICES ASSUME NEW i \in 1..Len(rs)
                     PROVE  /\ results'[Len(results) + i].round = Len(calls)
                            /\ results'[Len(results) + i].of = i
          OBVIOUS
        <5>1. Len(results) + i \in 1..Len(results \o rs)
          BY <4>3
        <5>2. Reduced(rs[i], results'[Len(results) + i])
          BY <4>1, <4>3, <5>1 DEF AllReduced
        <5> QED BY <3>4, <5>2 DEF Reduced
      <4>7. \A i \in (Len(results) + 1)..Len(results') : results'[i].round = Len(calls)
        <5> SUFFICES ASSUME NEW i \in (Len(results) + 1)..Len(results')
                     PROVE  results'[i].round = Len(calls)
          OBVIOUS
        <5>1. i - Len(results) \in 1..Len(rs) /\ Len(results) + (i - Len(results)) = i
          BY <4>3, <4>4
        <5> QED BY <4>6, <5>1
      <4>8. \A i \in DOMAIN results' : results'[i].round <= Len(calls)
        <5> SUFFICES ASSUME NEW i \in 1..Len(results') PROVE results'[i].round <= Len(calls)
          BY <4>4
        <5>1. CASE i \in 1..Len(results)
          <6>1. results[i].round <= Len(calls) - 1 /\ results[i].round \in Nat
            BY <2>0, <3>5, <5>1, ResultFields DEF AnswersAll
          <6> QED BY <2>0, <4>5, <5>1, <6>1
        <5>2. CASE i \in (Len(results) + 1)..Len(results')
          BY <2>0, <4>7, <5>2
        <5> QED BY <4>3, <4>4, <5>1, <5>2
      <4>9. \A n \in 1..(Len(calls) - 1) : Block(results', n, calls[n])
        <5> SUFFICES ASSUME NEW n \in 1..(Len(calls) - 1) PROVE Block(results', n, calls[n])
          OBVIOUS
        <5>1. Block(results, n, calls[n]) /\ calls[n] \in Nat /\ n \in Nat /\ n # Len(calls)
          BY <2>0, <3>5 DEF AnswersAll
        <5>2. Len(results) <= Len(results')
          BY <4>3, <4>4
        <5>3. \A i \in (Len(results) + 1)..Len(results') : results'[i].round # n
          BY <4>7, <5>1
        <5> QED BY <2>0, <4>4, <4>5, <5>1, <5>2, <5>3, BlockKept
      <4>10. Block(results', Len(calls), calls[Len(calls)])
        <5>1. \A i \in 1..Len(results) : results'[i].round <= Len(calls) - 1
          BY <2>0, <3>5, <4>5 DEF AnswersAll
        <5>2. Len(calls) = (Len(calls) - 1) + 1
          BY <2>0
        <5>3. Block(results', (Len(calls) - 1) + 1, Len(rs))
          BY <2>0, <4>2, <4>3, <4>4, <4>6, <5>1, <5>2, BlockAdded
        <5> QED BY <4>1, <5>2, <5>3
      <4>11. \A n \in 1..Len(calls) : Block(results', n, calls[n])
        BY <2>0, <4>9, <4>10
      <4>12. AnswersAll(results, Len(calls))'
        BY <4>1, <4>8, <4>11 DEF AnswersAll
      <4> QED BY <3>7, <4>12 DEF ResultsInv
    <3> QED BY <3>6, <3>7
  <2>4. CASE UNCHANGED vars
    <3>1. UNCHANGED <<stage, round, calls, results>>
      BY <2>4 DEF vars
    <3>2. ASSUME NEW n, AnswersAll(results, n) PROVE AnswersAll(results, n)'
      BY <3>1, <3>2 DEF AnswersAll, Block
    <3> QED BY <3>1, <3>2 DEF ResultsInv
  <2> QED BY <2>1, <2>2, <2>3, <2>4 DEF Next, Done
<1> QED BY <1>1, <1>2, AgentTypes, PTL DEF Spec

\* Every request to the model carries one result for every call of its rounds, in their
\* order, whatever was refused, failed, withheld or trimmed.
THEOREM NoCallUnanswered == Spec => []ResultsMatchCalls
<1>1. TypeOK /\ ResultsInv => ResultsMatchCalls
  <2> SUFFICES ASSUME TypeOK, ResultsInv, Asking, NEW n \in DOMAIN calls
               PROVE  Block(results, n, calls[n])
    BY DEF ResultsMatchCalls, Block
  <2>1. stage # "calls" /\ n \in 1..Len(calls)
    BY DEF Asking, TypeOK
  <2> QED BY <2>1 DEF ResultsInv, AnswersAll
<1> QED BY <1>1, ResultsInvariant, PTL

\* What a round or the conversation holds is the caller's own: results are confined when
\* they join a round, and the budgets only take records away from them.
ConfinedInv ==
  /\ \A i \in DOMAIN round : Confined(round[i])
  /\ \A i \in DOMAIN results : Confined(results[i])

LEMMA JoinedConfined ==
  ASSUME TypeOK, StageInv, CallStep, ConfinedInv
  PROVE  ConfinedInv'
<1>1. PICK r :
        /\ Answers(r, Len(round) + 1)
        /\ LET rs == Append(round, r) IN
           /\ rs \in Seq(Result) /\ Len(rs) = Len(round) + 1
           /\ \A i \in 1..Len(round) : rs[i] = round[i]
           /\ rs[Len(round) + 1] = r
           /\ \/ round' = rs /\ results' = results
              \/ round' = <<>> /\ AllReduced(results \o rs, results')
  BY JoinEffect
<1>2. PICK rs : rs = Append(round, r)
  OBVIOUS
<1>3. /\ rs \in Seq(Result) /\ Len(rs) = Len(round) + 1 /\ Len(round) \in Nat
      /\ DOMAIN rs = 1..Len(rs) /\ DOMAIN round = 1..Len(round)
      /\ results \in Seq(Result) /\ Len(results) \in Nat /\ DOMAIN results = 1..Len(results)
  BY <1>1, <1>2 DEF TypeOK
<1>4. \A i \in 1..Len(rs) : Confined(rs[i])
  <2> SUFFICES ASSUME NEW i \in 1..Len(rs) PROVE Confined(rs[i])
    OBVIOUS
  <2>1. CASE i \in 1..Len(round)
    BY <1>1, <1>2, <1>3, <2>1 DEF ConfinedInv
  <2>2. CASE i = Len(round) + 1
    BY <1>1, <1>2, <2>2 DEF Answers
  <2> QED BY <1>3, <2>1, <2>2
<1>5. CASE round' = rs /\ results' = results
  BY <1>3, <1>4, <1>5 DEF ConfinedInv
<1>6. CASE round' = <<>> /\ AllReduced(results \o rs, results')
  <2>1. Len(results \o rs) = Len(results) + Len(rs)
    BY <1>3, ConcatProperties
  <2>2. /\ results' \in Seq(Result) /\ Len(results') = Len(results) + Len(rs)
        /\ DOMAIN results' = 1..Len(results')
    BY <1>6, <2>1 DEF AllReduced
  <2>3. ASSUME NEW i \in 1..Len(results') PROVE Confined(results'[i])
    <3>1. i \in 1..(Len(results) + Len(rs))
      BY <2>2
    <3>2. Reduced((results \o rs)[i], results'[i])
      BY <1>6, <2>1, <3>1 DEF AllReduced
    <3>3. Confined((results \o rs)[i])
      <4>1. (results \o rs)[i] = IF i <= Len(results) THEN results[i] ELSE rs[i - Len(results)]
        BY <1>3, <3>1, ConcatProperties
      <4>2. CASE i <= Len(results)
        BY <1>3, <3>1, <4>1, <4>2 DEF ConfinedInv
      <4>3. CASE ~(i <= Len(results))
        <5>1. i - Len(results) \in 1..Len(rs)
          BY <1>3, <3>1, <4>3
        <5> QED BY <1>4, <4>1, <4>3, <5>1
      <4> QED BY <4>2, <4>3
    <3> QED BY <3>2, <3>3, ReducedConfined
  <2>4. DOMAIN round' = {}
    BY <1>6
  <2> QED BY <2>2, <2>3, <2>4 DEF ConfinedInv, Confined
<1> QED BY <1>1, <1>2, <1>5, <1>6

LEMMA ConfinedInvariant == Spec => []ConfinedInv
<1>1. Init => ConfinedInv
  BY DEF Init, ConfinedInv
<1>2. TypeOK /\ StageInv /\ ConfinedInv /\ [Next]_vars => ConfinedInv'
  <2> SUFFICES ASSUME TypeOK, StageInv, ConfinedInv, [Next]_vars PROVE ConfinedInv'
    OBVIOUS
  <2>1. CASE CallStep
    BY <2>1, JoinedConfined
  <2>2. CASE ~CallStep
    <3>1. UNCHANGED <<round, results>>
      BY <2>2, NewRound, WorkUnchanged DEF Next, Done, vars
    <3> QED BY <3>1 DEF ConfinedInv, Confined
  <2> QED BY <2>1, <2>2
<1> QED BY <1>1, <1>2, AgentTypes, PTL DEF Spec

\* Every record of a filtered list and every document that was gated is about namespaces
\* its caller has on the cluster it came from, the owners of its IPs included; of a flow in
\* a list that holds for one side.  What lies beside an object's list is not looked at.
THEOREM OnlyOnesOwn == Spec => []NothingForeign
<1>1. TypeOK /\ ConfinedInv => NothingForeign
  BY DEF TypeOK, ConfinedInv, Confined, NothingForeign, ToSet
<1> QED BY <1>1, ConfinedInvariant, AgentTypes, PTL

\* Every identifier a call may carry is one of the question or the prompt, or one that a
\* result told the model.
KnownInv == \A id \in seen : id \in Known \/ \E i \in DOMAIN results : id \in results[i].told

LEMMA JoinedKnown ==
  ASSUME TypeOK, StageInv, CallStep, KnownInv
  PROVE  KnownInv' /\ DOMAIN results \subseteq DOMAIN results'
         /\ \A i \in DOMAIN results : results'[i].told = results[i].told
<1>1. PICK r :
        LET rs == Append(round, r) IN
           /\ rs \in Seq(Result) 
           /\ \/ UNCHANGED <<results, seen>>
              \/ /\ AllReduced(results \o rs, results')
                 /\ \A i \in 1..Len(results) : results'[i].told = results[i].told
                 /\ \A id \in seen' \ seen : \E i \in DOMAIN results' : id \in results'[i].told
  BY JoinEffect
<1>2. PICK rs : rs = Append(round, r)
  OBVIOUS
<1>3. results \in Seq(Result) /\ Len(results) \in Nat /\ DOMAIN results = 1..Len(results)
  BY DEF TypeOK
<1>4. CASE UNCHANGED <<results, seen>>
  BY <1>4 DEF KnownInv
<1>5. CASE ~UNCHANGED <<results, seen>>
  <2>1. /\ rs \in Seq(Result) /\ AllReduced(results \o rs, results')
        /\ \A i \in 1..Len(results) : results'[i].told = results[i].told
        /\ \A id \in seen' \ seen : \E i \in DOMAIN results' : id \in results'[i].told
    BY <1>1, <1>2, <1>5
  <2>2. Len(results \o rs) = Len(results) + Len(rs) /\ Len(rs) \in Nat
    BY <1>3, <2>1, ConcatProperties
  <2>3. Len(results') = Len(results) + Len(rs) /\ DOMAIN results' = 1..Len(results')
    BY <2>1, <2>2 DEF AllReduced
  <2>4. DOMAIN results \subseteq DOMAIN results'
    BY <1>3, <2>2, <2>3
  <2>5. ASSUME NEW id \in seen' PROVE id \in Known \/ \E i \in DOMAIN results' : id \in results'[i].told
    <3>1. CASE id \in seen
      BY <1>3, <2>1, <2>4, <3>1 DEF KnownInv
    <3> QED BY <2>1, <3>1
  <2> QED BY <1>3, <2>1, <2>4, <2>5 DEF KnownInv
<1> QED BY <1>4, <1>5

\* A verdict of "run" is every check of the loop passed.
LEMMA VerdictMeans ==
  ASSUME TypeOK, NEW call \in Calls, call.tool # None, NEW k \in Clusters,
         k \in Targets(call), Verdict(call, k) = "run"
  PROVE  LET rule == Rule[call.tool] IN
         /\ rule.approval => Use(call, k) \in Holds
         /\ call.id \in seen \cup {None}
         /\ k \in rule.on
         /\ rule.server \in {"scoped", "shared"} /\ rule.admin => k \in AdminOn
         /\ rule.server = "scoped" /\ ~rule.admin => call.ns \subseteq Scope[k]
<1>1. call \in Call /\ call.tool \in Tools /\ call.ns \in SUBSET Namespaces
  BY AgentConstants DEF Call
<1>2. ~Unapproved(call, k) /\ call.id \in seen \cup {None} /\ Enforced(call, k)
  BY DEF Verdict
<1>3. Rule[call.tool].approval => Use(call, k) \in Holds
  BY <1>2 DEF Unapproved
<1>4. k \in Rule[call.tool].on
  BY DEF Targets, Offered
<1>5. Rule[call.tool].server \in {"scoped", "shared"} /\ Rule[call.tool].admin => k \in AdminOn
  BY <1>2 DEF Enforced
<1>6. Rule[call.tool].server = "scoped" /\ ~Rule[call.tool].admin => call.ns \subseteq Scope[k]
  BY <1>2 DEF Enforced, Check
<1> QED BY <1>2, <1>3, <1>4, <1>5, <1>6

LEMMA RunsInvariant == Spec => [](KnownInv /\ RunsOnlyWhatItMay)
<1>1. Init => KnownInv /\ RunsOnlyWhatItMay
  BY DEF Init, KnownInv, RunsOnlyWhatItMay
<1>2. TypeOK /\ StageInv /\ KnownInv /\ RunsOnlyWhatItMay /\ [Next]_vars
        => (KnownInv /\ RunsOnlyWhatItMay)'
  <2> SUFFICES ASSUME TypeOK, StageInv, KnownInv, RunsOnlyWhatItMay, [Next]_vars
               PROVE  KnownInv' /\ RunsOnlyWhatItMay'
    OBVIOUS
  <2>1. CASE CallStep
    <3>1. /\ KnownInv' /\ DOMAIN results \subseteq DOMAIN results'
          /\ \A i \in DOMAIN results : results'[i].told = results[i].told
      BY <2>1, JoinedKnown
    <3>2. stage = "calls" /\ granted' = granted
      BY <2>1, JoinEffect
    <3>3. CASE ran' = None
      BY <3>1, <3>3 DEF RunsOnlyWhatItMay
    <3>4. CASE ran' # None
      <4>1. PICK k \in Clusters :
              /\ Head(queue).tool # None /\ k \in Targets(Head(queue))
              /\ Verdict(Head(queue), k) = "run" /\ ran' = [call |-> Head(queue), on |-> k]
        BY <2>1, <3>4, StepJoins
      <4>2. PICK call : call = Head(queue)
        OBVIOUS
      <4>3. call \in Calls /\ ran'.call = call /\ ran'.on = k
        BY <3>2, <4>1, <4>2, NextCall
      <4>4. /\ Rule[call.tool].approval => Use(call, k) \in Holds
            /\ call.id \in seen \cup {None}
            /\ k \in Rule[call.tool].on
            /\ Rule[call.tool].server \in {"scoped", "shared"} /\ Rule[call.tool].admin
                 => k \in AdminOn
            /\ Rule[call.tool].server = "scoped" /\ ~Rule[call.tool].admin
                 => call.ns \subseteq Scope[k]
        BY <4>1, <4>2, <4>3, VerdictMeans
      <4>5. Holds' = Holds
        BY <3>2 DEF Holds
      <4>6. PICK told : told = UNION {r.told : r \in ToSet(results')}
        OBVIOUS
      <4>7. call.id \in Known \cup told \cup {None}
        <5>1. CASE call.id \in Known \cup {None}
          BY <5>1
        <5>2. CASE call.id \notin Known \cup {None}
          <6>1. call.id \in seen
            BY <4>4, <5>2
          <6>2. PICK i \in DOMAIN results : call.id \in results[i].told
            BY <5>2, <6>1 DEF KnownInv
          <6>3. results'[i] \in ToSet(results') /\ call.id \in results'[i].told
            BY <3>1, <6>2 DEF ToSet
          <6>4. call.id \in told
            BY <4>6, <6>3
          <6> QED BY <6>4
        <5> QED BY <5>1, <5>2
      <4>8. Rule[call.tool].approval => Use(call, k) \in Holds'
        BY <4>4, <4>5
      <4>9. Use(ran'.call, ran'.on) = Use(call, k)
        BY <4>3
      <4> QED BY <3>1, <4>3, <4>4, <4>6, <4>7, <4>8, <4>9 DEF RunsOnlyWhatItMay, Use
    <3> QED BY <3>3, <3>4
  <2>2. CASE ThinkCalls \/ Think \/ AnswerStep
    <3>1. ran' = None /\ UNCHANGED <<seen, results>>
      BY <2>2, NewRound, WorkUnchanged
    <3> QED BY <3>1 DEF KnownInv, RunsOnlyWhatItMay
  <2>3. CASE UNCHANGED vars
    BY <2>3 DEF vars, KnownInv, RunsOnlyWhatItMay, Holds
  <2> QED BY <2>1, <2>2, <2>3 DEF Next, Done
<1> QED BY <1>1, <1>2, AgentTypes, PTL DEF Spec

\* A call that reaches a server was approved if it needs that, carries no identifier but
\* those of the question, the prompt or a result shown in this turn, and runs where the
\* caller may: as admin, or in the namespaces it names.
THEOREM NothingBeyondScope == Spec => []RunsOnlyWhatItMay
BY RunsInvariant, PTL

\* How often the model was asked, stage by stage: once for every round; at most once more
\* and MaxContinuations times for the answer and its rest; and as much for the review.
WorkInv ==
  LET thinks == Smaller(iter + 1, MaxIter) IN
  /\ stage = "think" => requests <= iter
  /\ stage = "calls" => requests <= iter + 1
  /\ stage = "demand" => requests <= thinks
  /\ stage = "finish" =>
       /\ finishing.conts < MaxContinuations
       /\ finishing.by # "review" => requests <= thinks + 1 + finishing.conts
       /\ finishing.by = "review" =>
            review /\ requests <= thinks + 2 + MaxContinuations + finishing.conts
  /\ stage = "review" => review /\ requests <= thinks + 1 + MaxContinuations
  /\ stage = "done" => requests <= thinks + 1 + MaxContinuations
                                   + IF review THEN 1 + MaxContinuations ELSE 0

LEMMA ThinksType ==
  ASSUME iter \in 0..MaxIter
  PROVE  /\ Smaller(iter + 1, MaxIter) \in Nat /\ iter \in Nat
         /\ iter < MaxIter => Smaller(iter + 1, MaxIter) = iter + 1
         /\ iter = MaxIter => Smaller(iter + 1, MaxIter) = MaxIter
BY ConstantFacts DEF Smaller

\* What ends an answer leaves room for its review.
LEMMA Concluded ==
  ASSUME TypeOK, NEW a, Conclude(a), UNCHANGED <<iter, review>>, requests' \in Nat,
         requests' <= Smaller(iter + 1, MaxIter) + 1 + MaxContinuations
  PROVE  WorkInv'
<1>1. PICK thinks : thinks = Smaller(iter + 1, MaxIter)
  OBVIOUS
<1>2. thinks \in Nat /\ MaxContinuations \in Nat /\ review \in BOOLEAN
  BY <1>1, ThinksType, ConstantFacts DEF TypeOK
<1>3. (stage' = "review" /\ review) \/ stage' = "done"
  BY DEF Conclude
<1>4. Smaller(iter' + 1, MaxIter) = thinks
  BY <1>1
<1>5. requests' <= thinks + 1 + MaxContinuations
  BY <1>1
<1>6. requests' <= thinks + 1 + MaxContinuations + (IF review THEN 1 + MaxContinuations ELSE 0)
  BY <1>2, <1>5
<1> QED BY <1>3, <1>4, <1>5, <1>6 DEF WorkInv

\* The same for a step that ends the turn.
LEMMA Ended ==
  ASSUME stage' = "done", UNCHANGED <<iter, review>>, review,
         requests' <= Smaller(iter + 1, MaxIter) + 1 + MaxContinuations + (1 + MaxContinuations)
  PROVE  WorkInv'
<1>1. PICK thinks : thinks = Smaller(iter + 1, MaxIter)
  OBVIOUS
<1>2. Smaller(iter' + 1, MaxIter) = thinks
  BY <1>1
<1>3. requests' <= thinks + 1 + MaxContinuations + (1 + MaxContinuations)
  BY <1>1
<1> QED BY <1>2, <1>3 DEF WorkInv

\* Asking for the rest of an answer starts to count.
LEMMA CutBegins ==
  ASSUME stage' = "finish", UNCHANGED <<iter, review>>, NEW by, Cut(by), requests' \in Nat,
         iter \in 0..MaxIter,
         by # "review" => requests' <= Smaller(iter + 1, MaxIter) + 1,
         by = "review" => review /\ requests' <= Smaller(iter + 1, MaxIter) + 2 + MaxContinuations
  PROVE  WorkInv'
<1>1. PICK thinks : thinks = Smaller(iter + 1, MaxIter)
  OBVIOUS
<1>2. Smaller(iter' + 1, MaxIter) = thinks /\ thinks \in Nat
  BY <1>1, ThinksType
<1>3. finishing'.by = by /\ finishing'.conts = 0
  BY DEF Cut
<1>4. MaxContinuations \in Nat \ {0}
  BY ConstantFacts
<1>5. by # "review" => requests' <= thinks + 1 + 0
  BY <1>1, <1>2
<1>6. by = "review" => review' /\ requests' <= thinks + 2 + MaxContinuations + 0
  BY <1>1, <1>2, <1>4
<1> QED BY <1>2, <1>3, <1>4, <1>5, <1>6 DEF WorkInv

LEMMA RoundWork ==
  ASSUME TypeOK, StageInv, WorkInv, iter < MaxIter, requests' <= iter + 1, requests' \in Nat, NextIter
  PROVE  WorkInv'
<1>1. /\ iter' = iter + 1 /\ iter' \in 0..MaxIter /\ stage' \in {"think", "demand"}
      /\ stage' = "demand" => iter' = MaxIter
  BY NextIterType DEF TypeOK
<1>2. iter' = MaxIter => Smaller(iter' + 1, MaxIter) = MaxIter
  BY <1>1, ConstantFacts DEF Smaller
<1> QED BY <1>1, <1>2 DEF WorkInv

LEMMA ThinkWork ==
  ASSUME TypeOK, StageInv, WorkInv, Think
  PROVE  WorkInv'
<1>0. PICK thinks : thinks = Smaller(iter + 1, MaxIter)
  OBVIOUS
<1>1. /\ stage = "think" /\ requests' = requests + 1 /\ review' = review
      /\ iter \in 0..MaxIter /\ iter \in Nat /\ requests \in Nat /\ review \in BOOLEAN
  <2>1. stage = "think"
    BY DEF Think, ThinkFails, ThinkIsCut, ThinkCalls, Nudge, Final
  <2>2. requests' = requests + 1 /\ review' = review
    BY NewRound, WorkUnchanged
  <2>3. iter \in 0..MaxIter /\ requests \in Nat /\ review \in BOOLEAN
    BY DEF TypeOK
  <2> QED BY <2>1, <2>2, <2>3, ThinksType
<1>2. iter < MaxIter /\ requests' <= iter + 1 /\ requests' \in Nat
  BY <1>1 DEF StageInv, WorkInv
<1>3. thinks = iter + 1 /\ MaxContinuations \in Nat
  BY <1>0, <1>1, <1>2, ThinksType, ConstantFacts
<1>4. requests' <= thinks + 1 /\ requests' <= thinks + 1 + MaxContinuations
  BY <1>1, <1>2, <1>3
<1>5. CASE ThinkFails
  BY <1>0, <1>1, <1>2, <1>4, <1>5, Concluded DEF ThinkFails
<1>6. CASE ThinkIsCut
  BY <1>0, <1>1, <1>2, <1>4, <1>6, CutBegins DEF ThinkIsCut
<1>7. CASE ThinkCalls
  BY <1>2, <1>7 DEF ThinkCalls, WorkInv
<1>8. CASE \E kind \in {"announces", "preamble", "unmeasured"} : Nudge(kind)
  BY <1>2, <1>8, RoundWork DEF Nudge
<1>9. ASSUME NEW kind \in {"final", "announces", "preamble", "unmeasured"}, Final(kind)
      PROVE  WorkInv'
  <2>1. iter' = iter
    BY <1>9 DEF Final
  <2>2. CASE stage' = "demand"
    <3>1. Smaller(iter' + 1, MaxIter) = iter + 1
      BY <1>0, <1>3, <2>1
    <3> QED BY <1>2, <2>2, <3>1 DEF WorkInv
  <2>3. CASE stage' # "demand"
    <3>1. Conclude(Answered(FALSE, {}))
      BY <1>9, <2>3 DEF Final
    <3> QED BY <1>0, <1>1, <1>2, <1>4, <2>1, <3>1, Concluded
  <2> QED BY <2>2, <2>3
<1> QED BY <1>5, <1>6, <1>7, <1>8, <1>9 DEF Think

LEMMA AnswerWork ==
  ASSUME TypeOK, StageInv, WorkInv, AnswerStep
  PROVE  WorkInv'
<1>0. PICK thinks : thinks = Smaller(iter + 1, MaxIter)
  OBVIOUS
<1>1. /\ requests' = requests + 1 /\ UNCHANGED <<iter, review>>
      /\ iter \in 0..MaxIter /\ requests \in Nat /\ requests' \in Nat /\ review \in BOOLEAN
  <2>1. iter' = iter
    BY DEF AnswerStep, Demand, Review, FinishWhole, FinishCut, FinishFails
  <2>2. stage # "think"
    BY DEF AnswerStep, Demand, Review, FinishWhole, FinishCut, FinishFails
  <2>3. requests' = requests + 1 /\ review' = review
    BY <2>2, WorkUnchanged DEF ThinkCalls
  <2>4. iter \in 0..MaxIter /\ requests \in Nat /\ review \in BOOLEAN
    BY DEF TypeOK
  <2> QED BY <2>1, <2>3, <2>4
<1>2. thinks \in Nat /\ MaxContinuations \in Nat \ {0}
  BY <1>0, <1>1, ThinksType, ConstantFacts
<1>3. finishing \in Finishing /\ finishing.conts \in Nat
  BY DEF TypeOK, Finishing
<1>4. ASSUME NEW outcome, Demand(outcome), outcome \in {"fails", "whole", "cut"} PROVE WorkInv'
  <2>1. stage = "demand" /\ requests <= thinks
    BY <1>0, <1>4 DEF Demand, WorkInv
  <2>2. requests' <= thinks + 1 /\ requests' <= thinks + 1 + MaxContinuations
    BY <1>1, <1>2, <2>1
  <2>3. CASE outcome = "cut"
    <3>1. stage' = "finish" /\ Cut("demand")
      BY <1>4, <2>3 DEF Demand
    <3> QED BY <1>0, <1>1, <2>2, <3>1, CutBegins
  <2>4. CASE outcome # "cut"
    <3>1. \E a : Conclude(a)
      BY <1>4, <2>4 DEF Demand
    <3> QED BY <1>0, <1>1, <2>2, <3>1, Concluded
  <2> QED BY <2>3, <2>4
<1>5. ASSUME NEW outcome, Review(outcome), outcome \in {"fails", "whole", "cut"} PROVE WorkInv'
  <2>1. stage = "review" /\ review /\ requests <= thinks + 1 + MaxContinuations
    BY <1>0, <1>5 DEF Review, WorkInv
  <2>2. /\ requests' <= thinks + 2 + MaxContinuations
        /\ requests' <= thinks + 1 + MaxContinuations + (1 + MaxContinuations)
    BY <1>1, <1>2, <2>1
  <2>3. CASE outcome = "cut"
    <3>1. stage' = "finish" /\ Cut("review")
      BY <1>5, <2>3 DEF Review
    <3> QED BY <1>0, <1>1, <2>1, <2>2, <3>1, CutBegins
  <2>4. CASE outcome # "cut"
    <3>1. stage' = "done"
      BY <1>5, <2>4 DEF Review, Weighed
    <3> QED BY <1>0, <1>1, <2>1, <2>2, <3>1, Ended
  <2> QED BY <2>3, <2>4
<1>6. ASSUME stage = "finish"
      PROVE  /\ finishing.conts < MaxContinuations
             /\ finishing.by # "review" => requests' <= thinks + 2 + finishing.conts
             /\ finishing.by # "review" => requests' <= thinks + 1 + MaxContinuations
             /\ finishing.by = "review" =>
                  /\ review /\ requests' <= thinks + 3 + MaxContinuations + finishing.conts
                  /\ requests' <= thinks + 1 + MaxContinuations + (1 + MaxContinuations)
  <2>1. /\ finishing.conts < MaxContinuations
        /\ finishing.by # "review" => requests <= thinks + 1 + finishing.conts
        /\ finishing.by = "review" =>
             review /\ requests <= thinks + 2 + MaxContinuations + finishing.conts
    BY <1>0, <1>6 DEF WorkInv
  <2> QED BY <1>1, <1>2, <1>3, <2>1
<1>7. ASSUME stage = "finish",
             \/ stage' = "done" /\ finishing.by = "review"
             \/ finishing.by # "review" /\ \E a : Conclude(a)
      PROVE  WorkInv'
  <2>1. CASE finishing.by = "review"
    BY <1>0, <1>1, <1>6, <1>7, <2>1, Ended
  <2>2. CASE finishing.by # "review"
    <3>1. requests' <= thinks + 1 + MaxContinuations /\ \E a : Conclude(a)
      BY <1>6, <1>7, <2>2
    <3> QED BY <1>0, <1>1, <3>1, Concluded
  <2> QED BY <2>1, <2>2
<1>8. ASSUME stage = "finish", NEW cut, NEW notes, Finished(cut, notes) PROVE WorkInv'
  BY <1>7, <1>8 DEF Finished, Weighed
<1>9. ASSUME NEW instead \in BOOLEAN, FinishWhole(instead) PROVE WorkInv'
  BY <1>8, <1>9 DEF FinishWhole
<1>10. ASSUME NEW again \in BOOLEAN, FinishCut(again) PROVE WorkInv'
  <2>1. stage = "finish"
    BY <1>10 DEF FinishCut
  <2>2. CASE ~again
    BY <1>8, <1>10, <2>1, <2>2 DEF FinishCut
  <2>3. CASE again
    <3>1. /\ finishing.conts + 1 < MaxContinuations /\ stage' = "finish"
          /\ finishing' = [finishing EXCEPT !.conts = @ + 1, !.parts = @ + 1, !.shown = @ + 1]
      BY <1>10, <2>1, <2>3 DEF FinishCut
    <3>2. finishing'.conts = finishing.conts + 1 /\ finishing'.by = finishing.by
      BY <1>3, <3>1 DEF Finishing
    <3>3. /\ finishing.by # "review" => requests' <= thinks + 1 + finishing'.conts
          /\ finishing.by = "review" =>
               review' /\ requests' <= thinks + 2 + MaxContinuations + finishing'.conts
      BY <1>1, <1>2, <1>3, <1>6, <2>1, <3>2
    <3>4. Smaller(iter' + 1, MaxIter) = thinks
      BY <1>0, <1>1
    <3> QED BY <3>1, <3>2, <3>3, <3>4 DEF WorkInv
  <2> QED BY <2>2, <2>3
<1>11. ASSUME FinishFails PROVE WorkInv'
  <2>1. stage = "finish" /\ finishing.by # "nobody" /\ finishing.by \in {"run", "demand", "review"}
    BY <1>3, <1>11 DEF FinishFails, StageInv, Finishing
  <2> QED BY <1>7, <1>11, <2>1 DEF FinishFails
<1> QED BY <1>4, <1>5, <1>9, <1>10, <1>11 DEF AnswerStep

LEMMA WorkInvariant == Spec => []WorkInv
<1>1. Init => WorkInv
  BY ConstantFacts DEF Init, WorkInv
<1>2. TypeOK /\ StageInv /\ WorkInv /\ [Next]_vars => WorkInv'
  <2> SUFFICES ASSUME TypeOK, StageInv, WorkInv, [Next]_vars PROVE WorkInv'
    OBVIOUS
  <2>1. CASE Think
    BY <2>1, ThinkWork
  <2>2. CASE AnswerStep
    BY <2>2, AnswerWork
  <2>3. CASE CallStep
    <3>1. PICK r : stage = "calls" /\ Handle /\ Answers(r, Len(round) + 1) /\ Join(r)
      BY <2>3, StepJoins
    <3>2. UNCHANGED <<requests, review>>
      BY <3>1 DEF Handle, turn
    <3>3. iter < MaxIter /\ requests <= iter + 1 /\ requests \in Nat
      BY <3>1 DEF StageInv, WorkInv, TypeOK
    <3>4. CASE UNCHANGED <<stage, iter>>
      BY <3>1, <3>2, <3>3, <3>4 DEF WorkInv
    <3>5. CASE NextIter
      BY <3>2, <3>3, <3>5, RoundWork
    <3> QED BY <3>1, <3>4, <3>5 DEF Join, EndRound
  <2>4. CASE UNCHANGED vars
    BY <2>4 DEF vars, WorkInv
  <2> QED BY <2>1, <2>2, <2>3, <2>4 DEF Next, Done
<1> QED BY <1>1, <1>2, AgentTypes, PTL DEF Spec

\* A turn asks the model once a round, then for the answer and its rest, and, if it is to be
\* reviewed, for the review and its rest.
THEOREM AsksAtMost == Spec => []WorkBounded
<1>1. TypeOK /\ WorkInv => WorkBounded
  <2> SUFFICES ASSUME TypeOK, WorkInv PROVE WorkBounded
    OBVIOUS
  <2>0. PICK thinks : thinks = Smaller(iter + 1, MaxIter)
    OBVIOUS
  <2>1. /\ thinks \in Nat /\ MaxContinuations \in Nat \ {0} /\ iter \in Nat /\ requests \in Nat
        /\ review \in BOOLEAN /\ finishing.conts \in Nat /\ stage \in Stages
        /\ thinks = iter + 1 \/ (iter = MaxIter /\ thinks = MaxIter)
    BY <2>0, ThinksType, ConstantFacts DEF TypeOK, Finishing
  <2>2. CASE stage \in {"think", "calls"}
    <3>1. requests <= thinks + 1
      BY <2>0, <2>1, <2>2 DEF WorkInv
    <3> QED BY <2>0, <2>1, <3>1 DEF WorkBounded
  <2>3. CASE stage = "finish"
    <3>1. /\ finishing.conts < MaxContinuations
          /\ finishing.by # "review" => requests <= thinks + 1 + finishing.conts
          /\ finishing.by = "review" =>
               review /\ requests <= thinks + 2 + MaxContinuations + finishing.conts
      BY <2>0, <2>3 DEF WorkInv
    <3>2. CASE finishing.by = "review"
      BY <2>0, <2>1, <3>1, <3>2 DEF WorkBounded
    <3>3. CASE finishing.by # "review"
      BY <2>0, <2>1, <3>1, <3>3 DEF WorkBounded
    <3> QED BY <3>2, <3>3
  <2>4. CASE stage \in {"demand", "review", "done"}
    BY <2>0, <2>1, <2>4 DEF WorkInv, WorkBounded
  <2> QED BY <2>1, <2>2, <2>3, <2>4 DEF Stages
<1> QED BY <1>1, WorkInvariant, AgentTypes, PTL

-----------------------------------------------------------------------------
(* The conversation is trimmed from its oldest result on *)

LEMMA LeastIsMin ==
  ASSUME NEW T, T \subseteq Nat, T # {}
  PROVE  Min(T) \in T /\ \A n \in T : Min(T) <= n
BY LeastNat DEF Min

\* What is dropped is older than what is kept, the empty apart.
DroppedFirst(rs) ==
  \A i, j \in DOMAIN rs : i < j /\ rs[j].dropped => rs[i].dropped \/ rs[i].size = 0

\* Trimming takes the oldest, and the last it takes is one too few without it.
Trimmed(rs, now) ==
  /\ Fits(now) \/ Trimmable(now) = {}
  /\ DroppedFirst(now)
  /\ \A i \in DOMAIN rs :
       now[i].dropped /\ ~rs[i].dropped /\ (\A j \in DOMAIN now : now[j].dropped => j <= i)
         => ~Fits([now EXCEPT ![i] = rs[i]])

LEMMA TrimTrims ==
  ASSUME NEW rs \in Seq(Result), DroppedFirst(rs)
  PROVE  Trimmed(rs, Trim(rs)) /\ DOMAIN Trim(rs) = DOMAIN rs
<1>1. CASE Fits(rs)
  BY <1>1 DEF Trim, Trimmed
<1>2. CASE ~Fits(rs)
  <2> DEFINE enough == {m \in DOMAIN rs : Fits(DropUpTo(rs, m))}
             each(i, m) == IF i <= m /\ i \in Trimmable(rs) THEN Dropped(rs[i]) ELSE rs[i]
  <2>0. PICK len \in Nat : DOMAIN rs = 1..len /\ Len(rs) = len
    OBVIOUS
  <2>1. PICK n \in 0..len :
          /\ Trim(rs) = DropUpTo(rs, n)
          /\ enough = {} => n = len
          /\ enough # {} => n \in enough /\ \A m \in enough : n <= m
    <3>1. enough \subseteq Nat /\ enough \subseteq 0..len
      BY <2>0
    <3>2. Trim(rs) = DropUpTo(rs, IF enough = {} THEN len ELSE Min(enough))
      BY <1>2, <2>0 DEF Trim
    <3> HIDE DEF enough
    <3>3. CASE enough = {}
      BY <2>0, <3>2, <3>3
    <3>4. CASE enough # {}
      BY <3>1, <3>2, <3>4, LeastIsMin
    <3> QED BY <3>3, <3>4
  <2>2. PICK now : now = Trim(rs)
    OBVIOUS
  <2>3. \A m \in 0..len : DropUpTo(rs, m) = [i \in DOMAIN rs |-> each(i, m)]
    BY DEF DropUpTo
  <2>4. \A i \in DOMAIN rs : Dropped(rs[i]).dropped
    <3>1. \A r \in Result : Dropped(r).dropped
      BY DEF Dropped, Result
    <3> QED BY <3>1
  <2>5. \A i \in DOMAIN rs, m \in 0..len :
          /\ i <= m /\ i \in Trimmable(rs) => each(i, m) = Dropped(rs[i])
          /\ ~(i <= m /\ i \in Trimmable(rs)) => each(i, m) = rs[i]
    OBVIOUS
  <2> HIDE DEF each
  <2>6. DOMAIN now = DOMAIN rs /\ \A i \in DOMAIN rs : now[i] = each(i, n)
    BY <2>1, <2>2, <2>3
  <2>7. \A i \in DOMAIN rs :
          /\ i <= n /\ i \in Trimmable(rs) => now[i].dropped
          /\ ~(i <= n /\ i \in Trimmable(rs)) => now[i] = rs[i]
    BY <2>4, <2>5, <2>6
  <2>8. Fits(now) \/ Trimmable(now) = {}
    <3>1. CASE enough # {}
      <4>1. n \in enough
        BY <2>1, <3>1
      <4> QED BY <2>1, <2>2, <4>1
    <3>2. CASE enough = {}
      <4>1. n = len
        BY <2>1, <3>2
      <4>2. ASSUME NEW i \in Trimmable(now) PROVE FALSE
        <5>1. i \in DOMAIN rs /\ now[i].size # 0 /\ ~now[i].dropped
          BY <2>6 DEF Trimmable
        <5>2. i \notin Trimmable(rs)
          BY <2>0, <2>7, <4>1, <5>1
        <5>3. now[i] = rs[i]
          BY <2>7, <5>1, <5>2
        <5> QED BY <5>1, <5>2, <5>3 DEF Trimmable
      <4> QED BY <4>2
    <3> QED BY <3>1, <3>2
  <2>9. DroppedFirst(now)
    <3> SUFFICES ASSUME NEW i \in DOMAIN rs, NEW j \in DOMAIN rs, i < j, now[j].dropped,
                        ~now[i].dropped
                 PROVE  now[i].size = 0
      BY <2>6 DEF DroppedFirst
    <3>1. CASE i <= n
      <4>1. i \notin Trimmable(rs) /\ now[i] = rs[i]
        BY <2>7, <3>1
      <4> QED BY <4>1 DEF Trimmable
    <3>2. CASE ~(i <= n)
      <4>1. ~(j <= n)
        BY <2>0, <2>1, <3>2
      <4>2. now[i] = rs[i] /\ now[j] = rs[j]
        BY <2>7, <3>2, <4>1
      <4> QED BY <4>2 DEF DroppedFirst
    <3> QED BY <3>1, <3>2
  <2>10. ASSUME NEW i \in DOMAIN rs, now[i].dropped, ~rs[i].dropped,
                \A j \in DOMAIN now : now[j].dropped => j <= i
         PROVE  ~Fits([now EXCEPT ![i] = rs[i]])
    <3>1. i <= n /\ i \in Trimmable(rs)
      BY <2>7, <2>10
    <3>2. i - 1 \in 0..len /\ i \in Nat
      BY <2>0
    <3>3. ASSUME NEW j \in DOMAIN rs PROVE [now EXCEPT ![i] = rs[i]][j] = each(j, i - 1)
      <4>1. j \in Nat
        BY <2>0
      <4>2. CASE j = i
        <5>1. ~(i <= i - 1)
          BY <3>2
        <5>2. each(j, i - 1) = rs[i]
          BY <2>5, <3>2, <4>2, <5>1
        <5> QED BY <2>6, <4>2, <5>2
      <4>3. CASE j < i
        <5>1. j <= n /\ j <= i - 1
          BY <2>0, <2>1, <3>1, <4>3
        <5>2. each(j, n) = each(j, i - 1)
          BY <2>1, <2>5, <3>2, <5>1
        <5> QED BY <2>6, <4>1, <4>3, <5>2
      <4>4. CASE j > i
        <5>1. ~now[j].dropped
          BY <2>6, <2>10, <3>2, <4>1, <4>4
        <5>2. now[j] = rs[j]
          BY <2>7, <5>1
        <5>3. each(j, i - 1) = rs[j]
          BY <2>5, <3>2, <4>1, <4>4
        <5> QED BY <2>6, <3>2, <4>1, <4>4, <5>2, <5>3
      <4> QED BY <3>2, <4>1, <4>2, <4>3, <4>4
    <3>4. [now EXCEPT ![i] = rs[i]] = DropUpTo(rs, i - 1)
      <4>1. DOMAIN [now EXCEPT ![i] = rs[i]] = DOMAIN rs
        BY <2>6
      <4>2. [now EXCEPT ![i] = rs[i]] = [j \in DOMAIN rs |-> [now EXCEPT ![i] = rs[i]][j]]
        BY <2>6
      <4> QED BY <2>3, <3>2, <3>3, <4>2
    <3>5. ~Fits(DropUpTo(rs, i - 1))
      <4>1. CASE i = 1
        <5>1. \A j \in DOMAIN rs : each(j, 0) = rs[j]
          BY <2>0, <2>5
        <5>2. DropUpTo(rs, 0) = rs
          BY <2>0, <2>3, <5>1
        <5> QED BY <1>2, <4>1, <5>2
      <4>2. CASE i # 1
        <5>1. i - 1 \in DOMAIN rs /\ ~(n <= i - 1)
          BY <2>0, <2>1, <3>1, <4>2
        <5>2. i - 1 \notin enough
          BY <2>1, <5>1
        <5> QED BY <5>1, <5>2
      <4> QED BY <4>1, <4>2
    <3> QED BY <3>4, <3>5
  <2> QED BY <2>2, <2>6, <2>8, <2>9, <2>10 DEF Trimmed
<1> QED BY <1>1, <1>2

\* The end of a round trims the conversation with the round's results, none of them dropped.
LEMMA RoundTrims ==
  ASSUME results \in Seq(Result), NEW rs \in Seq(Result), rs # <<>>, EndRound(rs),
         \A i \in 1..Len(rs) : ~rs[i].dropped
  PROVE  \E all \in Seq(Result) :
           /\ results' = Trim(all) /\ Len(results) <= Len(all)
           /\ \A i \in 1..Len(results) : all[i] = results[i]
           /\ \A i \in (Len(results) + 1)..Len(all) : ~all[i].dropped
<1>1. PICK capped : capped = CapRound(rs)
  OBVIOUS
<1>2. /\ capped \in Seq(Result) /\ Len(capped) = Len(rs)
      /\ \A i \in 1..Len(rs) : ~capped[i].dropped
  BY <1>1, CapReduces DEF AllReduced
<1>3. PICK done : done = Noted(capped)
  OBVIOUS
<1>4. /\ done \in Seq(Result) /\ Len(done) = Len(rs)
      /\ \A i \in 1..Len(rs) : ~done[i].dropped
  BY <1>2, <1>3, NoteReduces DEF AllReduced
<1>5. PICK all : all = results \o done
  OBVIOUS
<1>6. results' = Trim(all)
  BY <1>1, <1>3, <1>5 DEF EndRound
<1>7. PICK m \in Nat, n \in Nat : Len(results) = m /\ Len(done) = n
  BY <1>4
<1>8. /\ all \in Seq(Result) /\ Len(all) = m + n
      /\ \A i \in 1..(m + n) : all[i] = IF i <= m THEN results[i] ELSE done[i - m]
  <2>1. all \in Seq(Result)
    BY <1>4, <1>5, ConcatProperties
  <2>2. Len(all) = Len(results) + Len(done)
    BY <1>4, <1>5, ConcatProperties
  <2>3. \A i \in 1..(Len(results) + Len(done)) :
          all[i] = IF i <= Len(results) THEN results[i] ELSE done[i - Len(results)]
    BY <1>4, <1>5, ConcatProperties
  <2> QED BY <1>7, <2>1, <2>2, <2>3
<1>9. ASSUME NEW i \in 1..m PROVE all[i] = results[i]
  BY <1>7, <1>8
<1>10. ASSUME NEW i \in (m + 1)..(m + n) PROVE ~all[i].dropped
  <2>1. i \in 1..(m + n) /\ ~(i <= m) /\ i - m \in 1..n
    BY <1>7
  <2> QED BY <1>4, <1>7, <1>8, <2>1
<1>11. Len(results) <= Len(all)
  BY <1>7, <1>8
<1> QED BY <1>6, <1>7, <1>8, <1>9, <1>10, <1>11

\* What a step that ends a round makes of the conversation.
LEMMA JoinTrims ==
  ASSUME TypeOK, StageInv, CallStep, \A i \in DOMAIN round : ~round[i].dropped
  PROVE  /\ \A i \in DOMAIN round' : ~round'[i].dropped
         /\ \/ stage' = "calls" /\ results' = results
            \/ \E all \in Seq(Result) :
                 /\ results' = Trim(all) /\ Len(results) <= Len(all)
                 /\ \A i \in 1..Len(results) : all[i] = results[i]
                 /\ \A i \in (Len(results) + 1)..Len(all) : ~all[i].dropped
<1>1. PICK r : stage = "calls" /\ Handle /\ Answers(r, Len(round) + 1) /\ Join(r)
  BY StepJoins
<1>2. PICK rs : rs = Append(round, r)
  OBVIOUS
<1>3. PICK n \in Nat : Len(round) = n /\ DOMAIN round = 1..n /\ round \in Seq(Result)
  BY DEF TypeOK
<1>4. /\ rs \in Seq(Result) /\ rs # <<>> /\ Len(rs) = n + 1
      /\ \A i \in 1..n : rs[i] = round[i]
      /\ rs[n + 1] = r
  BY <1>1, <1>2, <1>3 DEF Answers
<1>5. ASSUME NEW i \in 1..(n + 1) PROVE ~rs[i].dropped
  <2>1. CASE i \in 1..n
    BY <1>3, <1>4, <2>1
  <2>2. CASE i = n + 1
    BY <1>1, <1>4, <2>2 DEF Answers
  <2> QED BY <2>1, <2>2
<1>6. CASE Len(queue) > 1
  <2>1. queue \in Seq(Calls)
    BY DEF TypeOK
  <2>2. round' = rs /\ UNCHANGED <<stage, results>>
    BY <1>1, <1>2, <1>6 DEF Join
  <2>3. DOMAIN rs = 1..(n + 1)
    BY <1>4
  <2> QED BY <1>1, <1>5, <2>2, <2>3
<1>7. CASE ~(Len(queue) > 1)
  <2>1. EndRound(rs)
    BY <1>1, <1>2, <1>7 DEF Join
  <2>2. \A i \in 1..Len(rs) : ~rs[i].dropped
    BY <1>4, <1>5
  <2>3. round' = <<>> /\ results \in Seq(Result)
    BY <2>1 DEF EndRound, TypeOK
  <2>4. DOMAIN round' = {}
    BY <2>3
  <2> QED BY <1>4, <2>1, <2>2, <2>3, <2>4, RoundTrims
<1> QED BY <1>6, <1>7

\* The conversation has dropped its oldest results, and a round none of its own.
TrimInv == DroppedFirst(results) /\ \A i \in DOMAIN round : ~round[i].dropped

LEMMA TrimStep ==
  ASSUME TypeOK, StageInv, TrimInv, CallStep
  PROVE  /\ TrimInv'
         /\ stage' # "calls" => 
              LET now  == results'
                  gone == {i \in DOMAIN results : now[i].dropped /\ ~results[i].dropped}
              IN /\ Fits(now) \/ Trimmable(now) = {}
                 /\ DroppedFirst(now)
                 /\ \A i \in gone : (\A j \in DOMAIN now : now[j].dropped => j <= i) =>
                      ~Fits([now EXCEPT ![i] = results[i]])
<1>1. CASE stage' = "calls" /\ results' = results
  BY <1>1, JoinTrims DEF TrimInv, DroppedFirst
<1>2. CASE ~(stage' = "calls" /\ results' = results)
  <2>1. PICK all \in Seq(Result) :
          /\ results' = Trim(all) /\ Len(results) <= Len(all)
          /\ \A i \in 1..Len(results) : all[i] = results[i]
          /\ \A i \in (Len(results) + 1)..Len(all) : ~all[i].dropped
    BY <1>2, JoinTrims DEF TrimInv
  <2>2. PICK m \in Nat, n \in Nat :
          /\ Len(results) = m /\ DOMAIN results = 1..m
          /\ Len(all) = n /\ DOMAIN all = 1..n /\ m <= n
    BY <2>1 DEF TypeOK
  <2>3. DroppedFirst(all)
    <3> SUFFICES ASSUME NEW i \in 1..n, NEW j \in 1..n, i < j, all[j].dropped
                 PROVE  all[i].dropped \/ all[i].size = 0
      BY <2>2 DEF DroppedFirst
    <3>1. j \in 1..m
      BY <2>1, <2>2
    <3>2. i \in 1..m
      BY <2>2, <3>1
    <3> QED BY <2>1, <2>2, <3>1, <3>2 DEF TrimInv, DroppedFirst
  <2>4. Trimmed(all, results')
    BY <2>1, <2>3, TrimTrims
  <2>5. DroppedFirst(results)'
    BY <2>4 DEF Trimmed, DroppedFirst
  <2>6. TrimInv'
    BY <2>5, JoinTrims DEF TrimInv
  <2>7. PICK now : now = results'
    OBVIOUS
  <2>8. ASSUME NEW i \in DOMAIN results, now[i].dropped, ~results[i].dropped,
               \A j \in DOMAIN now : now[j].dropped => j <= i
        PROVE  ~Fits([now EXCEPT ![i] = results[i]])
    <3>1. i \in DOMAIN all /\ all[i] = results[i]
      BY <2>1, <2>2
    <3> QED BY <2>4, <2>7, <2>8, <3>1 DEF Trimmed
  <2>9. (Fits(now) \/ Trimmable(now) = {}) /\ DroppedFirst(now)
    BY <2>4, <2>7 DEF Trimmed
  <2> QED BY <2>6, <2>7, <2>8, <2>9
<1> QED BY <1>1, <1>2

LEMMA TrimInvariant == Spec => []TrimInv
<1>1. Init => TrimInv
  BY DEF Init, TrimInv, DroppedFirst
<1>2. TypeOK /\ StageInv /\ TrimInv /\ [Next]_vars => TrimInv'
  <2> SUFFICES ASSUME TypeOK, StageInv, TrimInv, [Next]_vars PROVE TrimInv'
    OBVIOUS
  <2>1. CASE CallStep
    BY <2>1, TrimStep
  <2>2. CASE ~CallStep
    <3>1. UNCHANGED <<round, results>>
      BY <2>2, NewRound, WorkUnchanged DEF Next, Done, vars
    <3> QED BY <3>1 DEF TrimInv, DroppedFirst
  <2> QED BY <2>1, <2>2
<1> QED BY <1>1, <1>2, AgentTypes, PTL DEF Spec

\* A round that does not fit drops results from the oldest on, and no more of them than it
\* must; after it the conversation fits or has nothing left to drop.
THEOREM OldestGoFirst == Spec => KeepsTheNewest
<1> DEFINE Good ==
      stage = "calls" /\ stage' # "calls" =>
        LET now  == results'
            gone == {i \in DOMAIN results : now[i].dropped /\ ~results[i].dropped}
        IN /\ Fits(now) \/ Trimmable(now) = {}
           /\ \A i, j \in DOMAIN now : i < j /\ now[j].dropped => now[i].dropped \/ now[i].size = 0
           /\ \A i \in gone : (\A j \in DOMAIN now : now[j].dropped => j <= i) =>
                ~Fits([now EXCEPT ![i] = results[i]])
<1>1. TypeOK /\ StageInv /\ TrimInv /\ [Next]_vars => [Good]_vars
  <2> SUFFICES ASSUME TypeOK, StageInv, TrimInv, Next, stage = "calls", stage' # "calls" PROVE Good
    OBVIOUS
  <2>1. CallStep
    BY NewRound, WorkUnchanged DEF Next, Done, vars
  <2> QED BY <2>1, TrimStep DEF DroppedFirst
<1> QED BY <1>1, AgentTypes, TrimInvariant, PTL DEF Spec, KeepsTheNewest

-----------------------------------------------------------------------------
(* Order and rank                                                             *)

LEMMA GreatestNat ==
  ASSUME NEW T, T \subseteq Nat, T # {}, IsFiniteSet(T)
  PROVE  Max(T) \in T /\ \A n \in T : n <= Max(T)
<1> DEFINE Above == {{n \in T : n > k} : k \in T}
<1>1. IsWellFoundedOn(StrictSubsetOrdering(T), FiniteSubsetsOf(T))
  BY FS_StrictSubsetOrderingWellFounded
<1>2. Above \subseteq FiniteSubsetsOf(T) /\ Above # {}
  <2> SUFFICES ASSUME NEW b \in Above PROVE b \in FiniteSubsetsOf(T)
    OBVIOUS
  <2>1. b \in SUBSET T
    OBVIOUS
  <2>2. IsFiniteSet(b)
    BY <2>1, FS_Subset
  <2> QED BY <2>1, <2>2 DEF FiniteSubsetsOf
<1>3. PICK r \in Above : \A q \in Above : <<q, r>> \notin StrictSubsetOrdering(T)
  <2> HIDE DEF Above
  <2> QED BY <1>1, <1>2, WFMin
<1>4. PICK m \in T : r = {n \in T : n > m}
  OBVIOUS
<1>5. ASSUME NEW n \in T, n > m PROVE FALSE
  <2>1. PICK q : q = {k \in T : k > n}
    OBVIOUS
  <2>2. q \in Above
    BY <2>1
  <2>3. r \subseteq T /\ n \in r /\ n \notin q
    BY <1>4, <1>5, <2>1
  <2>4. ASSUME NEW k \in q PROVE k \in r
    BY <1>4, <1>5, <2>1
  <2>5. <<q, r>> \in StrictSubsetOrdering(T)
    BY <2>3, <2>4 DEF StrictSubsetOrdering
  <2> QED BY <1>3, <2>2, <2>5
<1>6. \A n \in T : m >= n
  BY <1>5
<1>7. \A k \in T : (\A n \in T : k >= n) => k = m
  BY <1>6
<1> QED BY <1>6, <1>7 DEF Max

\* A strict order that is total on S, as a set of pairs.
Ranked(R, S) ==
  /\ \A x \in S : <<x, x>> \notin R
  /\ \A x, y, z \in S : <<x, y>> \in R /\ <<y, z>> \in R => <<x, z>> \in R
  /\ \A x, y \in S : x = y \/ <<x, y>> \in R \/ <<y, x>> \in R

Rank(R, S, x) == Cardinality({y \in S : <<y, x>> \in R})

LEMMA RankType ==
  ASSUME NEW S, IsFiniteSet(S), NEW R, Ranked(R, S), NEW x \in S
  PROVE  Rank(R, S, x) \in 0..(Cardinality(S) - 1)
<1>1. PICK B : B = {y \in S : <<y, x>> \in R}
  OBVIOUS
<1>2. B \in SUBSET S /\ x \notin B
  BY <1>1 DEF Ranked
<1>3. IsFiniteSet(B) /\ Cardinality(B) <= Cardinality(S) /\ (Cardinality(S) = Cardinality(B) => S = B)
  BY <1>2, FS_Subset
<1>4. Cardinality(B) \in Nat /\ Cardinality(S) \in Nat
  BY <1>3, FS_CardinalityType
<1>5. Cardinality(S) # Cardinality(B)
  BY <1>2, <1>3
<1> QED BY <1>1, <1>3, <1>4, <1>5 DEF Rank

LEMMA RankGrows ==
  ASSUME NEW S, IsFiniteSet(S), NEW R, Ranked(R, S), NEW x \in S, NEW y \in S, <<x, y>> \in R
  PROVE  Rank(R, S, x) < Rank(R, S, y)
<1>1. PICK A : A = {z \in S : <<z, x>> \in R}
  OBVIOUS
<1>2. PICK B : B = {z \in S : <<z, y>> \in R}
  OBVIOUS
<1>3. A \in SUBSET B /\ x \in B /\ x \notin A /\ B \in SUBSET S
  BY <1>1, <1>2 DEF Ranked
<1>4. IsFiniteSet(B)
  BY <1>3, FS_Subset
<1>5. IsFiniteSet(A) /\ Cardinality(A) <= Cardinality(B) /\ (Cardinality(B) = Cardinality(A) => B = A)
  BY <1>3, <1>4, FS_Subset
<1>6. Cardinality(A) \in Nat /\ Cardinality(B) \in Nat /\ Cardinality(A) # Cardinality(B)
  BY <1>3, <1>4, <1>5, FS_CardinalityType
<1> QED BY <1>1, <1>2, <1>5, <1>6 DEF Rank

\* The ranks are the numbers below the size of the set, each once.
LEMMA RanksAll ==
  ASSUME NEW S, IsFiniteSet(S), NEW R, Ranked(R, S), NEW n \in Nat, n = Cardinality(S)
  PROVE  [x \in S |-> Rank(R, S, x)] \in Bijection(S, 0..(n - 1))
<1>1. PICK f : f = [x \in S |-> Rank(R, S, x)]
  OBVIOUS
<1>2. f \in [S -> 0..(n - 1)]
  BY <1>1, RankType
<1>3. \A x, y \in S : f[x] = f[y] => x = y
  <2> SUFFICES ASSUME NEW x \in S, NEW y \in S, x # y PROVE f[x] # f[y]
    OBVIOUS
  <2>1. f[x] \in Nat /\ f[y] \in Nat
    BY <1>2
  <2>2. <<x, y>> \in R \/ <<y, x>> \in R
    BY DEF Ranked
  <2>3. f[x] < f[y] \/ f[y] < f[x]
    BY <1>1, <2>2, RankGrows
  <2> QED BY <2>1, <2>3
<1>4. f \in Injection(S, 0..(n - 1))
  BY <1>2, <1>3 DEF Injection, IsInjective
<1>5. IsFiniteSet(0..(n - 1)) /\ Cardinality(0..(n - 1)) = n
  <2>1. 0 \in Int /\ n - 1 \in Int
    OBVIOUS
  <2>2. IsFiniteSet(0..(n - 1)) /\ Cardinality(0..(n - 1)) = (IF 0 > n - 1 THEN 0 ELSE n - 1 - 0 + 1)
    BY <2>1, FS_Interval
  <2> QED BY <2>2
<1>6. f \in Surjection(S, 0..(n - 1))
  BY <1>4, <1>5, FS_Injection
<1> QED BY <1>1, <1>4, <1>6 DEF Bijection

\* Exactly one element has each rank.
LEMMA RankTaken ==
  ASSUME NEW S, IsFiniteSet(S), NEW R, Ranked(R, S), NEW k \in 0..(Cardinality(S) - 1)
  PROVE  \E x \in S : Rank(R, S, x) = k
<1>1. PICK n \in Nat : n = Cardinality(S)
  BY FS_CardinalityType
<1>2. PICK f : f = [x \in S |-> Rank(R, S, x)]
  OBVIOUS
<1>3. f \in Surjection(S, 0..(n - 1))
  BY <1>1, <1>2, RanksAll DEF Bijection
<1>4. \E x \in S : f[x] = k
  BY <1>1, <1>3 DEF Surjection
<1> QED BY <1>2, <1>4

\* Those of rank below k are k, or all.
LEMMA RankedBelow ==
  ASSUME NEW S, IsFiniteSet(S), NEW R, Ranked(R, S), NEW k \in Nat
  PROVE  Cardinality({x \in S : Rank(R, S, x) < k})
           = IF k <= Cardinality(S) THEN k ELSE Cardinality(S)
<1>1. PICK n \in Nat : n = Cardinality(S)
  BY FS_CardinalityType
<1>2. PICK F : F = {x \in S : Rank(R, S, x) < k}
  OBVIOUS
<1>3. PICK m \in Nat : m = IF k <= n THEN k ELSE n
  OBVIOUS
<1>4. PICK f : f = [x \in S |-> Rank(R, S, x)]
  OBVIOUS
<1>5. /\ f \in [S -> 0..(n - 1)] /\ \A x, y \in S : f[x] = f[y] => x = y
      /\ \A i \in 0..(n - 1) : \E x \in S : f[x] = i
  <2>1. f \in Bijection(S, 0..(n - 1))
    BY <1>1, <1>4, RanksAll
  <2> QED BY <2>1 DEF Bijection, Injection, Surjection, IsInjective
<1>6. PICK g : g = [x \in F |-> f[x]]
  OBVIOUS
<1>7. F \in SUBSET S /\ \A x \in S : x \in F <=> f[x] < k
  BY <1>2, <1>4
<1>8. g \in [F -> 0..(m - 1)]
  <2> SUFFICES ASSUME NEW x \in F PROVE f[x] \in 0..(m - 1)
    BY <1>6
  <2>1. f[x] \in 0..(n - 1) /\ f[x] < k
    BY <1>5, <1>7
  <2> QED BY <1>3, <2>1
<1>9. \A i \in 0..(m - 1) : \E x \in F : g[x] = i
  <2> SUFFICES ASSUME NEW i \in 0..(m - 1) PROVE \E x \in F : g[x] = i
    OBVIOUS
  <2>1. i \in 0..(n - 1) /\ i < k
    BY <1>3
  <2>2. PICK x \in S : f[x] = i
    BY <1>5, <2>1
  <2> QED BY <1>6, <1>7, <2>1, <2>2
<1>10. \A x, y \in F : g[x] = g[y] => x = y
  BY <1>5, <1>6, <1>7
<1>11. g \in Surjection(F, 0..(m - 1)) /\ g \in Injection(F, 0..(m - 1))
  BY <1>8, <1>9, <1>10 DEF Surjection, Injection, IsInjective
<1>12. IsFiniteSet(0..(m - 1)) /\ Cardinality(0..(m - 1)) = m
  BY FS_Interval
<1>13. Cardinality(F) = Cardinality(0..(m - 1))
  BY <1>11, <1>12, FS_Injection
<1> QED BY <1>1, <1>2, <1>3, <1>12, <1>13

-----------------------------------------------------------------------------
(* The routes of an offer                                                     *)

LEMMA BeforeOrders ==
  /\ \A p \in Nat \X Nat : ~Before(p, p)
  /\ \A p, q, r \in Nat \X Nat : Before(p, q) /\ Before(q, r) => Before(p, r)
  /\ \A p, q \in Nat \X Nat : p = q \/ Before(p, q) \/ Before(q, p)
<1>1. ASSUME NEW p \in Nat \X Nat, NEW q \in Nat \X Nat, NEW r \in Nat \X Nat
      PROVE  /\ ~Before(p, p) /\ (Before(p, q) /\ Before(q, r) => Before(p, r))
             /\ p = q \/ Before(p, q) \/ Before(q, p)
  <2>1. PICK a \in Nat, b \in Nat : p = <<a, b>>
    OBVIOUS
  <2>2. PICK c \in Nat, d \in Nat : q = <<c, d>>
    OBVIOUS
  <2>3. PICK e \in Nat, f \in Nat : r = <<e, f>>
    OBVIOUS
  <2> QED BY <2>1, <2>2, <2>3 DEF Before
<1> QED BY <1>1

LEMMA FirstPlace ==
  ASSUME NEW P, P \subseteq Nat \X Nat, P # {}
  PROVE  \E p \in P : \A q \in P : p = q \/ Before(p, q)
<1>1. PICK A : A = {n \in Nat : \E q \in P : q[1] = n}
  OBVIOUS
<1>2. A \subseteq Nat /\ A # {}
  <2>1. PICK q \in P : TRUE
    OBVIOUS
  <2>2. q[1] \in Nat
    OBVIOUS
  <2> QED BY <1>1, <2>2
<1>3. PICK a \in A : \A n \in A : a <= n
  BY <1>2, LeastNat
<1>4. PICK B : B = {n \in Nat : \E q \in P : q[1] = a /\ q[2] = n}
  OBVIOUS
<1>5. B \subseteq Nat /\ B # {}
  <2>1. PICK q \in P : q[1] = a
    BY <1>1
  <2>2. q[2] \in Nat
    OBVIOUS
  <2> QED BY <1>4, <2>1, <2>2
<1>6. PICK b \in B : \A n \in B : b <= n
  BY <1>5, LeastNat
<1>7. PICK p \in P : p[1] = a /\ p[2] = b
  <2>1. b \in {n \in Nat : \E q \in P : q[1] = a /\ q[2] = n}
    BY <1>4
  <2> QED BY <2>1
<1>8. ASSUME NEW q \in P PROVE p = q \/ Before(p, q)
  <2>1. q \in Nat \X Nat /\ p \in Nat \X Nat
    OBVIOUS
  <2>2. PICK c \in Nat, d \in Nat : q = <<c, d>>
    BY <2>1
  <2>3. p = <<a, b>>
    BY <1>7, <2>1
  <2>4. c \in A /\ a \in Nat /\ b \in Nat
    BY <1>1, <1>2, <1>5, <2>2
  <2>5. a <= c
    BY <1>3, <2>4
  <2>6. CASE a = c
    <3>1. d \in B
      BY <1>4, <2>2, <2>6
    <3>2. b <= d
      BY <1>6, <3>1
    <3> QED BY <2>2, <2>3, <2>4, <2>6, <3>2 DEF Before
  <2>7. CASE a < c
    BY <2>2, <2>3, <2>7 DEF Before
  <2> QED BY <2>4, <2>5, <2>6, <2>7
<1> QED BY <1>8

OfferTyped == question \in Questions /\ listed \subseteq DOMAIN Sources

LEMMA SourcesType ==
  /\ Sources \in Seq(ClusterSet \cup GroupSet)
  /\ \A i \in DOMAIN Sources : i \in Nat /\ Sources[i] \in ClusterSet \cup GroupSet
<1>1. Configured \in Seq(ClusterSet \cup GroupSet) /\ Groups \in Seq(ClusterSet \cup GroupSet)
  BY OfferConstants
<1>2. Sources \in Seq(ClusterSet \cup GroupSet)
  BY <1>1 DEF Sources
<1> QED BY <1>2

LEMMA QuestionType ==
  ASSUME question \in Questions
  PROVE  /\ question \in Question
         /\ \A s \in ClusterSet \cup GroupSet :
              question.lists[s] \in Seq([tool: ToolSet, server: Nat]) /\ Distinct(question.lists[s])
<1>1. question \in Question /\ \A s \in DOMAIN question.lists : Distinct(question.lists[s])
  BY OfferConstants
<1>2. question.lists \in [ClusterSet \cup GroupSet -> Seq([tool: ToolSet, server: Nat])]
  BY <1>1 DEF Question
<1> QED BY <1>1, <1>2

LEMMA PlacesType ==
  ASSUME OfferTyped, NEW p \in Places
  PROVE  /\ p \in Nat \X Nat /\ p[1] \in listed /\ p[2] \in DOMAIN question.lists[Sources[p[1]]]
         /\ SourceAt(p) \in ClusterSet \cup GroupSet /\ SourceAt(p) = Sources[p[1]]
         /\ ToolAt(p) \in [tool: ToolSet, server: Nat]
<1>1. PICK i \in listed : p \in {<<i, j>> : j \in DOMAIN question.lists[Sources[i]]}
  BY DEF Places
<1>2. PICK j \in DOMAIN question.lists[Sources[i]] : p = <<i, j>>
  BY <1>1
<1>3. i \in Nat /\ Sources[i] \in ClusterSet \cup GroupSet
  BY SourcesType DEF OfferTyped
<1>4. question.lists[Sources[i]] \in Seq([tool: ToolSet, server: Nat])
  BY <1>3, QuestionType DEF OfferTyped
<1>5. j \in Nat /\ question.lists[Sources[i]][j] \in [tool: ToolSet, server: Nat]
  <2>1. PICK list : list = question.lists[Sources[i]]
    OBVIOUS
  <2>2. PICK Entry : Entry = [tool: ToolSet, server: Nat]
    OBVIOUS
  <2>3. list \in Seq(Entry) /\ j \in DOMAIN list
    BY <1>4, <2>1, <2>2
  <2>4. j \in Nat /\ list[j] \in Entry
    BY <2>3
  <2> QED BY <2>1, <2>2, <2>4
<1>6. p[1] = i /\ p[2] = j
  BY <1>2
<1>7. SourceAt(p) = Sources[i] /\ ToolAt(p) = question.lists[Sources[i]][j]
  BY <1>6 DEF SourceAt, ToolAt
<1> QED BY <1>2, <1>3, <1>5, <1>6, <1>7

LEMMA PlaceOf ==
  ASSUME NEW i \in listed, NEW j \in DOMAIN question.lists[Sources[i]]
  PROVE  <<i, j>> \in Places
BY DEF Places

\* Everything met has a route of its name, at the place where that name was met first.
LEMMA RouteOf ==
  ASSUME OfferTyped, NEW p \in Places
  PROVE  \E r \in Routes : r.name = NameAt(p)
<1>1. PICK S : S = Same(p)
  OBVIOUS
<1>2. S \subseteq Nat \X Nat /\ p \in S
  BY <1>1, PlacesType DEF Same
<1>3. PICK f \in S : \A q \in S : f = q \/ Before(f, q)
  BY <1>2, FirstPlace
<1>4. f \in Places /\ NameAt(f) = NameAt(p)
  BY <1>1 DEF Same
<1>5. Same(f) = S
  BY <1>1, <1>4 DEF Same
<1>6. \A q \in Same(f) : ~Before(q, f)
  BY <1>2, <1>3, <1>5, BeforeOrders
<1>7. RouteAt(f) \in Routes
  BY <1>4, <1>6 DEF Routes
<1>8. RouteAt(f).name = NameAt(f)
  BY DEF RouteAt
<1> QED BY <1>4, <1>7, <1>8

LEMMA RouteType ==
  ASSUME OfferTyped, NEW r \in Routes
  PROVE  /\ r = RouteAt(r.at) /\ r.at \in Places /\ r.at \in Nat \X Nat /\ r.name = NameAt(r.at)
         /\ \A q \in Places : NameAt(q) = r.name => q = r.at \/ Before(r.at, q)
<1>1. PICK p \in Places : r = RouteAt(p) /\ \A q \in Same(p) : ~Before(q, p)
  BY DEF Routes
<1>2. r.at = p /\ r.name = NameAt(p)
  BY <1>1 DEF RouteAt
<1>3. p \in Nat \X Nat
  BY PlacesType
<1>4. ASSUME NEW q \in Places, NameAt(q) = r.name PROVE q = r.at \/ Before(r.at, q)
  <2>1. q \in Same(p) /\ q \in Nat \X Nat
    BY <1>2, <1>4, PlacesType DEF Same
  <2> QED BY <1>1, <1>2, <1>3, <2>1, BeforeOrders
<1> QED BY <1>1, <1>2, <1>3, <1>4

LEMMA OneRoute ==
  ASSUME OfferTyped, NEW r \in Routes, NEW x \in Routes, r.name = x.name \/ r.at = x.at
  PROVE  r = x
<1>1. /\ r = RouteAt(r.at) /\ r.at \in Places /\ r.at \in Nat \X Nat /\ r.name = NameAt(r.at)
      /\ \A q \in Places : NameAt(q) = r.name => q = r.at \/ Before(r.at, q)
  BY RouteType
<1>2. /\ x = RouteAt(x.at) /\ x.at \in Places /\ x.at \in Nat \X Nat /\ x.name = NameAt(x.at)
      /\ \A q \in Places : NameAt(q) = x.name => q = x.at \/ Before(x.at, q)
  BY RouteType
<1>3. CASE r.name = x.name
  <2>1. x.at = r.at \/ Before(r.at, x.at)
    BY <1>1, <1>2, <1>3
  <2>2. r.at = x.at \/ Before(x.at, r.at)
    BY <1>1, <1>2, <1>3
  <2>3. r.at = x.at
    BY <1>1, <1>2, <2>1, <2>2, BeforeOrders
  <2> QED BY <1>1, <1>2, <2>3
<1> QED BY <1>1, <1>2, <1>3

\* A route leads to the sources that have its tool for the caller.
LEMMA RouteWhere ==
  ASSUME OfferTyped, NEW r \in Routes
  PROVE  r.on = Where(r.name)
<1>1. r = RouteAt(r.at) /\ r.at \in Places /\ r.name = NameAt(r.at)
  BY RouteType
<1>2. PICK p : p = r.at
  OBVIOUS
<1>3. r.on = {SourceAt(q) : q \in Usable(p)}
  BY <1>1, <1>2 DEF RouteAt
<1>4. ASSUME NEW q \in Usable(p) PROVE SourceAt(q) \in Where(r.name)
  <2>1. q \in Places /\ NameAt(q) = r.name /\ MayUse(SourceAt(q), ToolAt(q).tool)
    BY <1>1, <1>2 DEF Usable, Same
  <2>2. /\ q[1] \in listed /\ q[2] \in DOMAIN question.lists[Sources[q[1]]]
        /\ SourceAt(q) = Sources[q[1]] /\ ToolAt(q) = question.lists[Sources[q[1]]][q[2]]
    BY <2>1, PlacesType DEF ToolAt
  <2>3. ToolAt(q) \in ToSet(question.lists[Sources[q[1]]])
    BY <2>2 DEF ToSet
  <2>4. /\ RouteName(Sources[q[1]], ToolAt(q).tool) = r.name
        /\ Permitted(Sources[q[1]], ToolAt(q).tool)
    BY <2>1, <2>2 DEF NameAt, Permitted, MayUse
  <2> QED BY <2>2, <2>3, <2>4 DEF Where
<1>5. ASSUME NEW s \in Where(r.name) PROVE \E q \in Usable(p) : SourceAt(q) = s
  <2>1. PICK i \in listed :
          /\ s = Sources[i]
          /\ \E t \in ToSet(question.lists[Sources[i]]) :
               RouteName(Sources[i], t.tool) = r.name /\ Permitted(Sources[i], t.tool)
    BY <1>5 DEF Where
  <2>2. PICK t \in ToSet(question.lists[Sources[i]]) :
          RouteName(Sources[i], t.tool) = r.name /\ Permitted(Sources[i], t.tool)
    BY <2>1
  <2>3. PICK j \in DOMAIN question.lists[Sources[i]] : t = question.lists[Sources[i]][j]
    BY <2>2 DEF ToSet
  <2>4. PICK q : q = <<i, j>>
    OBVIOUS
  <2>5. q \in Places
    BY <2>4, PlaceOf
  <2>6. SourceAt(q) = s /\ ToolAt(q) = t
    BY <2>1, <2>3, <2>4 DEF SourceAt, ToolAt
  <2>7. NameAt(q) = r.name /\ MayUse(SourceAt(q), ToolAt(q).tool)
    BY <2>1, <2>2, <2>6 DEF NameAt, MayUse, Permitted
  <2>8. q \in Usable(p)
    BY <1>1, <1>2, <2>5, <2>7 DEF Usable, Same
  <2> QED BY <2>6, <2>8
<1> QED BY <1>3, <1>4, <1>5

-----------------------------------------------------------------------------
(* The offer                                                                  *)

LEMMA DirectAmong ==
  ASSUME NEW routes, NEW max
  PROVE  Direct(routes, max) \subseteq routes
<1>1. ASSUME NEW R, NEW n PROVE FirstOf(R, n) \subseteq R
  BY DEF FirstOf
<1>2. Preferred(routes) \subseteq routes /\ (routes \ Preferred(routes)) \subseteq routes
  BY DEF Preferred
<1>3. InTurn(routes, max - Bridge) \subseteq routes
  BY <1>1, <1>2 DEF InTurn
<1> QED BY <1>3 DEF Direct

\* The offer is what Build makes of the question and of the lists that came.
AsBuilt ==
  progress = "offered" =>
    /\ offer.direct = Direct(Offerable(Routes), question.max)
    /\ offer.deferred = Offerable(Routes) \ offer.direct

OfferInv ==
  /\ OfferTyped /\ left \subseteq DOMAIN Sources
  /\ progress \in {"asked", "no tools", "listing", "failed", "offered"}
  /\ AsBuilt

LEMMA OfferInvInit == OfferInit => OfferInv
BY DEF OfferInit, OfferInv, OfferTyped, AsBuilt

LEMMA OfferInvNext == OfferInv /\ [OfferNext]_offerVars => OfferInv'
<1> SUFFICES ASSUME OfferInv, [OfferNext]_offerVars PROVE OfferInv'
  OBVIOUS
<1>1. CASE Choose
  BY <1>1 DEF Choose, OfferInv, OfferTyped, AsBuilt
<1>2. CASE ListSource
  BY <1>2 DEF ListSource, OfferInv, OfferTyped, AsBuilt
<1>3. CASE MissSource
  BY <1>3 DEF MissSource, OfferInv, OfferTyped, AsBuilt
<1>4. CASE Build
  <2>1. OfferTyped' /\ (left \subseteq DOMAIN Sources)'
    BY <1>4 DEF Build, OfferInv, OfferTyped
  <2>2. (Offerable(Routes))' = Offerable(Routes) /\ question' = question
    <3>1. question' = question /\ listed' = listed
      BY <1>4 DEF Build
    <3> QED BY <3>1 DEF Offerable, Routes, RouteAt, Usable, Same, Places, NameAt, RouteName, SourceAt, ToolAt, MayUse
  <2>3. CASE listed = {}
    BY <1>4, <2>1, <2>3 DEF Build, OfferInv, AsBuilt
  <2>4. CASE listed # {}
    <3>1. /\ progress' = "offered"
          /\ offer' = [direct |-> Direct(Offerable(Routes), question.max),
                       deferred |-> Offerable(Routes) \ Direct(Offerable(Routes), question.max)]
      BY <1>4, <2>4 DEF Build
    <3>2. PICK all : all = Offerable(Routes)
      OBVIOUS
    <3>3. (Direct(Offerable(Routes), question.max))' = Direct(all, question.max)
      BY <2>2, <3>2
    <3> QED BY <2>1, <2>2, <3>1, <3>3, <3>2 DEF OfferInv, AsBuilt
  <2> QED BY <2>3, <2>4
<1>5. CASE UNCHANGED offerVars
  <2>1. (Offerable(Routes))' = Offerable(Routes) /\ question' = question /\ UNCHANGED <<progress, left, listed, offer>>
    BY <1>5 DEF offerVars, Offerable, Routes, RouteAt, Usable, Same, Places, NameAt, RouteName, SourceAt, ToolAt, MayUse
  <2> QED BY <2>1 DEF OfferInv, OfferTyped, AsBuilt
<1> QED BY <1>1, <1>2, <1>3, <1>4, <1>5 DEF OfferNext

\* What the caller may use is offered once, in the list or behind the bridge, with every
\* source that has it, and nothing else is.
THEOREM OfferComplete == OfferSpec => []OfferIsWhole
<1>1. OfferInv => OfferIsWhole
  <2> SUFFICES ASSUME OfferInv, progress = "offered" PROVE OfferIsWhole
    BY DEF OfferIsWhole
  <2>1. OfferTyped
    BY DEF OfferInv
  <2>2. PICK all : all = Offerable(Routes)
    OBVIOUS
  <2>3. all \subseteq Routes /\ \A r \in all : r.on # {}
    BY <2>2 DEF Offerable
  <2>4. offer.direct \subseteq all /\ offer.deferred = all \ offer.direct
    BY <2>2, DirectAmong DEF OfferInv, AsBuilt
  <2>5. offer.direct \cup offer.deferred = all /\ offer.direct \cap offer.deferred = {}
    BY <2>4
  <2>6. \A r \in all : r.on = Where(r.name) /\ r.on # {}
    BY <2>1, <2>3, RouteWhere
  <2>7. \A r, x \in all : r.name = x.name => r = x
    BY <2>1, <2>3, OneRoute
  <2>8. ASSUME NEW i \in listed, NEW t \in ToSet(question.lists[Sources[i]]), Permitted(Sources[i], t.tool)
        PROVE  \E r \in all : r.name = RouteName(Sources[i], t.tool)
    <3>1. PICK j \in DOMAIN question.lists[Sources[i]] : t = question.lists[Sources[i]][j]
      BY DEF ToSet
    <3>2. PICK p : p = <<i, j>>
      OBVIOUS
    <3>3. p \in Places /\ NameAt(p) = RouteName(Sources[i], t.tool)
      BY <3>1, <3>2, PlaceOf DEF NameAt, SourceAt, ToolAt
    <3>4. PICK r \in Routes : r.name = NameAt(p)
      BY <2>1, <3>3, RouteOf
    <3>5. Sources[i] \in Where(r.name)
      BY <2>8, <3>3, <3>4 DEF Where
    <3>6. r \in all
      BY <2>1, <2>2, <3>5, RouteWhere DEF Offerable
    <3> QED BY <3>3, <3>4, <3>6
  <2> HIDE DEF OfferInv
  <2> QED BY <2>5, <2>6, <2>7, <2>8 DEF OfferIsWhole
<1> QED BY <1>1, OfferInvInit, OfferInvNext, PTL DEF OfferSpec

-----------------------------------------------------------------------------
(* Turns                                                                      *)

LEMMA FiniteImage ==
  ASSUME NEW S, IsFiniteSet(S), NEW f
  PROVE  IsFiniteSet({f[x] : x \in S}) /\ Cardinality({f[x] : x \in S}) <= Cardinality(S)
<1>1. PICK T : T = {f[x] : x \in S}
  OBVIOUS
<1>2. PICK g : g = [x \in S |-> f[x]]
  OBVIOUS
<1>3. g \in Surjection(S, T)
  <2>1. g \in [S -> T]
    BY <1>1, <1>2
  <2>2. \A t \in T : \E x \in S : g[x] = t
    BY <1>1, <1>2
  <2> QED BY <2>1, <2>2 DEF Surjection
<1> QED BY <1>1, <1>3, FS_Surjection

LEMMA PlacesFinite == ASSUME OfferTyped PROVE IsFiniteSet(Places)
<1>1. PICK f : f = [i \in listed |-> {<<i, j>> : j \in DOMAIN question.lists[Sources[i]]}]
  OBVIOUS
<1>2. IsFiniteSet(listed)
  <2>1. PICK n \in Nat : DOMAIN Sources = 1..n
    BY SourcesType
  <2>2. IsFiniteSet(1..n)
    BY FS_Interval
  <2> QED BY <2>1, <2>2, FS_Subset DEF OfferTyped
<1>3. ASSUME NEW i \in listed PROVE IsFiniteSet(f[i])
  <2>1. Sources[i] \in ClusterSet \cup GroupSet
    BY SourcesType DEF OfferTyped
  <2>2. PICK list : list = question.lists[Sources[i]]
    OBVIOUS
  <2>3. PICK Entry : Entry = [tool: ToolSet, server: Nat]
    OBVIOUS
  <2>4. list \in Seq(Entry)
    BY <2>1, <2>2, <2>3, QuestionType DEF OfferTyped
  <2>5. PICK n \in Nat : DOMAIN list = 1..n
    BY <2>4
  <2>6. IsFiniteSet(1..n)
    BY FS_Interval
  <2>7. PICK g : g = [j \in 1..n |-> <<i, j>>]
    OBVIOUS
  <2>8. {g[j] : j \in 1..n} = {<<i, j>> : j \in 1..n}
    BY <2>7
  <2>9. IsFiniteSet({g[j] : j \in 1..n})
    BY <2>6, FiniteImage
  <2> QED BY <1>1, <2>2, <2>5, <2>8, <2>9
<1>4. PICK T : T = {f[i] : i \in listed}
  OBVIOUS
<1>5. IsFiniteSet(T)
  BY <1>2, <1>4, FiniteImage
<1>6. Places = UNION T
  BY <1>1, <1>4 DEF Places
<1> QED BY <1>3, <1>4, <1>5, <1>6, FS_UNION

LEMMA RoutesFinite == ASSUME OfferTyped PROVE IsFiniteSet(Routes)
<1>1. PICK f : f = [r \in Routes |-> r.at]
  OBVIOUS
<1>2. f \in Injection(Routes, Places)
  <2>1. f \in [Routes -> Places]
    BY <1>1, RouteType
  <2>2. \A r, x \in Routes : f[r] = f[x] => r = x
    BY <1>1, OneRoute
  <2> QED BY <2>1, <2>2 DEF Injection, IsInjective
<1> QED BY <1>2, PlacesFinite, FS_Injection

LEMMA FirstRoute ==
  ASSUME OfferTyped, NEW G, G \subseteq Routes, G # {}
  PROVE  \E a \in G : \A z \in G : a = z \/ Before(a.at, z.at)
<1>1. PICK P : P = {r.at : r \in G}
  OBVIOUS
<1>2. P \subseteq Nat \X Nat /\ P # {}
  BY <1>1, RouteType
<1>3. PICK p \in P : \A q \in P : p = q \/ Before(p, q)
  BY <1>2, FirstPlace
<1>4. PICK a \in G : a.at = p
  BY <1>1
<1>5. ASSUME NEW z \in G PROVE a = z \/ Before(a.at, z.at)
  <2>1. z.at \in P
    BY <1>1
  <2>2. a.at = z.at => a = z
    BY OneRoute
  <2> QED BY <1>3, <1>4, <2>1, <2>2
<1> QED BY <1>5

LEMMA WeightType == ASSUME OfferTyped, NEW r \in Routes PROVE Weight(r) \in Nat
<1>1. r = RouteAt(r.at) /\ r.at \in Places
  BY RouteType
<1>2. PICK p : p = r.at
  OBVIOUS
<1>3. PICK S : S = Same(p)
  OBVIOUS
<1>4. S \subseteq Places /\ p \in S
  BY <1>1, <1>2, <1>3 DEF Same
<1>5. PICK f : f = [q \in S |-> ToolAt(q).tool]
  OBVIOUS
<1>6. r.tools = {f[q] : q \in S}
  <2>1. r.tools = {ToolAt(q).tool : q \in Same(p)}
    BY <1>1, <1>2 DEF RouteAt
  <2> QED BY <1>3, <1>5, <2>1
<1>7. \A q \in S : f[q] \in ToolSet
  BY <1>4, <1>5, PlacesType
<1>8. PICK T : T = r.tools
  OBVIOUS
<1>9. T # {} /\ T \subseteq ToolSet /\ IsFiniteSet(T)
  <2>1. IsFiniteSet(S)
    BY <1>4, PlacesFinite, FS_Subset
  <2> QED BY <1>4, <1>6, <1>7, <1>8, <2>1, FiniteImage
<1>10. PICK W : W = {Priority[x] : x \in T}
  OBVIOUS
<1>11. IsFiniteSet(W)
  BY <1>9, <1>10, FiniteImage
<1>12. W \subseteq Nat /\ W # {}
  <2>1. Priority \in [ToolSet -> Nat]
    BY OfferConstants
  <2> QED BY <1>9, <1>10, <2>1
<1>13. Max(W) \in Nat
  BY <1>11, <1>12, GreatestNat
<1> QED BY <1>8, <1>10, <1>13 DEF Weight

Preceding(G) == {p \in G \X G : Precedes(p[1], p[2])}
InOrder(G) == {p \in G \X G : Sooner(G, p[1], p[2])}

\* A server's tools are in an order, and a tool's turn is its place in it.
LEMMA ServerRanks ==
  ASSUME OfferTyped, NEW G, G \subseteq Routes, NEW r \in G
  PROVE  /\ IsFiniteSet(OfServer(G, r)) /\ Ranked(Preceding(G), OfServer(G, r))
         /\ \A x \in OfServer(G, r) : Turn(G, x) = Rank(Preceding(G), OfServer(G, r), x)
<1>1. PICK S : S = OfServer(G, r)
  OBVIOUS
<1>2. PICK R : R = Preceding(G)
  OBVIOUS
<1>3. S \subseteq G /\ S \subseteq Routes /\ \A x \in S : x.server = r.server
  BY <1>1 DEF OfServer
<1>4. IsFiniteSet(S)
  BY <1>3, RoutesFinite, FS_Subset
<1>5. \A x, y \in S : <<x, y>> \in R <=> Precedes(x, y)
  BY <1>2, <1>3 DEF Preceding
<1>6. \A x \in S : Weight(x) \in Nat /\ x.at \in Nat \X Nat
  BY <1>3, WeightType, RouteType
<1>7. \A x \in S : ~Precedes(x, x)
  BY <1>6, BeforeOrders DEF Precedes
<1>8. ASSUME NEW x \in S, NEW y \in S, NEW z \in S, Precedes(x, y), Precedes(y, z) PROVE Precedes(x, z)
  BY <1>6, <1>8, BeforeOrders DEF Precedes
<1>9. ASSUME NEW x \in S, NEW y \in S PROVE x = y \/ Precedes(x, y) \/ Precedes(y, x)
  <2>1. x.at = y.at => x = y
    BY <1>3, OneRoute
  <2> QED BY <1>6, <2>1, BeforeOrders DEF Precedes
<1>10. Ranked(R, S)
  BY <1>5, <1>7, <1>8, <1>9 DEF Ranked
<1>11. ASSUME NEW x \in S PROVE Turn(G, x) = Rank(R, S, x)
  <2>1. OfServer(G, x) = S
    BY <1>1, <1>3 DEF OfServer
  <2>2. {y \in S : Precedes(y, x)} = {y \in S : <<y, x>> \in R}
    BY <1>5
  <2> QED BY <2>1, <2>2 DEF Turn, Rank
<1> QED BY <1>1, <1>2, <1>4, <1>10, <1>11

LEMMA TurnType ==
  ASSUME OfferTyped, NEW G, G \subseteq Routes, NEW x \in G
  PROVE  /\ Turn(G, x) \in Nat
         /\ \A y \in G : x.server = y.server /\ Turn(G, x) = Turn(G, y) => x = y
         /\ \A y \in G : x.server = y.server /\ Turn(G, x) < Turn(G, y) => Weight(x) >= Weight(y)
<1>1. PICK S : S = OfServer(G, x)
  OBVIOUS
<1>2. PICK R : R = Preceding(G)
  OBVIOUS
<1>3. IsFiniteSet(S) /\ Ranked(R, S) /\ \A y \in S : Turn(G, y) = Rank(R, S, y)
  BY <1>1, <1>2, ServerRanks
<1>4. S \subseteq G /\ x \in S
  BY <1>1 DEF OfServer
<1>5. \A y \in S : Turn(G, y) \in Nat
  <2>1. Cardinality(S) \in Nat
    BY <1>3, FS_CardinalityType
  <2>2. \A y \in S : Rank(R, S, y) \in 0..(Cardinality(S) - 1)
    BY <1>3, RankType
  <2> QED BY <1>3, <2>1, <2>2
<1>6. ASSUME NEW y \in S PROVE x = y \/ <<x, y>> \in R \/ <<y, x>> \in R
  BY <1>3, <1>4 DEF Ranked
<1>7. ASSUME NEW y \in S, <<x, y>> \in R PROVE Turn(G, x) < Turn(G, y)
  BY <1>3, <1>4, <1>7, RankGrows
<1>8. ASSUME NEW y \in S, <<y, x>> \in R PROVE Turn(G, y) < Turn(G, x)
  BY <1>3, <1>4, <1>8, RankGrows
<1>9. ASSUME NEW y \in G, x.server = y.server PROVE y \in S
  BY <1>1, <1>9 DEF OfServer
<1>10. ASSUME NEW y \in G, x.server = y.server, Turn(G, x) = Turn(G, y) PROVE x = y
  <2>1. y \in S
    BY <1>9, <1>10
  <2>2. Turn(G, x) \in Nat /\ Turn(G, y) \in Nat
    BY <1>4, <1>5, <2>1
  <2>3. <<x, y>> \notin R
    BY <1>7, <1>10, <2>1, <2>2
  <2>4. <<y, x>> \notin R
    BY <1>8, <1>10, <2>1, <2>2
  <2> QED BY <1>6, <2>1, <2>3, <2>4
<1>11. ASSUME NEW y \in G, x.server = y.server, Turn(G, x) < Turn(G, y) PROVE Weight(x) >= Weight(y)
  <2>1. y \in S /\ Turn(G, x) \in Nat /\ Turn(G, y) \in Nat
    BY <1>4, <1>5, <1>9, <1>11
  <2>2. <<x, y>> \in R
    <3>1. x # y /\ <<y, x>> \notin R
      BY <1>8, <1>11, <2>1
    <3> QED BY <1>6, <2>1, <3>1
  <2>3. Precedes(x, y)
    BY <1>2, <2>2 DEF Preceding
  <2>4. Weight(x) \in Nat /\ Weight(y) \in Nat
    BY <1>11, WeightType
  <2> QED BY <2>3, <2>4 DEF Precedes
<1> QED BY <1>4, <1>5, <1>10, <1>11

\* The tools of a group of servers are in an order.
LEMMA GroupRanks ==
  ASSUME OfferTyped, NEW G, G \subseteq Routes
  PROVE  IsFiniteSet(G) /\ Ranked(InOrder(G), G)
<1>1. IsFiniteSet(G)
  BY RoutesFinite, FS_Subset
<1>2. \A x \in G : Turn(G, x) \in Nat /\ x.at \in Nat \X Nat
  BY TurnType, RouteType
<1>3. \A x, y \in G : <<x, y>> \in InOrder(G) <=> Sooner(G, x, y)
  BY DEF InOrder
<1>4. \A x \in G : \A y \in OfServer(G, x) : y \in G /\ y.at \in Nat \X Nat
  BY <1>2 DEF OfServer
<1>5. ASSUME NEW x \in G PROVE ~Sooner(G, x, x)
  <2>1. ASSUME Leads(G, x, x) PROVE FALSE
    <3>1. PICK y \in OfServer(G, x) : \A z \in OfServer(G, x) : Before(y.at, z.at)
      BY <2>1 DEF Leads
    <3> QED BY <1>4, <3>1, BeforeOrders
  <2> QED BY <1>2, <2>1 DEF Sooner
<1>6. ASSUME NEW x \in G, NEW y \in G, NEW z \in G, Sooner(G, x, y), Sooner(G, y, z) PROVE Sooner(G, x, z)
  <2>1. Turn(G, x) \in Nat /\ Turn(G, y) \in Nat /\ Turn(G, z) \in Nat
    BY <1>2
  <2>2. ASSUME Leads(G, x, y), Leads(G, y, z) PROVE Leads(G, x, z)
    <3>1. PICK a \in OfServer(G, x) : \A b \in OfServer(G, y) : Before(a.at, b.at)
      BY <2>2 DEF Leads
    <3>2. PICK b \in OfServer(G, y) : \A c \in OfServer(G, z) : Before(b.at, c.at)
      BY <2>2 DEF Leads
    <3>3. \A c \in OfServer(G, z) : Before(a.at, c.at)
      BY <1>4, <3>1, <3>2, BeforeOrders
    <3> QED BY <3>3 DEF Leads
  <2> QED BY <1>6, <2>1, <2>2 DEF Sooner
<1>7. ASSUME NEW x \in G, NEW y \in G PROVE x = y \/ Sooner(G, x, y) \/ Sooner(G, y, x)
  <2>1. Turn(G, x) \in Nat /\ Turn(G, y) \in Nat
    BY <1>2
  <2>2. CASE Turn(G, x) = Turn(G, y) /\ x.server = y.server
    BY <2>2, TurnType
  <2>3. CASE Turn(G, x) = Turn(G, y) /\ x.server # y.server
    <3>1. PICK a \in OfServer(G, x) : \A z \in OfServer(G, x) : a = z \/ Before(a.at, z.at)
      <4>1. x \in OfServer(G, x)
        BY DEF OfServer
      <4>2. OfServer(G, x) \subseteq Routes
        BY DEF OfServer
      <4> QED BY <4>1, <4>2, FirstRoute
    <3>2. PICK b \in OfServer(G, y) : \A z \in OfServer(G, y) : b = z \/ Before(b.at, z.at)
      <4>1. y \in OfServer(G, y)
        BY DEF OfServer
      <4>2. OfServer(G, y) \subseteq Routes
        BY DEF OfServer
      <4> QED BY <4>1, <4>2, FirstRoute
    <3>3. a \in G /\ b \in G /\ a # b /\ a.at \in Nat \X Nat /\ b.at \in Nat \X Nat
      BY <1>4, <2>3 DEF OfServer
    <3>4. a.at # b.at
      BY <3>3, OneRoute
    <3>5. CASE Before(a.at, b.at)
      <4>1. \A z \in OfServer(G, y) : Before(a.at, z.at)
        BY <1>4, <3>2, <3>3, <3>5, BeforeOrders
      <4>2. Leads(G, x, y)
        BY <4>1 DEF Leads
      <4> QED BY <2>3, <4>2 DEF Sooner
    <3>6. CASE Before(b.at, a.at)
      <4>1. \A z \in OfServer(G, x) : Before(b.at, z.at)
        BY <1>4, <3>1, <3>3, <3>6, BeforeOrders
      <4>2. Leads(G, y, x)
        BY <4>1 DEF Leads
      <4> QED BY <2>3, <4>2 DEF Sooner
    <3> QED BY <3>3, <3>4, <3>5, <3>6, BeforeOrders
  <2> QED BY <2>1, <2>2, <2>3 DEF Sooner
<1> QED BY <1>1, <1>3, <1>5, <1>6, <1>7 DEF Ranked

LEMMA FirstOfRank == ASSUME NEW G, NEW n PROVE FirstOf(G, n) = {r \in G : Rank(InOrder(G), G, r) < n}
<1>1. ASSUME NEW r \in G PROVE {x \in G : Sooner(G, x, r)} = {x \in G : <<x, r>> \in InOrder(G)}
  BY DEF InOrder
<1> QED BY <1>1 DEF FirstOf, Rank

LEMMA FirstOfSize ==
  ASSUME OfferTyped, NEW G, G \subseteq Routes, NEW n \in Nat
  PROVE  Cardinality(FirstOf(G, n)) = IF n <= Cardinality(G) THEN n ELSE Cardinality(G)
BY GroupRanks, FirstOfRank, RankedBelow

-----------------------------------------------------------------------------
(* What fits                                                                  *)

\* What is taken of a group of servers comes before what is left.
LEMMA TakenSooner ==
  ASSUME OfferTyped, NEW G, G \subseteq Routes, NEW n \in Int,
         NEW x \in FirstOf(G, n), NEW r \in G \ FirstOf(G, n)
  PROVE  /\ x \in G /\ Sooner(G, x, r)
         /\ \A y \in G : Sooner(G, y, x) => y \in FirstOf(G, n)
<1>1. IsFiniteSet(G) /\ Ranked(InOrder(G), G)
  BY GroupRanks
<1>2. \A y \in G : Rank(InOrder(G), G, y) \in Nat /\ (y \in FirstOf(G, n) <=> Rank(InOrder(G), G, y) < n)
  <2>1. Cardinality(G) \in Nat
    BY <1>1, FS_CardinalityType
  <2>2. \A y \in G : Rank(InOrder(G), G, y) \in 0..(Cardinality(G) - 1)
    BY <1>1, RankType
  <2> QED BY <2>1, <2>2, FirstOfRank
<1>3. x \in G /\ r \in G /\ r \notin FirstOf(G, n)
  BY DEF FirstOf
<1>4. ASSUME NEW y \in G, NEW z \in G, <<y, z>> \in InOrder(G), z \in FirstOf(G, n) PROVE y \in FirstOf(G, n)
  <2>1. Rank(InOrder(G), G, y) < Rank(InOrder(G), G, z)
    BY <1>1, <1>4, RankGrows
  <2> QED BY <1>2, <1>4, <2>1
<1>5. <<x, r>> \in InOrder(G)
  <2>1. <<r, x>> \notin InOrder(G) /\ x # r
    BY <1>3, <1>4
  <2> QED BY <1>1, <1>3, <2>1 DEF Ranked
<1> QED BY <1>3, <1>4, <1>5 DEF InOrder

\* No server has two more than one that wants more, and each keeps its first ones.
LEMMA TakenFairly ==
  ASSUME OfferTyped, NEW G, G \subseteq Routes, NEW n \in Int, NEW F, F = FirstOf(G, n),
         NEW x \in F, NEW r \in G \ F
  PROVE  /\ OnServer(x, F) <= OnServer(r, F) + 1
         /\ r.server = x.server => Weight(x) >= Weight(r)
<1>1. x \in G /\ r \in G /\ r \notin F /\ Sooner(G, x, r) /\ F \subseteq G
  BY TakenSooner DEF FirstOf
<1>2. \A y \in G : Turn(G, y) \in Nat
  BY TurnType
<1>3. r.server = x.server => Weight(x) >= Weight(r)
  <2> SUFFICES ASSUME r.server = x.server PROVE Weight(x) >= Weight(r)
    OBVIOUS
  <2>1. x # r /\ Turn(G, x) # Turn(G, r)
    BY <1>1, TurnType
  <2>2. Turn(G, x) < Turn(G, r)
    BY <1>1, <2>1 DEF Sooner
  <2> QED BY <1>1, <2>2, TurnType
<1>4. PICK S : S = OfServer(G, r)
  OBVIOUS
<1>5. PICK T : T = OfServer(G, x)
  OBVIOUS
<1>6. S \subseteq G /\ T \subseteq G /\ (\A y \in G : y \in S <=> y.server = r.server) /\ \A y \in G : y \in T <=> y.server = x.server
  BY <1>4, <1>5 DEF OfServer
\* The first one of r's server that is left.
<1>7. PICK t \in {Turn(G, y) : y \in S \ F} : \A u \in {Turn(G, y) : y \in S \ F} : t <= u
  <2>1. PICK N : N = {Turn(G, y) : y \in S \ F}
    OBVIOUS
  <2>2. N \subseteq Nat /\ N # {}
    BY <1>1, <1>2, <1>6, <2>1
  <2>3. \E t \in N : \A u \in N : t <= u
    BY <2>2, LeastNat
  <2> QED BY <2>1, <2>3
<1>8. PICK z \in S \ F : t = Turn(G, z)
  BY <1>7
<1>9. z \in G /\ t \in Nat
  BY <1>2, <1>6, <1>8
<1>10. IsFiniteSet(F)
  BY <1>1, GroupRanks, FS_Subset
<1>11. PICK A : A = {y \in F : y.server = x.server}
  OBVIOUS
<1>12. PICK B : B = {y \in F : y.server = r.server}
  OBVIOUS
<1>13. IsFiniteSet(A) /\ IsFiniteSet(B) /\ Cardinality(A) \in Nat /\ Cardinality(B) \in Nat
  BY <1>10, <1>11, <1>12, FS_Subset, FS_CardinalityType
<1>14. t <= Cardinality(B)
  <2>1. PICK C : C = {y \in S : Rank(Preceding(G), S, y) < t}
    OBVIOUS
  <2>2. IsFiniteSet(S) /\ Ranked(Preceding(G), S) /\ \A y \in S : Turn(G, y) = Rank(Preceding(G), S, y)
    BY <1>1, <1>4, ServerRanks
  <2>3. Cardinality(C) = IF t <= Cardinality(S) THEN t ELSE Cardinality(S)
    BY <1>9, <2>1, <2>2, RankedBelow
  <2>4. t < Cardinality(S)
    <3>1. t \in 0..(Cardinality(S) - 1)
      BY <1>8, <2>2, RankType
    <3>2. Cardinality(S) \in Nat
      BY <2>2, FS_CardinalityType
    <3> QED BY <3>1, <3>2
  <2>5. C \subseteq B
    <3> SUFFICES ASSUME NEW y \in C PROVE y \in B
      OBVIOUS
    <3>1. y \in S /\ y \in G /\ Turn(G, y) < t /\ Turn(G, y) \in Nat
      BY <1>2, <1>6, <2>1, <2>2
    <3>2. y \in F
      BY <1>7, <1>9, <3>1
    <3> QED BY <1>6, <1>12, <3>1, <3>2
  <2>6. Cardinality(C) <= Cardinality(B)
    BY <1>13, <2>5, FS_Subset
  <2>7. Cardinality(S) \in Nat
    BY <2>2, FS_CardinalityType
  <2> QED BY <1>9, <2>3, <2>4, <2>6, <2>7
<1>15. Cardinality(A) <= t + 1
  <2>1. PICK C : C = {y \in T : Rank(Preceding(G), T, y) < t + 1}
    OBVIOUS
  <2>2. IsFiniteSet(T) /\ Ranked(Preceding(G), T) /\ \A y \in T : Turn(G, y) = Rank(Preceding(G), T, y)
    BY <1>1, <1>5, ServerRanks
  <2>3. t + 1 \in Nat
    BY <1>9
  <2>4. Cardinality(C) = IF t + 1 <= Cardinality(T) THEN t + 1 ELSE Cardinality(T)
    BY <2>1, <2>2, <2>3, RankedBelow
  <2>5. A \subseteq C
    <3> SUFFICES ASSUME NEW y \in A PROVE y \in C
      OBVIOUS
    <3>1. y \in F /\ y \in G /\ y \in T
      BY <1>1, <1>6, <1>11
    <3>2. Sooner(G, y, z)
      BY <1>8, <1>9, <3>1, TakenSooner
    <3>3. Turn(G, y) <= t /\ Turn(G, y) \in Nat
      BY <1>2, <1>8, <1>9, <3>1, <3>2 DEF Sooner
    <3> QED BY <1>9, <2>1, <2>2, <3>1, <3>3
  <2>6. IsFiniteSet(C) /\ Cardinality(A) <= Cardinality(C)
    <3>1. C \in SUBSET T
      BY <2>1
    <3>2. IsFiniteSet(C)
      BY <2>2, <3>1, FS_Subset
    <3> QED BY <2>5, <3>2, FS_Subset
  <2>7. Cardinality(T) \in Nat
    BY <2>2, FS_CardinalityType
  <2> QED BY <1>13, <2>3, <2>4, <2>6, <2>7
<1>16. OnServer(x, F) = Cardinality(A) /\ OnServer(r, F) = Cardinality(B)
  BY <1>11, <1>12 DEF OnServer
<1> QED BY <1>3, <1>9, <1>13, <1>14, <1>15, <1>16

LEMMA ServersFew ==
  ASSUME NEW G, IsFiniteSet(G)
  PROVE  Cardinality(Servers(G)) \in Nat /\ Cardinality(Servers(G)) <= Cardinality(G)
<1>1. PICK f : f = [r \in G |-> r.server]
  OBVIOUS
<1>2. {f[r] : r \in G} = Servers(G)
  BY <1>1 DEF Servers
<1>3. IsFiniteSet({f[r] : r \in G}) /\ Cardinality({f[r] : r \in G}) <= Cardinality(G)
  BY FiniteImage
<1> QED BY <1>2, <1>3, FS_CardinalityType

LEMMA ReservedType ==
  ASSUME NEW P, NEW G, IsFiniteSet(G), NEW max \in Nat, P # {}
  PROVE  /\ Reserved(P, G, max) \in Nat /\ Reserved(P, G, max) <= max \div 4
         /\ Reserved(P, G, max) <= Cardinality(G)
<1>1. PICK c \in Nat : c = Cardinality(Servers(G)) /\ c <= Cardinality(G)
  BY ServersFew
<1>2. PICK d \in Nat : d = max \div 4
  OBVIOUS
<1>3. PICK m \in {c, d} : \A n \in {c, d} : m <= n
  OBVIOUS
<1>4. \A k \in {c, d} : (\A n \in {c, d} : k <= n) => k = m
  BY <1>3
<1>5. Min({c, d}) = m
  BY <1>3, <1>4 DEF Min
<1>6. Reserved(P, G, max) = Min({c, d})
  BY <1>1, <1>2 DEF Reserved
<1>7. Cardinality(G) \in Nat
  BY FS_CardinalityType
<1> QED BY <1>1, <1>2, <1>3, <1>5, <1>6, <1>7

\* The list is full with the first of those the question names and the first of the
\* others, and the former have three quarters of it or all they want.
Split(all, room, P, D) ==
  \E n, m \in Int :
    /\ D = FirstOf(P, n) \cup FirstOf(all \ P, m)
    /\ Cardinality(D) = room
    /\ P \ FirstOf(P, n) # {} => Cardinality(FirstOf(P, n)) >= room - room \div 4

LEMMA InTurnIs ==
  ASSUME OfferTyped, NEW all, all \subseteq Routes, NEW room \in Nat, room < Cardinality(all)
  PROVE  Split(all, room, Preferred(all), InTurn(all, room))
<1> DEFINE P == Preferred(all)
<1> DEFINE Q == all \ P
<1> DEFINE D == InTurn(all, room)
<1>1. P \subseteq all /\ Q \subseteq all /\ P \cup Q = all /\ P \cap Q = {}
  BY DEF Preferred
<1> HIDE DEF P, Q, D
<1>2. IsFiniteSet(P) /\ IsFiniteSet(Q) /\ IsFiniteSet(all)
  BY <1>1, GroupRanks
<1>3. PICK p \in Nat, q \in Nat : p = Cardinality(P) /\ q = Cardinality(Q)
  BY <1>2, FS_CardinalityType
<1>4. Cardinality(all) = p + q
  <2>1. Cardinality(P \cap Q) = 0
    BY <1>1, FS_EmptySet
  <2>2. Cardinality(P \cup Q) = p + q - Cardinality(P \cap Q)
    BY <1>2, <1>3, FS_Union
  <2>3. Cardinality(P \cup Q) = Cardinality(all)
    BY <1>1
  <2> QED BY <1>3, <2>1, <2>2, <2>3
<1>5. PICK held : held = Reserved(P, Q, room)
  OBVIOUS
<1>6. held \in Nat
  <2>1. CASE P # {}
    BY <1>2, <1>5, <2>1, ReservedType
  <2>2. CASE P = {}
    BY <1>2, <1>5, <2>2, ServersFew DEF Reserved
  <2> QED BY <2>1, <2>2
<1>7. PICK F : F = FirstOf(P, room - held)
  OBVIOUS
<1>8. F \subseteq P /\ IsFiniteSet(F)
  BY <1>2, <1>7, FS_Subset DEF FirstOf
<1>9. PICK f \in Nat : f = Cardinality(F)
  BY <1>8, FS_CardinalityType
<1>10. PICK H : H = FirstOf(Q, room - f)
  OBVIOUS
<1>11. D = F \cup H
  BY <1>5, <1>7, <1>9, <1>10 DEF InTurn, P, Q, D
<1>12. H \subseteq Q /\ IsFiniteSet(H)
  BY <1>2, <1>10, FS_Subset DEF FirstOf
<1>13. Cardinality(D) = f + Cardinality(H)
  <2>1. F \cap H = {}
    BY <1>1, <1>8, <1>12
  <2>2. Cardinality(F \cap H) = 0
    BY <2>1, FS_EmptySet
  <2>3. Cardinality(F \cup H) = f + Cardinality(H) - Cardinality(F \cap H)
    BY <1>8, <1>9, <1>12, FS_Union
  <2>4. Cardinality(H) \in Nat
    BY <1>12, FS_CardinalityType
  <2> QED BY <1>11, <2>2, <2>3, <2>4
<1>14. /\ f <= room /\ room - f <= q
       /\ P \ F # {} => f >= room - room \div 4
  <2>1. CASE P = {}
    <3>1. F = {} /\ f = 0 /\ p = 0
      BY <1>3, <1>8, <1>9, <2>1, FS_EmptySet
    <3> QED BY <1>4, <2>1, <3>1
  <2>2. CASE P # {}
    <3>1. held <= room \div 4 /\ held <= q
      BY <1>2, <1>3, <1>5, <2>2, ReservedType
    <3>2. room - held \in Nat /\ room - held >= room - room \div 4
      BY <1>6, <3>1
    <3>3. f = IF room - held <= p THEN room - held ELSE p
      BY <1>1, <1>3, <1>7, <1>9, <3>2, FirstOfSize
    <3>4. CASE room - held <= p
      BY <1>4, <1>6, <3>1, <3>2, <3>3, <3>4
    <3>5. CASE ~(room - held <= p)
      <4>1. f = p /\ f <= room /\ room - f <= q
        BY <1>4, <1>6, <3>2, <3>3, <3>5
      <4>2. F = P
        BY <1>2, <1>3, <1>8, <1>9, <4>1, FS_Subset
      <4> QED BY <4>1, <4>2
    <3> QED BY <3>4, <3>5
  <2> QED BY <2>1, <2>2
<1>15. Cardinality(H) = room - f
  <2>1. room - f \in Nat
    BY <1>14
  <2>2. Cardinality(H) = IF room - f <= q THEN room - f ELSE q
    BY <1>1, <1>3, <1>10, <2>1, FirstOfSize
  <2> QED BY <1>14, <2>2
<1>16. room - held \in Int /\ room - f \in Int
  BY <1>6
<1>17. Cardinality(D) = room
  BY <1>13, <1>15
<1>18. PICK k \in Int, l \in Int : F = FirstOf(P, k) /\ H = FirstOf(Q, l)
  BY <1>7, <1>10, <1>16
<1>19. Split(all, room, P, D)
  BY <1>9, <1>11, <1>14, <1>17, <1>18 DEF Split, Q
<1> QED BY <1>19 DEF P, D

\* When not all fits, the list is full, what the question names has its part, and servers
\* of a kind share what they get.
THEOREM ShareFair == OfferSpec => []ShareIsFair
<1>1. OfferInv => ShareIsFair
  <2> SUFFICES ASSUME OfferInv, progress = "offered", offer.deferred # {}, question.max > Bridge
               PROVE  ShareIsFair
    BY DEF ShareIsFair
  <2>1. OfferTyped
    BY DEF OfferInv
  <2>2. PICK all : all = Offerable(Routes)
    OBVIOUS
  <2>3. all \subseteq Routes
    BY <2>2 DEF Offerable
  <2>4. PICK D : D = offer.direct
    OBVIOUS
  <2>5. D = Direct(all, question.max) /\ offer.deferred = all \ D /\ D \subseteq all
    BY <2>2, <2>4, DirectAmong DEF OfferInv, AsBuilt
  <2>6. PICK room \in Nat : room = question.max - Bridge
    <3>1. question.max \in Nat /\ Bridge \in Nat
      BY <2>1, QuestionType, OfferConstants DEF OfferTyped, Question
    <3> QED BY <3>1
  <2>7. Cardinality(all) > question.max /\ room < Cardinality(all)
    <3>1. ~(Cardinality(all) <= question.max)
      BY <2>5 DEF Direct
    <3>2. Cardinality(all) \in Nat
      BY <2>1, <2>3, GroupRanks, FS_CardinalityType
    <3>3. question.max \in Nat /\ Bridge \in Nat
      BY <2>1, QuestionType, OfferConstants DEF OfferTyped, Question
    <3> QED BY <2>6, <3>1, <3>2, <3>3
  <2>8. D = InTurn(all, room)
    <3>1. ~(Cardinality(all) <= question.max)
      BY <2>5 DEF Direct
    <3> QED BY <2>5, <2>6, <3>1 DEF Direct
  <2>9. PICK P : P = Preferred(all)
    OBVIOUS
  <2>10. PICK Q : Q = all \ P
    OBVIOUS
  <2>11. PICK n \in Int, m \in Int :
           /\ D = FirstOf(P, n) \cup FirstOf(Q, m)
           /\ Cardinality(D) = room
           /\ P \ FirstOf(P, n) # {} => Cardinality(FirstOf(P, n)) >= room - room \div 4
    <3>1. Split(all, room, P, D)
      BY <2>1, <2>3, <2>7, <2>8, <2>9, InTurnIs
    <3> QED BY <2>10, <3>1 DEF Split
  <2>12. \A r \in all : r \in P <=> \E x \in all : x.server = r.server /\ x.preferred
    BY <2>9 DEF Preferred, OfServer
  <2>13. P \subseteq all /\ \A r, x \in all : r.server = x.server => (r \in P <=> x \in P)
    BY <2>9 DEF Preferred, OfServer
  <2>14. FirstOf(P, n) \subseteq P /\ FirstOf(Q, m) \subseteq Q
    BY DEF FirstOf
  <2>15. D \cap P = FirstOf(P, n) /\ D \cap Q = FirstOf(Q, m)
    BY <2>10, <2>11, <2>14
  <2>16. ASSUME NEW r \in all \ D, \E x \in all : x.server = r.server /\ x.preferred
         PROVE  Cardinality({x \in D : \E y \in all : y.server = x.server /\ y.preferred}) >= room - room \div 4
    <3>1. r \in P \ FirstOf(P, n)
      BY <2>12, <2>15, <2>16
    <3>2. {x \in D : \E y \in all : y.server = x.server /\ y.preferred} = FirstOf(P, n)
      BY <2>5, <2>12, <2>15
    <3> QED BY <2>11, <3>1, <3>2
  <2>17. ASSUME NEW r \in all \ D, NEW x \in D, r \in P <=> x \in P
         PROVE  /\ OnServer(x, D) <= OnServer(r, D) + 1
                /\ r.server = x.server => Weight(x) >= Weight(r)
    <3>1. ASSUME NEW G, G \in {P, Q}, NEW k \in Int, D \cap G = FirstOf(G, k), x \in G, r \in G
          PROVE  /\ OnServer(x, D) <= OnServer(r, D) + 1
                 /\ r.server = x.server => Weight(x) >= Weight(r)
      <4>1. PICK F : F = FirstOf(G, k)
        OBVIOUS
      <4>2. x \in F /\ r \in G \ F /\ G \subseteq Routes
        BY <2>3, <2>10, <2>13, <3>1, <4>1
      <4>3. /\ OnServer(x, F) <= OnServer(r, F) + 1
            /\ r.server = x.server => Weight(x) >= Weight(r)
        BY <2>1, <4>1, <4>2, TakenFairly
      <4>4. \A y \in D : y.server = x.server \/ y.server = r.server => y \in G
        BY <2>5, <2>10, <2>13, <3>1
      <4>5. {y \in D : y.server = x.server} = {y \in F : y.server = x.server}
        BY <3>1, <4>1, <4>4
      <4>6. {y \in D : y.server = r.server} = {y \in F : y.server = r.server}
        BY <3>1, <4>1, <4>4
      <4> QED BY <4>3, <4>5, <4>6 DEF OnServer
    <3>2. CASE r \in P
      BY <2>15, <2>17, <3>1, <3>2
    <3>3. CASE r \notin P
      <4>1. r \in Q /\ x \in Q
        BY <2>5, <2>10, <2>17, <3>3
      <4> QED BY <2>15, <3>1, <4>1
    <3> QED BY <3>2, <3>3
  <2>18. ASSUME NEW r \in all \ D, NEW x \in D
         PROVE  /\ (\E y \in all : y.server = r.server /\ y.preferred) = (\E y \in all : y.server = x.server /\ y.preferred)
                     => OnServer(x, D) <= OnServer(r, D) + 1
                /\ r.server = x.server => Weight(x) >= Weight(r)
    <3>1. ((\E y \in all : y.server = r.server /\ y.preferred) = (\E y \in all : y.server = x.server /\ y.preferred))
            => (r \in P <=> x \in P)
      BY <2>5, <2>12
    <3>2. r.server = x.server => (r \in P <=> x \in P)
      BY <2>5, <2>13
    <3> QED BY <2>17, <3>1, <3>2
  <2>19. offer.direct \cup offer.deferred = all
    BY <2>4, <2>5
  <2> HIDE DEF OfferInv
  <2> QED BY <2>4, <2>5, <2>6, <2>11, <2>16, <2>18, <2>19 DEF ShareIsFair
<1> QED BY <1>1, OfferInvInit, OfferInvNext, PTL DEF OfferSpec
=============================================================================
