----------------------------- MODULE ChatProofs -----------------------------
(***************************************************************************)
(* Chat's types, and what becomes of a proposal, for any number of users,    *)
(* posts and tools.                                                          *)
(***************************************************************************)
EXTENDS Chat, TLAPS

USE DEF lost

\* What holds of every turn by itself: only people's posts are received, only a
\* bare reply reaches a proposal, only a yes leaves it with a grant.
TurnOK(t) ==
  /\ t.stage = "received" => t.user \in Users /\ t.kind # "alert"
  /\ t.stage \in {"opened", "matched"} => t.kind \in {"yes", "no"}
  /\ t.stage \in {"unsent", "received", "opened", "matched"} => t.grant = {} /\ t.from = None
  /\ t.stage = "offering" => t.asks # {}
  /\ t.stage \in {"offering", "replying"} => t.result = "answered"
  /\ t.grant # {} => t.from # None /\ t.kind = "yes"

TypeInv == TypeOK /\ \A p \in Posts : TurnOK(turns[p])

\* A step gives one post a turn that is right and leaves the others alone.
LEMMA OneTurn ==
  ASSUME TypeInv, NEW p \in Posts, NEW t \in Turn, TurnOK(t), turns' = [turns EXCEPT ![p] = t]
  PROVE  turns' \in [Posts -> Turn] /\ \A q \in Posts : TurnOK(turns'[q])
BY DEF TypeInv, TypeOK

LEMMA TakenType ==
  ASSUME TypeOK
  PROVE  /\ Taken.uses \in SUBSET Uses /\ Taken.from \in Posts \cup {None}
         /\ Taken.history \in SUBSET Posts
         /\ Taken.uses # {} => Taken.from # None
BY ChatConstants DEF TypeOK, Taken, Live, Proposal

\* The type invariant: above all, no proposal without a use is put.
THEOREM ChatTypeCorrect == Spec => []TypeInv
<1>1. Init => TypeInv
  BY DEF Init, TypeInv, TypeOK, TurnOK, Unsent, Turn, Stages, Kinds, Results
<1>2. TypeInv /\ [Next]_vars => TypeInv'
  <2> SUFFICES ASSUME TypeInv, [Next]_vars PROVE TypeInv'
    OBVIOUS
  <2>0. ASSUME NEW p \in Posts PROVE turns[p] \in Turn /\ TurnOK(turns[p])
    BY DEF TypeInv, TypeOK
  <2>1. ASSUME NEW p \in Posts, Arrive(p) PROVE TypeInv'
    <3>1. PICK u \in Users \cup {None}, kind \in Kinds, stage \in {"received", "asking"} :
            Begin(p, u, kind, stage) /\ (stage = "received" => u \in Users /\ kind # "alert")
      BY <2>1 DEF Arrive, Send, Investigate, Kinds
    <3> DEFINE t == [Unsent EXCEPT !.user = u, !.kind = kind, !.stage = stage,
                                   !.saw = asked, !.after = Over]
    <3>2. t \in Turn
      BY DEF Unsent, Turn, Stages, Results, Kinds, Over, TypeInv, TypeOK
    <3>3. TurnOK(t)
      BY <3>1 DEF Unsent, TurnOK
    <3>4. turns' = [turns EXCEPT ![p] = t] /\ UNCHANGED <<conv, pending, asked, lost>>
      BY <3>1 DEF Begin
    <3> HIDE DEF t
    <3> QED BY <3>2, <3>3, <3>4, OneTurn DEF TypeInv, TypeOK
  <2>2. ASSUME NEW p \in Posts, Refuse(p) PROVE TypeInv'
    <3>0. PICK r \in Turn : r = turns[p] /\ TurnOK(r)
      BY <2>0
    <3> DEFINE t == [r EXCEPT !.stage = "done", !.result = "failed"]
    <3>1. t \in Turn /\ TurnOK(t)
      BY <3>0 DEF Turn, TurnOK, Stages, Results
    <3>2. turns' = [turns EXCEPT ![p] = t]
      BY <2>2, <3>0 DEF Refuse
    <3> HIDE DEF t
    <3> QED BY <2>2, <3>1, <3>2, OneTurn DEF Refuse, TypeInv, TypeOK
  <2>3. ASSUME NEW p \in Posts, Open(p) PROVE TypeInv'
    <3>0. PICK r \in Turn : r = turns[p] /\ TurnOK(r)
      BY <2>0
    <3>1. r.user \in Users /\ r.grant = {} /\ r.from = None /\ conv[ConvKey(p)] \in SUBSET Posts
      BY <3>0, <2>3 DEF Open, TurnOK, ConvKey, TypeInv, TypeOK
    <3>2. PICK stage \in {"asking", "opened"} :
            stage = IF r.kind = "question" THEN "asking" ELSE "opened"
      OBVIOUS
    <3>3. PICK h \in SUBSET Posts : h = conv[ConvKey(p)]
      BY <3>1
    <3> DEFINE t == [r EXCEPT !.stage = stage, !.history = h]
    <3>4. stage = "opened" => r.kind \in {"yes", "no"}
      BY <3>0, <2>3, <3>2 DEF Open, TurnOK, TypeInv, TypeOK, Turn, Kinds
    <3>5. t \in Turn
      BY <3>0, <3>2, <3>3 DEF Turn, Stages
    <3>6. TurnOK(t)
      BY <3>0, <3>1, <3>2, <3>4 DEF Turn, TurnOK
    <3>7. turns' = [turns EXCEPT ![p] = t]
      BY <2>3, <3>0, <3>2, <3>3 DEF Open
    <3> HIDE DEF t
    <3> QED BY <2>3, <3>5, <3>6, <3>7, OneTurn DEF Open, TypeInv, TypeOK
  <2>4. ASSUME NEW p \in Posts, Look(p) PROVE TypeInv'
    <3>0. PICK r \in Turn : r = turns[p] /\ TurnOK(r)
      BY <2>0
    <3> DEFINE t == IF Live THEN [r EXCEPT !.stage = "matched"]
                    ELSE [r EXCEPT !.stage = "asking", !.kind = "question"]
    <3>1. t \in Turn /\ TurnOK(t)
      BY <3>0, <2>4 DEF Look, Turn, Stages, Kinds, TurnOK
    <3>2. turns' = [turns EXCEPT ![p] = t]
      BY <2>4, <3>0 DEF Look
    <3> HIDE DEF t
    <3> QED BY <2>4, <3>1, <3>2, OneTurn DEF Look, TypeInv, TypeOK
  <2>5. ASSUME NEW p \in Posts, Take(p) PROVE TypeInv'
    <3>0. PICK r \in Turn : r = turns[p] /\ TurnOK(r)
      BY <2>0
    <3> DEFINE t == IF r.kind = "no" THEN Decline(r) ELSE Approve(r)
    <3>1. r.kind \in {"yes", "no"} /\ r.grant = {}
      BY <3>0, <2>5 DEF Take, TurnOK
    <3>2. t \in Turn
      <4> DEFINE take == Taken
      <4>1. /\ take.uses \in SUBSET Uses /\ take.from \in Posts \cup {None}
            /\ take.history \in SUBSET Posts
        BY TakenType DEF TypeInv
      <4> HIDE DEF take
      <4>2. [r EXCEPT !.stage = "done", !.result = "declined", !.from = take.from,
                      !.history = {}] \in Turn
        BY <3>0, <4>1 DEF Turn, Stages, Results
      <4>3. PICK h \in SUBSET Posts : h = IF r.history = {} THEN take.history ELSE r.history
        BY <3>0, <4>1 DEF Turn
      <4>4. [r EXCEPT !.stage = "asking", !.grant = take.uses, !.from = take.from,
                      !.history = h] \in Turn
        BY <3>0, <4>1 DEF Turn, Stages
      <4> QED BY <3>0, <4>2, <4>3, <4>4 DEF take, Decline, Approve
    <3>3. TurnOK(t)
      BY <3>0, <3>1, TakenType DEF TypeInv, Decline, Approve, Turn, TurnOK
    <3>4. turns' = [turns EXCEPT ![p] = t] /\ pending' = None
      BY <2>5, <3>0 DEF Take
    <3> HIDE DEF t
    <3> QED BY <2>5, <3>2, <3>3, <3>4, OneTurn DEF Take, TypeInv, TypeOK
  <2>6. ASSUME NEW p \in Posts, Fail(p) PROVE TypeInv'
    <3>0. PICK r \in Turn : r = turns[p] /\ TurnOK(r)
      BY <2>0
    <3> DEFINE t == [r EXCEPT !.stage = "done", !.result = "failed", !.history = {}]
    <3>1. t \in Turn /\ TurnOK(t)
      BY <3>0 DEF Turn, TurnOK, Stages, Results
    <3>2. turns' = [turns EXCEPT ![p] = t]
      BY <2>6, <3>0 DEF Fail
    <3> HIDE DEF t
    <3> QED BY <2>6, <3>1, <3>2, OneTurn DEF Fail, TypeInv, TypeOK
  <2>7. ASSUME NEW p \in Posts, NEW asks \in Requests, Answer(p, asks) PROVE TypeInv'
    <3>0. PICK r \in Turn : r = turns[p] /\ TurnOK(r)
      BY <2>0
    <3>1. PICK stage \in {"offering", "replying"} :
            stage = AfterAnswer(p, asks) /\ (stage = "offering" => asks # {})
      BY DEF AfterAnswer
    <3>2. PICK kept \in SUBSET Posts :
            /\ turns' = [turns EXCEPT ![p] = [r EXCEPT !.stage = stage, !.asks = asks,
                                               !.result = "answered", !.history = kept]]
            /\ conv' \in {conv, [conv EXCEPT ![ConvKey(p)] = kept]}
            /\ cut' \in SUBSET Posts
      <4>1. Transcript(p) \in SUBSET Posts /\ \A k \in Trimmed(p) : k \subseteq Posts
        BY <3>0 DEF Transcript, Trimmed, Turn
      <4> QED BY <2>7, <3>0, <3>1, <4>1 DEF Answer, TypeInv, TypeOK
    <3> DEFINE t == [r EXCEPT !.stage = stage, !.asks = asks, !.result = "answered",
                              !.history = kept]
    <3>3. asks \in SUBSET Uses
      BY ChatConstants
    <3>4. t \in Turn /\ TurnOK(t)
      BY <3>0, <3>1, <3>3 DEF Turn, TurnOK, Stages, Results
    <3>5. turns' = [turns EXCEPT ![p] = t]
      BY <3>2
    <3> HIDE DEF t
    <3>6. conv' \in [Users -> SUBSET Posts]
      BY <3>2 DEF TypeInv, TypeOK
    <3> QED BY <2>7, <3>2, <3>4, <3>5, <3>6, OneTurn DEF Answer, TypeInv, TypeOK
  <2>8. ASSUME NEW p \in Posts, Offer(p) PROVE TypeInv'
    <3>0. PICK r \in Turn : r = turns[p] /\ TurnOK(r)
      BY <2>0
    <3> DEFINE t == [r EXCEPT
                       !.stage = IF r.kind = "alert" THEN "done" ELSE "replying"]
    <3>1. t \in Turn /\ TurnOK(t)
      BY <3>0, <2>8 DEF Offer, Turn, TurnOK, Stages
    <3>2. turns' = [turns EXCEPT ![p] = t]
      BY <2>8, <3>0 DEF Offer
    <3>3. pending' \in Proposal
      <4>1. r.asks \in SUBSET Uses /\ r.asks # {} /\ r.history \in SUBSET Posts
        BY <3>0, <2>8 DEF Offer, Turn, TurnOK
      <4>2. pending' = [uses |-> r.asks, from |-> p, history |-> r.history, live |-> TRUE]
        BY <3>0, <2>8 DEF Offer, Offered
      <4>3. r.asks \in (SUBSET Uses) \ {{}}
        BY <4>1
      <4> QED BY <4>1, <4>2, <4>3 DEF Proposal
    <3> HIDE DEF t
    <3> QED BY <2>8, <3>1, <3>2, <3>3, OneTurn DEF Offer, TypeInv, TypeOK
  <2>9. ASSUME NEW p \in Posts, NEW ok \in BOOLEAN, Reply(p, ok) PROVE TypeInv'
    <3>0. PICK r \in Turn : r = turns[p] /\ TurnOK(r)
      BY <2>0
    <3>1. PICK stage \in {"offering", "done"} :
            /\ stage = IF r.kind = "alert" /\ ok /\ r.asks # {} THEN "offering" ELSE "done"
            /\ stage = "offering" => r.asks # {}
      OBVIOUS
    <3> DEFINE t == [r EXCEPT !.delivered = ok, !.stage = stage]
    <3>2. t \in Turn /\ TurnOK(t)
      BY <3>0, <3>1, <2>9 DEF Reply, Turn, TurnOK, Stages
    <3>3. turns' = [turns EXCEPT ![p] = t]
      BY <2>9, <3>0, <3>1 DEF Reply
    <3>4. asked' \in Posts \cup {None}
      BY <3>0, <2>9 DEF Reply, TypeInv, TypeOK
    <3> HIDE DEF t
    <3> QED BY <2>9, <3>2, <3>3, <3>4, OneTurn DEF Reply, TypeInv, TypeOK
  <2>10. CASE Expire
    BY <2>10 DEF Expire, TypeInv, TypeOK, Proposal
  <2>11. ASSUME NEW u \in Users, Forget(u) PROVE TypeInv'
    BY <2>11 DEF Forget, TypeInv, TypeOK
  <2>12. CASE UNCHANGED vars
    BY <2>12 DEF vars, TypeInv, TypeOK
  <2> QED
    BY <2>1, <2>2, <2>3, <2>4, <2>5, <2>6, <2>7, <2>8, <2>9, <2>10, <2>11, <2>12
       DEF Next, Handle
<1> QED BY <1>1, <1>2, PTL DEF Spec

-----------------------------------------------------------------------------
(* What becomes of a proposal *)

\* The turn has put its proposal, if it had one: what it asks for is final.
Settled(p) ==
  turns[p].stage = "done" \/ (turns[p].stage = "replying" /\ turns[p].kind # "alert")

OfferOf(uses, from) ==
  Settled(from) /\ turns[from].result = "answered" /\ uses = turns[from].asks

\* What waits was offered by a turn that has put it and taken by none, and what
\* was taken was offered and taken once.
OfferInv ==
  /\ pending # None =>
       OfferOf(pending.uses, pending.from) /\ \A p \in Posts : turns[p].from # pending.from
  /\ \A p \in Posts : turns[p].from # None =>
       OfferOf(turns[turns[p].from].asks, turns[p].from)
  /\ \A p \in Posts : Granted(p) => turns[p].grant = turns[turns[p].from].asks
  /\ UsedOnce

\* A step that neither puts nor takes leaves this alone.
Quiet ==
  /\ \A q \in Posts :
       /\ turns'[q].from = turns[q].from /\ turns'[q].grant = turns[q].grant
       /\ Settled(q) => /\ Settled(q)'
                        /\ turns'[q].asks = turns[q].asks /\ turns'[q].result = turns[q].result
  /\ pending' = pending

LEMMA QuietStep == TypeInv /\ OfferInv /\ Quiet => OfferInv'
<1> SUFFICES ASSUME TypeInv, OfferInv, Quiet PROVE OfferInv'
  OBVIOUS
<1>1. \A p \in Posts : turns[p].from \in Posts \cup {None} /\ (Granted(p) => turns[p].from # None)
  BY DEF TypeInv, TypeOK, TurnOK, Turn, Granted
<1>2. pending # None => pending.from \in Posts
  BY DEF TypeInv, TypeOK, Proposal
<1>3. (pending # None =>
        OfferOf(pending.uses, pending.from) /\ \A p \in Posts : turns[p].from # pending.from)'
  BY <1>2 DEF OfferInv, Quiet, OfferOf
<1>4. (\A p \in Posts : turns[p].from # None =>
        OfferOf(turns[turns[p].from].asks, turns[p].from))'
  BY <1>1 DEF OfferInv, Quiet, OfferOf
<1>5. (\A p \in Posts : Granted(p) => turns[p].grant = turns[turns[p].from].asks)'
  BY <1>1 DEF OfferInv, Quiet, OfferOf, Granted
<1>6. UsedOnce'
  BY DEF OfferInv, Quiet, UsedOnce
<1> QED BY <1>3, <1>4, <1>5, <1>6 DEF OfferInv

LEMMA QuietSteps ==
  ASSUME TypeInv, NEW p \in Posts,
         \/ Arrive(p) \/ Refuse(p) \/ Open(p) \/ Look(p) \/ Fail(p)
         \/ \E asks \in Requests : Answer(p, asks)
         \/ \E ok \in BOOLEAN : Reply(p, ok)
  PROVE  Quiet
<1> USE DEF Quiet, Settled
<1>0. turns \in [Posts -> Turn] /\ \A q \in Posts : TurnOK(turns[q])
  BY DEF TypeInv, TypeOK
<1>1. CASE Arrive(p)
  <2>1. PICK u \in Users \cup {None}, kind \in Kinds, stage \in {"received", "asking"} :
          Begin(p, u, kind, stage)
    BY <1>1 DEF Arrive, Send, Investigate, Kinds
  <2>2. ~Settled(p) /\ turns[p].from = None /\ turns[p].grant = {}
    BY <1>0, <2>1 DEF Begin, TurnOK
  <2>3. turns'[p].from = None /\ turns'[p].grant = {}
    BY <1>0, <2>1 DEF Begin, Unsent
  <2>4. /\ \A q \in Posts \ {p} : turns'[q] = turns[q]
        /\ pending' = pending
    BY <1>0, <2>1 DEF Begin
  <2> QED BY <2>2, <2>3, <2>4
<1>2. CASE Refuse(p)
  BY <1>0, <1>2 DEF Refuse, Turn
<1>3. CASE Open(p)
  BY <1>0, <1>3 DEF Open, Turn
<1>4. CASE Look(p)
  BY <1>0, <1>4 DEF Look, Turn
<1>5. CASE Fail(p)
  BY <1>0, <1>5 DEF Fail, Turn
<1>6. CASE \E asks \in Requests : Answer(p, asks)
  <2>1. PICK asks \in Requests : Answer(p, asks)
    BY <1>6
  <2>2. PICK stage : stage = AfterAnswer(p, asks)
    OBVIOUS
  <2>3. PICK kept : turns' = [turns EXCEPT ![p] =
          [turns[p] EXCEPT !.stage = stage, !.asks = asks, !.result = "answered",
                           !.history = kept]]
    BY <2>1, <2>2 DEF Answer
  <2>4. ~Settled(p) /\ pending' = pending
    BY <2>1 DEF Answer
  <2> QED BY <1>0, <2>3, <2>4 DEF Turn
<1>7. CASE \E ok \in BOOLEAN : Reply(p, ok)
  <2>1. PICK ok \in BOOLEAN : Reply(p, ok)
    BY <1>7
  <2>2. PICK stage : stage = IF turns[p].kind = "alert" /\ ok /\ turns[p].asks # {}
                             THEN "offering" ELSE "done"
    OBVIOUS
  <2>3. turns' = [turns EXCEPT ![p] = [turns[p] EXCEPT !.delivered = ok, !.stage = stage]]
    BY <2>1, <2>2 DEF Reply
  <2>4. pending' = pending /\ turns[p].stage = "replying"
    BY <2>1 DEF Reply
  <2>5. turns[p].kind # "alert" => stage = "done"
    BY <2>2
  <2> QED BY <1>0, <2>3, <2>4, <2>5 DEF Turn
<1> QED BY <1>1, <1>2, <1>3, <1>4, <1>5, <1>6, <1>7

LEMMA TakeStep ==
  ASSUME TypeInv, OfferInv, NEW p \in Posts, Take(p)
  PROVE  OfferInv'
<1>0. turns \in [Posts -> Turn] /\ TurnOK(turns[p]) /\ pending \in Proposal \cup {None}
  BY DEF TypeInv, TypeOK
<1>1. /\ turns[p].stage = "matched" /\ turns[p].kind \in {"yes", "no"}
      /\ turns[p].grant = {} /\ turns[p].from = None
  BY <1>0 DEF Take, TurnOK
<1>2. /\ \A q \in Posts \ {p} : turns'[q] = turns[q]
      /\ pending' = None
  BY <1>0 DEF Take
<1>3. /\ turns'[p].from = Taken.from
      /\ turns'[p].grant \in {{}, Taken.uses}
  BY <1>0, <1>1 DEF Take, Approve, Decline, Turn
<1>4. Taken.from # None => /\ pending # None /\ Taken.from = pending.from
                           /\ Taken.uses = pending.uses /\ pending.from \in Posts
  BY <1>0 DEF Taken, Live, Proposal
<1>5. Taken.from # None => /\ OfferOf(Taken.uses, Taken.from) /\ Taken.from # p
                           /\ \A q \in Posts : turns[q].from # Taken.from
  BY <1>1, <1>4 DEF OfferInv, OfferOf, Settled
<1>6. Taken.from = None => Taken.uses = {}
  BY TakenType DEF TypeInv
<1>7. \A q \in Posts : turns[q].from \in Posts \cup {None} /\ (Granted(q) => turns[q].from # None)
  BY DEF TypeInv, TypeOK, TurnOK, Turn, Granted
<1>8. \A q \in Posts : turns[q].from # p
  BY <1>1, ChatConstants DEF OfferInv, OfferOf, Settled
<1>9. (\A q \in Posts : turns[q].from # None =>
        OfferOf(turns[turns[q].from].asks, turns[q].from))'
  BY <1>2, <1>3, <1>4, <1>5, <1>7, <1>8 DEF OfferInv, OfferOf, Settled
<1>10. (\A q \in Posts : Granted(q) => turns[q].grant = turns[turns[q].from].asks)'
  BY <1>2, <1>3, <1>4, <1>5, <1>6, <1>7, <1>8 DEF OfferInv, OfferOf, Granted
<1>11. UsedOnce'
  <2>1. \A q \in Posts \ {p} : turns'[q].from = turns[q].from
    BY <1>2
  <2>2. \A q \in Posts \ {p} : turns'[p].from # None => turns'[q].from # turns'[p].from
    BY <1>3, <1>5, <2>1
  <2>3. UsedOnce
    BY DEF OfferInv
  <2> QED BY <2>1, <2>2, <2>3 DEF UsedOnce
<1> QED BY <1>2, <1>9, <1>10, <1>11 DEF OfferInv

LEMMA OfferStep ==
  ASSUME TypeInv, OfferInv, NEW p \in Posts, Offer(p)
  PROVE  OfferInv'
<1>0. turns \in [Posts -> Turn]
  BY DEF TypeInv, TypeOK
<1>1. /\ \A q \in Posts \ {p} : turns'[q] = turns[q]
      /\ turns'[p].from = turns[p].from /\ turns'[p].grant = turns[p].grant
      /\ turns'[p].asks = turns[p].asks /\ turns'[p].result = turns[p].result
  BY <1>0 DEF Offer, Turn
<1>2. Settled(p)' /\ ~Settled(p)
  <2>1. turns'[p].stage = IF turns[p].kind = "alert" THEN "done" ELSE "replying"
    BY <1>0 DEF Offer, Turn
  <2>2. turns'[p].kind = turns[p].kind
    BY <1>0 DEF Offer, Turn
  <2> QED BY <2>1, <2>2 DEF Offer, Settled
<1>3. turns[p].result = "answered" /\ \A q \in Posts : turns[q].from # p
  BY <1>2, ChatConstants DEF TypeInv, TurnOK, Offer, OfferInv, OfferOf
<1>4. pending'.uses = turns[p].asks /\ pending'.from = p
  BY DEF Offer, Offered
<1>5. \A q \in Posts : turns[q].from \in Posts \cup {None} /\ (Granted(q) => turns[q].from # None)
  BY DEF TypeInv, TypeOK, TurnOK, Turn, Granted
<1>6. \A q \in Posts : turns'[q].from = turns[q].from /\ turns'[q].grant = turns[q].grant
                       /\ turns'[q].asks = turns[q].asks
  BY <1>1
<1>7. \A q \in Posts : Settled(q) => Settled(q)' /\ turns'[q].result = turns[q].result
  BY <1>1, <1>2 DEF Settled
<1>8. (pending # None =>
        OfferOf(pending.uses, pending.from) /\ \A q \in Posts : turns[q].from # pending.from)'
  BY <1>1, <1>2, <1>3, <1>4, <1>6 DEF OfferOf
<1>9. (\A q \in Posts : turns[q].from # None =>
        OfferOf(turns[turns[q].from].asks, turns[q].from))'
  BY <1>5, <1>6, <1>7 DEF OfferInv, OfferOf
<1>10. (\A q \in Posts : Granted(q) => turns[q].grant = turns[turns[q].from].asks)'
  BY <1>5, <1>6 DEF OfferInv, Granted
<1>11. UsedOnce'
  BY <1>6 DEF OfferInv, UsedOnce
<1> QED BY <1>8, <1>9, <1>10, <1>11 DEF OfferInv

LEMMA OfferInvariant == Spec => [](TypeInv /\ OfferInv)
<1>1. Init => OfferInv
  BY DEF Init, OfferInv, UsedOnce, Granted, Unsent
<1>2. TypeInv /\ OfferInv /\ [Next]_vars => OfferInv'
  <2> SUFFICES ASSUME TypeInv, OfferInv, [Next]_vars PROVE OfferInv'
    OBVIOUS
  <2>1. ASSUME NEW p \in Posts, Take(p) PROVE OfferInv'
    BY <2>1, TakeStep
  <2>2. ASSUME NEW p \in Posts, Offer(p) PROVE OfferInv'
    BY <2>2, OfferStep
  <2>3. ASSUME NEW p \in Posts,
               \/ Arrive(p) \/ Refuse(p) \/ Open(p) \/ Look(p) \/ Fail(p)
               \/ \E asks \in Requests : Answer(p, asks)
               \/ \E ok \in BOOLEAN : Reply(p, ok)
        PROVE  OfferInv'
    BY <2>3, QuietSteps, QuietStep
  <2>4. CASE Expire
    BY <2>4 DEF Expire, OfferInv, OfferOf, Settled, UsedOnce, Granted, TypeInv, TypeOK, Proposal
  <2>5. CASE (\E u \in Users : Forget(u)) \/ UNCHANGED vars
    <3>1. Quiet
      BY <2>5 DEF Forget, vars, Quiet, Settled
    <3> QED BY <3>1, QuietStep
  <2> QED
    BY <2>1, <2>2, <2>3, <2>4, <2>5 DEF Next, Handle
<1> QED BY <1>1, <1>2, ChatTypeCorrect, PTL DEF Spec

\* However the replies of a thread interleave, one of them takes a proposal.
THEOREM ProposalUsedOnce == Spec => []UsedOnce
BY OfferInvariant, PTL DEF OfferInv

\* A grant is exactly what one answered turn asked for, obtained by a yes.
THEOREM GrantCorrect == Spec => []GrantIsOneOffer
<1>1. TypeInv /\ OfferInv => GrantIsOneOffer
  BY DEF TypeInv, TurnOK, OfferInv, OfferOf, GrantIsOneOffer, Granted
<1> QED BY <1>1, OfferInvariant, PTL

\* Nothing is granted out of a proposal that has expired.
THEOREM GrantInTime == Spec => NoLateGrant
<1>1. TypeInv /\ [Next]_vars =>
        [\A p \in Posts : turns'[p].grant # turns[p].grant => pending.live]_vars
  <2> SUFFICES ASSUME TypeInv, [Next]_vars, NEW q \in Posts, turns'[q].grant # turns[q].grant
               PROVE  pending.live
    OBVIOUS
  <2>1. ASSUME NEW p \in Posts, Take(p) PROVE pending.live
    <3>1. turns[p].grant = {} /\ turns \in [Posts -> Turn]
      BY <2>1 DEF Take, TypeInv, TypeOK, TurnOK
    <3>2. q = p
      BY <2>1, <3>1 DEF Take
    <3>3. turns'[p].grant \in {turns[p].grant, Taken.uses}
      BY <2>1, <3>1 DEF Take, Approve, Decline, Turn
    <3> QED BY <3>1, <3>2, <3>3 DEF Taken, Live
  <2>2. ASSUME NEW p \in Posts, Offer(p) PROVE FALSE
    BY <2>2 DEF Offer, TypeInv, TypeOK, Turn
  <2>3. ASSUME NEW p \in Posts,
               \/ Arrive(p) \/ Refuse(p) \/ Open(p) \/ Look(p) \/ Fail(p)
               \/ \E asks \in Requests : Answer(p, asks)
               \/ \E ok \in BOOLEAN : Reply(p, ok)
        PROVE  FALSE
    BY <2>3, QuietSteps DEF Quiet
  <2>4. CASE Expire \/ (\E u \in Users : Forget(u)) \/ UNCHANGED vars
    BY <2>4 DEF Expire, Forget, vars
  <2> QED
    BY <2>1, <2>2, <2>3, <2>4 DEF Next, Handle
<1> QED BY <1>1, ChatTypeCorrect, PTL DEF Spec, NoLateGrant

-----------------------------------------------------------------------------
(* What was on the screen, and what is remembered *)

Answered(q) == turns[q].result = "answered"

\* The thread was asked by the turn, and the store was given its proposal.
Asker(q) == turns[q].delivered /\ turns[q].asks # {}
Put(q) ==
  Settled(q) /\ Answered(q) /\ turns[q].asks # {} /\ (turns[q].kind = "alert" => turns[q].delivered)

\* What a turn says of itself: it is blank until the post arrives, only alerts have
\* no author, a turn ends with a result, and it is on the screen only once answered.
Recorded(t) ==
  /\ t.stage = "unsent" => t = Unsent
  /\ t.stage # "unsent" => (t.user \in Users <=> t.kind # "alert")
  /\ t.result = "none" <=> t.stage \in {"unsent", "received", "opened", "matched", "asking"}
  /\ t.delivered => /\ t.result = "answered"
                    /\ t.stage = "done" \/ (t.stage = "offering" /\ t.kind = "alert")

\* What it says of the turns before it.
RecordInv ==
  /\ \A q \in Posts :
       /\ Recorded(turns[q])
       /\ turns[q].after \subseteq Over \ {q}
       /\ turns[q].saw # None =>
            turns[q].saw # q /\ Asker(turns[q].saw) /\ q \notin turns[turns[q].saw].after
  /\ asked # None => Asker(asked)

\* Who was asked after whom: the last request did not end before another one was
\* written, nor did what a post saw before what ended before that post.
AskedInv ==
  /\ \A x \in Posts : Asker(x) => asked # None /\ asked \notin turns[x].after
  /\ \A p \in Posts : \A x \in turns[p].after :
       Asker(x) => turns[p].saw # None /\ turns[p].saw \notin turns[x].after

\* What waits, and what was taken, was not replaced by a later turn's proposal nor
\* declined by a later reply.
LatestInv ==
  /\ pending # None =>
       \A x \in Posts : Put(x) \/ turns[x].result = "declined" => pending.from \notin turns[x].after
  /\ \A p \in Posts : turns[p].from # None =>
       /\ turns[p].from # p /\ p \notin turns[turns[p].from].after
       /\ \A x \in turns[p].after :
            Put(x) \/ turns[x].result = "declined" => turns[p].from \notin turns[x].after

ScreenInv == RecordInv /\ AskedInv /\ LatestInv

\* The transcript that an answered exchange left.
Left(q) == turns[q].history

\* The exchange of p is u's own, or came with a proposal that an exchange of u
\* among exchanges approved, which p is older than.
Came(u, p, exchanges) ==
  \/ turns[p].user = u
  \/ \E q \in exchanges :
       turns[q].user = u /\ Granted(q) /\ p \in Left(turns[q].from) /\ p \in Left(q)

\* What a transcript of u holds is finished, and came to u.
Kept(u, exchanges) == \A p \in exchanges : Answered(p) /\ Came(u, p, exchanges)

\* So is what a turn goes on with, unless it came with the proposal it approves.
Recalls(r) ==
  \A p \in turns[r].history :
    /\ Answered(p)
    /\ \/ Came(turns[r].user, p, turns[r].history)
       \/ Granted(r) /\ p \in Left(turns[r].from)

MemoryInv ==
  /\ \A u \in Users : Kept(u, conv[u])
  /\ \A r \in Posts : Recalls(r)
  /\ pending # None => pending.history = Left(pending.from)

\* Another turn of the same author ran beside it.
Beside(p) == \E r \in Posts : turns[r].user = turns[p].user /\ Overlap(p, r)

\* A finished exchange is in its user's transcript, expired, pushed out, or met
\* another of the same user's.
KnownInv ==
  \A p \in Posts : Answered(p) /\ turns[p].kind # "alert" =>
    p \in conv[turns[p].user] \cup forgot \cup cut \/ Beside(p)

-----------------------------------------------------------------------------
(* The frame of a step *)

\* What no step changes: who wrote a post and what was there before it, and all
\* of an answered exchange but where its handler is.
Moves ==
  \A q \in Posts :
    LET t == turns[q]  n == turns'[q] IN
    /\ t.stage # "unsent" => /\ n.stage # "unsent"
                             /\ n.user = t.user /\ n.saw = t.saw /\ n.after = t.after
                             /\ n.kind = "alert" <=> t.kind = "alert"
    /\ t.stage = "done" => n = t
    /\ t.result = "answered" => /\ n.kind = t.kind /\ n.grant = t.grant /\ n.from = t.from
                                /\ n.history = t.history /\ n.asks = t.asks
                                /\ n.result = t.result

\* Nobody else's turn is touched by the handler of p.
LEMMA Others ==
  ASSUME TypeInv, NEW p \in Posts, Arrive(p) \/ Handle(p)
  PROVE  \A q \in Posts \ {p} : turns'[q] = turns[q]
BY DEF TypeInv, TypeOK, Arrive, Send, Investigate, Begin, Handle, Refuse, Open, Look, Take, Fail,
       Answer, Offer, Reply

LEMMA HandleMoves ==
  ASSUME TypeInv, \A q \in Posts : Recorded(turns[q]), NEW p \in Posts, Handle(p)
  PROVE  /\ Moves
         /\ turns[p].stage \notin {"unsent", "done"} /\ turns'[p].stage # "unsent"
<1>0. turns \in [Posts -> Turn] /\ turns[p] \in Turn /\ TurnOK(turns[p]) /\ Recorded(turns[p])
  BY DEF TypeInv, TypeOK
<1> DEFINE
      t == turns[p]
      n == turns'[p]
      Same ==
        /\ t.stage \notin {"unsent", "done"} /\ n.stage # "unsent"
        /\ n.user = t.user /\ n.saw = t.saw /\ n.after = t.after
        /\ n.kind = "alert" <=> t.kind = "alert"
        /\ t.result = "answered" => /\ n.kind = t.kind /\ n.grant = t.grant /\ n.from = t.from
                                    /\ n.history = t.history /\ n.asks = t.asks
                                    /\ n.result = t.result
<1>1. Same
  <2>1. CASE Refuse(p)
    BY <1>0, <2>1 DEF Refuse, Turn, Recorded
  <2>2. CASE Open(p)
    <3>1. t.stage = "received" /\ t.result = "none"
      BY <1>0, <2>2 DEF Open, Recorded
    <3>2. PICK h, stage : /\ n = [t EXCEPT !.stage = stage, !.history = h]
                          /\ stage \in {"asking", "opened"}
      BY <1>0, <2>2 DEF Open
    <3> QED BY <1>0, <3>1, <3>2 DEF Turn
  <2>3. CASE Look(p)
    BY <1>0, <2>3 DEF Look, Turn, Recorded, TurnOK
  <2>4. CASE Take(p)
    BY <1>0, <2>4 DEF Take, Approve, Decline, Turn, Recorded, TurnOK
  <2>5. CASE Fail(p)
    BY <1>0, <2>5 DEF Fail, Turn, Recorded
  <2>6. CASE Offer(p)
    BY <1>0, <2>6 DEF Offer, Turn, Recorded
  <2>7. ASSUME NEW asks \in Requests, Answer(p, asks) PROVE Same
    BY <1>0, <2>7 DEF Answer, AfterAnswer, Turn, Recorded
  <2>8. ASSUME NEW ok \in BOOLEAN, Reply(p, ok) PROVE Same
    BY <1>0, <2>8 DEF Reply, Turn, Recorded
  <2> QED BY <2>1, <2>2, <2>3, <2>4, <2>5, <2>6, <2>7, <2>8 DEF Handle
<1>2. \A q \in Posts \ {p} : turns'[q] = turns[q]
  BY Others
<1> QED BY <1>1, <1>2 DEF Moves

LEMMA ArriveMoves ==
  ASSUME TypeInv, NEW p \in Posts, Arrive(p)
  PROVE  /\ turns[p].stage = "unsent" /\ UNCHANGED <<conv, pending, asked, lost>>
         /\ turns'[p].after = Over /\ turns'[p].saw = asked
         /\ turns'[p].stage \in {"received", "asking"} /\ turns'[p].result = "none"
         /\ turns'[p].user \in Users <=> turns'[p].kind # "alert"
         /\ turns'[p].kind = "alert" <=> turns'[p].stage = "asking"
         /\ turns'[p].delivered = FALSE /\ turns'[p].from = None /\ turns'[p].grant = {}
         /\ turns'[p].history = {} /\ turns'[p].asks = {}
<1>1. PICK u \in Users \cup {None}, kind \in Kinds, stage \in {"received", "asking"} :
        /\ Begin(p, u, kind, stage)
        /\ u \in Users <=> kind # "alert"
        /\ kind = "alert" <=> stage = "asking"
  BY ChatConstants DEF Arrive, Send, Investigate, Kinds
<1> QED BY <1>1 DEF Begin, Unsent, TypeInv, TypeOK

\* A turn stays one that speaks the truth of itself.
LEMMA RecordedStep ==
  ASSUME TypeInv, \A q \in Posts : Recorded(turns[q]), NEW p \in Posts, Arrive(p) \/ Handle(p)
  PROVE  \A q \in Posts : Recorded(turns'[q])
<1>0. turns \in [Posts -> Turn] /\ turns[p] \in Turn /\ TurnOK(turns[p]) /\ Recorded(turns[p])
  BY DEF TypeInv, TypeOK
<1> DEFINE t == turns[p]
           n == turns'[p]
<1>1. Recorded(n)
  <2>1. CASE Arrive(p)
    BY <2>1, ArriveMoves DEF Recorded
  <2>2. CASE Refuse(p)
    BY <1>0, <2>2 DEF Refuse, Turn, Recorded
  <2>3. CASE Open(p)
    <3>1. t.stage = "received" /\ t.result = "none"
      BY <1>0, <2>3 DEF Open, Recorded
    <3>2. PICK h, stage : /\ n = [t EXCEPT !.stage = stage, !.history = h]
                          /\ stage \in {"asking", "opened"}
      BY <1>0, <2>3 DEF Open
    <3> QED BY <1>0, <3>1, <3>2 DEF Turn, Recorded
  <2>4. CASE Look(p)
    BY <1>0, <2>4 DEF Look, Turn, Recorded, TurnOK
  <2>5. CASE Take(p)
    BY <1>0, <2>5 DEF Take, Approve, Decline, Turn, Recorded, TurnOK
  <2>6. CASE Fail(p)
    BY <1>0, <2>6 DEF Fail, Turn, Recorded
  <2>7. CASE Offer(p)
    BY <1>0, <2>7 DEF Offer, Turn, Recorded, TurnOK
  <2>8. ASSUME NEW asks \in Requests, Answer(p, asks) PROVE Recorded(n)
    BY <1>0, <2>8 DEF Answer, AfterAnswer, Turn, Recorded
  <2>9. ASSUME NEW ok \in BOOLEAN, Reply(p, ok) PROVE Recorded(n)
    BY <1>0, <2>9 DEF Reply, Turn, Recorded, TurnOK
  <2> QED BY <2>1, <2>2, <2>3, <2>4, <2>5, <2>6, <2>7, <2>8, <2>9 DEF Handle
<1> QED BY <1>1, Others

LEMMA StepMoves ==
  ASSUME TypeInv, \A q \in Posts : Recorded(turns[q]), [Next]_vars
  PROVE  Moves /\ \A q \in Posts : Recorded(turns'[q])
<1>1. ASSUME NEW p \in Posts, Arrive(p) PROVE Moves
  <2>1. turns[p].stage = "unsent" /\ turns[p].result = "none"
    BY <1>1, ArriveMoves DEF Recorded
  <2> QED BY <1>1, <2>1, Others DEF Moves
<1>2. ASSUME NEW p \in Posts, Handle(p) PROVE Moves
  BY <1>2, HandleMoves
<1>3. CASE Expire \/ (\E u \in Users : Forget(u)) \/ UNCHANGED vars
  <2>1. turns' = turns
    BY <1>3 DEF Expire, Forget, vars
  <2> QED BY <2>1 DEF Moves
<1> QED BY <1>1, <1>2, <1>3, RecordedStep DEF Next

-----------------------------------------------------------------------------
(* What was on the screen *)

\* What changes who was asked what: the arrival of a post and a reply.
Unseen ==
  /\ asked' = asked
  /\ \A q \in Posts : turns'[q].after = turns[q].after /\ turns'[q].saw = turns[q].saw
                      /\ (Asker(q)' <=> Asker(q))

\* What changes whose proposal is the latest: an offer and a reply that takes one.
Unmoved ==
  /\ pending' = None \/ (pending # None /\ pending'.from = pending.from)
  /\ \A q \in Posts : turns'[q].from = turns[q].from /\ turns'[q].after = turns[q].after
                      /\ (Put(q)' <=> Put(q))
                      /\ (turns'[q].result = "declined" <=> turns[q].result = "declined")

LEMMA UnseenUnmoved ==
  ASSUME TypeInv, RecordInv, NEW p \in Posts, Handle(p)
  PROVE  /\ Unseen \/ \E ok \in BOOLEAN : Reply(p, ok)
         /\ Unmoved \/ Take(p) \/ Offer(p)
<1>0. /\ turns \in [Posts -> Turn] /\ turns[p] \in Turn /\ TurnOK(turns[p]) /\ Recorded(turns[p])
      /\ \A q \in Posts \ {p} : turns'[q] = turns[q]
  BY Others DEF TypeInv, TypeOK, RecordInv
<1> DEFINE t == turns[p]
           n == turns'[p]
<1>1. CASE Refuse(p)
  BY <1>0, <1>1 DEF Refuse, Turn, Recorded, Unseen, Unmoved, Asker, Put, Settled, Answered
<1>2. CASE Open(p)
  <2>1. t.stage = "received" /\ UNCHANGED <<conv, pending, asked, lost>>
    BY <1>0, <1>2 DEF Open
  <2>2. PICK h, stage : /\ n = [t EXCEPT !.stage = stage, !.history = h]
                        /\ stage \in {"asking", "opened"}
    BY <1>0, <1>2 DEF Open
  <2>3. /\ n.after = t.after /\ n.saw = t.saw /\ n.from = t.from /\ n.result = t.result
        /\ n.delivered = t.delivered /\ n.asks = t.asks /\ n.stage = stage
    BY <1>0, <2>2 DEF Turn
  <2>4. Put(p)' <=> Put(p)
    BY <2>1, <2>2, <2>3 DEF Put, Settled
  <2>5. \A q \in Posts \ {p} : Put(q)' <=> Put(q)
    BY <1>0 DEF Put, Settled, Answered
  <2>6. Unmoved
    BY <1>0, <2>1, <2>3, <2>4, <2>5 DEF Unmoved
  <2>7. Unseen
    BY <1>0, <2>1, <2>3 DEF Unseen, Asker
  <2> QED BY <2>6, <2>7
<1>3. CASE Look(p)
  BY <1>0, <1>3 DEF Look, Turn, Recorded, Unseen, Unmoved, Asker, Put, Settled, Answered
<1>4. CASE Take(p)
  BY <1>0, <1>4 DEF Take, Approve, Decline, Turn, Recorded, Unseen, Asker
<1>5. CASE Fail(p)
  BY <1>0, <1>5 DEF Fail, Turn, Recorded, Unseen, Unmoved, Asker, Put, Settled, Answered
<1>6. CASE Offer(p)
  BY <1>0, <1>6 DEF Offer, Turn, Recorded, Unseen, Asker
<1>7. ASSUME NEW asks \in Requests, Answer(p, asks) PROVE Unseen /\ Unmoved
  BY <1>0, <1>7 DEF Answer, AfterAnswer, Turn, Recorded, Unseen, Unmoved, Asker, Put, Settled,
                    Answered
<1>8. ASSUME NEW ok \in BOOLEAN, Reply(p, ok) PROVE Unmoved
  <2>1. t.stage = "replying" /\ ~t.delivered /\ pending' = pending
    BY <1>0, <1>8 DEF Reply, Recorded
  <2>2. PICK stage : stage = IF t.kind = "alert" /\ ok /\ t.asks # {} THEN "offering" ELSE "done"
    OBVIOUS
  <2>3. n = [t EXCEPT !.delivered = ok, !.stage = stage]
    BY <1>0, <1>8, <2>2 DEF Reply
  <2>4. /\ n.asks = t.asks /\ n.result = t.result /\ n.from = t.from /\ n.after = t.after
        /\ n.kind = t.kind /\ n.delivered = ok /\ n.stage = stage
    BY <1>0, <2>3 DEF Turn
  <2>5. Put(p)' <=> Put(p)
    BY <2>1, <2>2, <2>4 DEF Put, Settled, Answered
  <2>6. \A q \in Posts \ {p} : Put(q)' <=> Put(q)
    BY <1>0 DEF Put, Settled, Answered
  <2> QED BY <1>0, <2>1, <2>4, <2>5, <2>6 DEF Unmoved
<1> QED BY <1>1, <1>2, <1>3, <1>4, <1>5, <1>6, <1>7, <1>8 DEF Handle

\* The posts of a proposal that waits or was taken have put it.
LEMMA Offers ==
  ASSUME TypeInv, OfferInv
  PROVE  /\ pending # None => pending.from \in Posts /\ Settled(pending.from)
         /\ \A q \in Posts : turns[q].from # None =>
              turns[q].from \in Posts /\ Settled(turns[q].from)
BY DEF TypeInv, TypeOK, Turn, Proposal, OfferInv, OfferOf

LEMMA RecordStep ==
  ASSUME TypeInv, RecordInv, [Next]_vars
  PROVE  RecordInv'
<1>0. Moves /\ \A q \in Posts : Recorded(turns'[q])
  BY StepMoves DEF RecordInv
<1> DEFINE Grows == /\ \A q \in Posts : Asker(q) => Asker(q)'
                    /\ (asked # None => asked \in Posts /\ Asker(asked))'
<1>1. Grows
  <2>1. ASSUME NEW p \in Posts, Arrive(p) PROVE Grows
    <3>1. turns[p].stage = "unsent" /\ ~turns[p].delivered /\ asked' = asked
      BY <2>1, ArriveMoves DEF RecordInv, Recorded
    <3> QED BY <2>1, <3>1, Others DEF Asker, RecordInv, TypeInv, TypeOK
  <2>2. ASSUME NEW p \in Posts, Unseen PROVE Grows
    BY <2>2 DEF Unseen, RecordInv, TypeInv, TypeOK, Asker
  <2>3. ASSUME NEW p \in Posts, NEW ok \in BOOLEAN, Reply(p, ok) PROVE Grows
    <3>1. turns[p].stage = "replying" /\ ~turns[p].delivered
      BY <2>3 DEF Reply, RecordInv, Recorded
    <3>2. turns'[p].asks = turns[p].asks /\ turns'[p].delivered = ok
      BY <2>3 DEF Reply, TypeInv, TypeOK, Turn
    <3>3. asked' = IF ok /\ turns[p].asks # {} THEN p ELSE asked
      BY <2>3 DEF Reply
    <3>4. \A q \in Posts \ {p} : turns'[q] = turns[q]
      BY <2>3, Others DEF Handle
    <3> QED BY <3>1, <3>2, <3>3, <3>4 DEF Asker, RecordInv, TypeInv, TypeOK
  <2>4. CASE Expire \/ (\E u \in Users : Forget(u)) \/ UNCHANGED vars
    BY <2>4 DEF Expire, Forget, vars, RecordInv, TypeInv, TypeOK, Asker
  <2> QED BY <2>1, <2>2, <2>3, <2>4, UnseenUnmoved DEF Next
<1>2. Over \subseteq Over'
  BY <1>0 DEF Moves, Over
<1>3. ASSUME NEW q \in Posts
      PROVE  (/\ turns[q].after \subseteq Over \ {q}
              /\ turns[q].saw # None =>
                   turns[q].saw # q /\ Asker(turns[q].saw) /\ q \notin turns[turns[q].saw].after)'
  <2>0. /\ turns[q].saw \in Posts \cup {None} /\ asked \in Posts \cup {None}
        /\ \A x \in Posts : Asker(x) => turns'[x].after = turns[x].after
    <3>1. \A x \in Posts : Asker(x) => turns[x].stage # "unsent"
      BY DEF RecordInv, Recorded, Asker, Unsent
    <3> QED BY <1>0, <3>1 DEF TypeInv, TypeOK, Turn, Moves
  <2>1. CASE turns[q].stage # "unsent"
    <3>1. turns'[q].after = turns[q].after /\ turns'[q].saw = turns[q].saw
      BY <1>0, <2>1 DEF Moves
    <3>2. PICK s \in Posts \cup {None} : s = turns[q].saw
      BY <2>0
    <3>3. s # None => s # q /\ Asker(s) /\ q \notin turns[s].after
      BY <3>2 DEF RecordInv
    <3>4. s # None => Asker(s)' /\ q \notin turns'[s].after
      BY <1>1, <2>0, <3>2, <3>3
    <3> QED BY <1>2, <3>1, <3>2, <3>3, <3>4 DEF RecordInv
  <2>2. CASE turns[q].stage = "unsent" /\ turns'[q] = turns[q]
    <3>1. turns'[q].after = {} /\ turns'[q].saw = None
      BY <2>2 DEF RecordInv, Recorded, Unsent
    <3> QED BY <3>1
  <2>3. CASE turns[q].stage = "unsent" /\ turns'[q] # turns[q]
    <3>1. Arrive(q)
      <4>1. ASSUME NEW p \in Posts, Arrive(p) \/ Handle(p), p # q PROVE FALSE
        BY <2>3, <4>1, Others
      <4>2. ~Handle(q)
        BY <2>3, HandleMoves DEF RecordInv
      <4>3. ~(Expire \/ (\E u \in Users : Forget(u)) \/ UNCHANGED vars)
        BY <2>3 DEF Expire, Forget, vars
      <4> QED BY <4>1, <4>2, <4>3 DEF Next
    <3>2. turns'[q].after = Over /\ turns'[q].saw = asked
      BY <3>1, ArriveMoves
    <3>3. q \notin Over /\ ~Asker(q)
      BY <2>3 DEF Over, RecordInv, Recorded, Unsent, Asker
    <3>4. PICK s \in Posts \cup {None} : s = asked
      BY <2>0
    <3>5. s # None => s # q /\ Asker(s) /\ q \notin turns[s].after
      BY <3>3, <3>4 DEF RecordInv, Over
    <3>6. s # None => Asker(s)' /\ q \notin turns'[s].after
      BY <1>1, <2>0, <3>4, <3>5
    <3> QED BY <1>2, <3>2, <3>3, <3>4, <3>5, <3>6
  <2> QED BY <2>1, <2>2, <2>3
<1> QED BY <1>0, <1>1, <1>3 DEF RecordInv

\* The turns that a post found over stay as they are, and the one arriving is blank.
LEMMA Before ==
  ASSUME TypeInv, RecordInv, NEW p \in Posts, Arrive(p) \/ Handle(p)
  PROVE  /\ p \notin Over
         /\ \A q \in Posts : p \notin turns[q].after
         /\ \A x \in Over : turns'[x] = turns[x]
<1>1. turns[p].stage # "done"
  BY ArriveMoves, HandleMoves DEF RecordInv
<1> QED BY <1>1, Others DEF RecordInv, Over

LEMMA AskedStep ==
  ASSUME TypeInv, RecordInv, AskedInv, [Next]_vars
  PROVE  AskedInv'
<1>0. \A q \in Posts : turns[q].saw \in Posts \cup {None} /\ turns[q].after \subseteq Over
  BY DEF TypeInv, TypeOK, Turn, RecordInv
<1>1. ASSUME NEW p \in Posts, Arrive(p) PROVE AskedInv'
  <2>1. /\ asked' = asked /\ turns'[p].after = Over /\ turns'[p].saw = asked
        /\ ~turns'[p].delivered
        /\ \A q \in Posts \ {p} : turns'[q] = turns[q]
    BY <1>1, ArriveMoves, Others
  <2>2. p \notin Over /\ \A q \in Posts : p \notin turns[q].after
    BY <1>1, Before
  <2>3. ~turns[p].delivered
    BY <1>1, ArriveMoves DEF RecordInv, Recorded
  <2>4. \A x \in Posts : Asker(x)' => x # p /\ Asker(x)
    BY <2>1 DEF Asker
  <2>5. asked # None => asked # p
    BY <2>3 DEF RecordInv, Asker
  <2>6. \A x \in Posts : Asker(x)' => asked' # None /\ asked' \notin turns'[x].after
    BY <2>1, <2>4 DEF AskedInv
  <2>7. ASSUME NEW q \in Posts, NEW x \in turns'[q].after, Asker(x)'
        PROVE  turns'[q].saw # None /\ turns'[q].saw \notin turns'[x].after
    <3>1. x \in Posts /\ x # p /\ Asker(x) /\ turns'[x] = turns[x]
      BY <1>0, <2>1, <2>2, <2>4, <2>7 DEF Over
    <3>2. CASE q = p
      BY <2>1, <3>1, <3>2 DEF AskedInv
    <3>3. CASE q # p
      BY <2>1, <2>7, <3>1, <3>3 DEF AskedInv
    <3> QED BY <3>2, <3>3
  <2> QED BY <2>6, <2>7 DEF AskedInv
<1>2. CASE Unseen
  BY <1>0, <1>2 DEF Unseen, AskedInv, Over
<1>3. ASSUME NEW p \in Posts, NEW ok \in BOOLEAN, Reply(p, ok) PROVE AskedInv'
  <2>1. p \notin Over /\ \A q \in Posts : p \notin turns[q].after
    BY <1>3, Before DEF Handle
  <2>2. \A q \in Posts \ {p} : turns'[q] = turns[q]
    BY <1>3, Others DEF Handle
  <2>3. /\ turns'[p].asks = turns[p].asks /\ turns'[p].delivered = ok
        /\ turns'[p].after = turns[p].after /\ turns'[p].saw = turns[p].saw
        /\ asked' = IF ok /\ turns[p].asks # {} THEN p ELSE asked
    BY <1>3 DEF Reply, TypeInv, TypeOK, Turn
  <2>4. \A x \in Posts : Asker(x)' => asked' = p \/ (asked' = asked /\ Asker(x))
    BY <2>2, <2>3 DEF Asker
  <2>5. \A x \in Posts : turns'[x].after = turns[x].after /\ turns'[x].saw = turns[x].saw
    BY <2>2, <2>3
  <2>6. \A x \in Posts : Asker(x)' => asked' # None /\ asked' \notin turns'[x].after
    BY <2>1, <2>4, <2>5, ChatConstants DEF AskedInv
  <2>7. ASSUME NEW q \in Posts, NEW x \in turns'[q].after, Asker(x)'
        PROVE  turns'[q].saw # None /\ turns'[q].saw \notin turns'[x].after
    <3>1. x \in Posts /\ x # p /\ turns'[x] = turns[x]
      BY <1>0, <2>1, <2>2, <2>5, <2>7 DEF Over
    <3>2. Asker(x)
      BY <2>7, <3>1 DEF Asker
    <3> QED BY <2>5, <2>7, <3>1, <3>2 DEF AskedInv
  <2> QED BY <2>6, <2>7 DEF AskedInv
<1>4. CASE Expire \/ (\E u \in Users : Forget(u)) \/ UNCHANGED vars
  <2>1. Unseen
    BY <1>4 DEF Expire, Forget, vars, Unseen, Asker
  <2> QED BY <1>2, <2>1
<1> QED BY <1>1, <1>2, <1>3, <1>4, UnseenUnmoved DEF Next

LEMMA LatestStep ==
  ASSUME TypeInv, OfferInv, RecordInv, LatestInv, [Next]_vars
  PROVE  LatestInv'
<1>0. /\ \A q \in Posts : /\ turns[q].after \subseteq Over
                          /\ turns[q].from # None => turns[q].from \in Posts
      /\ pending # None => pending.from \in Posts
      /\ turns \in [Posts -> Turn]
      /\ Over \subseteq Posts
  BY Offers DEF RecordInv, TypeInv, TypeOK, Over
<1>1. ASSUME NEW p \in Posts, Arrive(p) PROVE LatestInv'
  <2>1. /\ pending' = pending /\ turns'[p].from = None /\ turns'[p].result = "none"
        /\ turns[p].stage = "unsent" /\ turns'[p].after = Over
        /\ \A q \in Posts \ {p} : turns'[q] = turns[q]
    BY <1>1, ArriveMoves, Others
  <2>2. \A q \in Posts : p \notin turns[q].after
    BY <1>1, Before
  <2>3. \A x \in Posts : Put(x)' \/ turns'[x].result = "declined" =>
                           x # p /\ (Put(x) \/ turns[x].result = "declined")
    BY <2>1 DEF Put, Settled, Answered
  <2>4. /\ \A q \in Posts : turns[q].from # None => turns[q].from # p
        /\ pending # None => pending.from # p
    BY <2>1, Offers DEF Settled
  <2>5. (pending # None => \A x \in Posts : Put(x) \/ turns[x].result = "declined" =>
           pending.from \notin turns[x].after)'
    BY <2>1, <2>3 DEF LatestInv
  <2>6. ASSUME NEW q \in Posts, turns'[q].from # None
        PROVE  (/\ turns[q].from # q /\ q \notin turns[turns[q].from].after
                /\ \A x \in turns[q].after :
                     Put(x) \/ turns[x].result = "declined" => turns[q].from \notin turns[x].after)'
    <3>1. q # p /\ turns'[q] = turns[q] /\ turns'[turns[q].from] = turns[turns[q].from]
      BY <1>0, <2>1, <2>4, <2>6
    <3>2. \A x \in turns[q].after : x \in Posts /\ turns'[x] = turns[x]
      BY <1>0, <2>1, <2>2
    <3> QED BY <2>3, <2>6, <3>1, <3>2 DEF LatestInv
  <2> QED BY <2>5, <2>6 DEF LatestInv
<1>2. CASE Unmoved
  BY <1>0, <1>2 DEF Unmoved, LatestInv
<1>3. ASSUME NEW p \in Posts, Take(p) PROVE LatestInv'
  <2>1. p \notin Over /\ \A q \in Posts : p \notin turns[q].after
    BY <1>3, Before DEF Handle
  <2>2. pending' = None /\ turns[p].stage = "matched"
    BY <1>3 DEF Take
  <2>3. \A q \in Posts \ {p} : turns'[q] = turns[q]
    BY <1>3, Others DEF Handle
  <2>4. turns'[p].after = turns[p].after /\ turns'[p].from = Taken.from
    BY <1>0, <1>3 DEF Take, Approve, Decline, Turn
  <2>5. Taken.from # None => /\ pending # None /\ Taken.from = pending.from
                             /\ Taken.from \in Posts /\ Taken.from # p
    BY <1>0, <2>2, Offers DEF Taken, Live, Settled
  <2>6. ASSUME NEW q \in Posts, turns'[q].from # None
        PROVE  (/\ turns[q].from # q /\ q \notin turns[turns[q].from].after
                /\ \A x \in turns[q].after :
                     Put(x) \/ turns[x].result = "declined" => turns[q].from \notin turns[x].after)'
    <3>1. \A x \in turns'[q].after : /\ x \in Posts /\ x # p /\ turns'[x] = turns[x]
                                     /\ x \in turns[q].after
      BY <1>0, <2>1, <2>3, <2>4
    <3>2. \A x \in turns'[q].after : Put(x)' <=> Put(x)
      BY <3>1 DEF Put, Settled, Answered
    <3>3. CASE q = p
      <4>1. turns'[p].from \in Posts /\ turns'[p].from # p /\ turns'[p].from = pending.from
        BY <2>4, <2>5, <2>6, <3>3
      <4>2. p \notin turns'[turns'[p].from].after
        BY <2>1, <2>3, <4>1
      <4>3. \A x \in turns'[p].after :
              Put(x)' \/ turns'[x].result = "declined" => turns'[p].from \notin turns'[x].after
        BY <2>4, <2>5, <2>6, <3>1, <3>2, <3>3, <4>1 DEF LatestInv
      <4> QED BY <3>3, <4>1, <4>2, <4>3
    <3>4. CASE q # p
      <4>1. turns'[q] = turns[q] /\ turns[q].from # None /\ turns[q].from \in Posts
        BY <1>0, <2>3, <2>6, <3>4
      <4>2. turns'[turns[q].from].after = turns[turns[q].from].after
        BY <2>3, <2>4, <4>1
      <4> QED BY <3>1, <3>2, <4>1, <4>2 DEF LatestInv
    <3> QED BY <3>3, <3>4
  <2> QED BY <2>2, <2>6 DEF LatestInv
<1>4. ASSUME NEW p \in Posts, Offer(p) PROVE LatestInv'
  <2>1. p \notin Over /\ \A q \in Posts : p \notin turns[q].after
    BY <1>4, Before DEF Handle
  <2>2. \A q \in Posts \ {p} : turns'[q] = turns[q]
    BY <1>4, Others DEF Handle
  <2>3. /\ pending'.from = p /\ turns'[p].from = turns[p].from
        /\ turns'[p].after = turns[p].after
    BY <1>0, <1>4 DEF Offer, Offered, Turn
  <2>4. \A q \in Posts : turns'[q].from = turns[q].from /\ turns'[q].after = turns[q].after
    BY <2>2, <2>3
  <2>5. \A q \in Posts : \A x \in turns[q].after : x \in Posts /\ (Put(x)' <=> Put(x))
                                                   /\ turns'[x].result = turns[x].result
    BY <1>0, <2>1, <2>2 DEF Put, Settled, Answered
  <2>6. (pending # None => \A x \in Posts : Put(x) \/ turns[x].result = "declined" =>
           pending.from \notin turns[x].after)'
    BY <2>1, <2>3, <2>4
  <2>7. (\A q \in Posts : turns[q].from # None =>
           /\ turns[q].from # q /\ q \notin turns[turns[q].from].after
           /\ \A x \in turns[q].after :
                Put(x) \/ turns[x].result = "declined" => turns[q].from \notin turns[x].after)'
    BY <1>0, <2>4, <2>5 DEF LatestInv
  <2> QED BY <2>6, <2>7 DEF LatestInv
<1>5. CASE Expire \/ (\E u \in Users : Forget(u)) \/ UNCHANGED vars
  <2>1. Unmoved
    BY <1>5 DEF Expire, Forget, vars, Unmoved, Put, Settled, Answered, TypeInv, TypeOK, Proposal
  <2> QED BY <1>2, <2>1
<1> QED BY <1>1, <1>2, <1>3, <1>4, <1>5, UnseenUnmoved DEF Next

LEMMA ScreenInvariant == Spec => [](TypeInv /\ OfferInv /\ ScreenInv)
<1>1. Init => ScreenInv
  <2> SUFFICES ASSUME Init PROVE ScreenInv
    OBVIOUS
  <2>1. /\ \A q \in Posts : turns[q] = Unsent
        /\ pending = None /\ asked = None
    BY DEF Init
  <2>2. /\ Unsent.stage = "unsent" /\ Unsent.after = {} /\ Unsent.saw = None /\ Unsent.from = None
        /\ ~Unsent.delivered /\ Unsent.result = "none"
    BY DEF Unsent
  <2> QED BY <2>1, <2>2 DEF ScreenInv, RecordInv, Recorded, AskedInv, LatestInv, Asker, Over
<1>2. TypeInv /\ OfferInv /\ ScreenInv /\ [Next]_vars => ScreenInv'
  BY RecordStep, AskedStep, LatestStep DEF ScreenInv
<1> QED BY <1>1, <1>2, OfferInvariant, PTL DEF Spec

\* What a yes runs is what the thread was last asked when it was written, unless
\* turns ran side by side or the request never reached the thread: had another
\* request been seen after the one granted was put, it would have replaced it.
THEOREM YesMeansTheLast == Spec => []MisreadOnlyInOverlap
<1>1. TypeInv /\ OfferInv /\ ScreenInv => MisreadOnlyInOverlap
  <2> SUFFICES ASSUME TypeInv, OfferInv, ScreenInv, NEW p \in Posts, Granted(p),
                      turns[p].from # turns[p].saw, turns[turns[p].from].delivered,
                      ~Overlap(turns[p].from, p)
               PROVE  /\ turns[p].saw # None
                      /\ Overlap(turns[p].saw, p) \/ Overlap(turns[p].saw, turns[p].from)
    BY DEF MisreadOnlyInOverlap
  <2>1. PICK f \in Posts : f = turns[p].from
    BY DEF TypeInv, TypeOK, TurnOK, Turn, Granted
  <2>2. PICK s \in Posts \cup {None} : s = turns[p].saw
    BY DEF TypeInv, TypeOK, Turn
  <2>3. f # p /\ f \in turns[p].after
    BY <2>1, ChatConstants DEF ScreenInv, LatestInv, Overlap
  <2>4. Asker(f)
    BY <2>1, ChatConstants DEF OfferInv, Granted, Asker
  <2>5. s # None /\ s \notin turns[f].after
    BY <2>2, <2>3, <2>4 DEF ScreenInv, AskedInv
  <2>6. s # p /\ s # f /\ Asker(s) /\ p \notin turns[s].after
    BY <2>1, <2>2, <2>5 DEF ScreenInv, RecordInv
  <2>7. ASSUME ~Overlap(s, p), ~Overlap(s, f) PROVE FALSE
    <3>1. f \in turns[s].after /\ s \in turns[p].after
      BY <2>2, <2>5, <2>6, <2>7 DEF Overlap
    <3>2. Put(s)
      BY <2>2, <2>5, <2>6, <3>1 DEF ScreenInv, RecordInv, Recorded, Asker, Put, Settled, Answered, Over
    <3> QED BY <2>1, <3>1, <3>2, ChatConstants DEF ScreenInv, LatestInv
  <2> QED BY <2>1, <2>2, <2>5, <2>7
<1> QED BY <1>1, ScreenInvariant, PTL

\* Whoever writes after "OK, I won't run it" runs nothing of what that reply
\* declined: the taking removed it, and only a turn beside the reply can put it back.
THEOREM NoIsKept == Spec => []NoMeansNo
<1>1. TypeInv /\ OfferInv /\ ScreenInv => NoMeansNo
  <2> SUFFICES ASSUME TypeInv, OfferInv, ScreenInv, NEW p \in Posts, NEW q \in Posts,
                      turns[p].result = "declined", p \in turns[q].after, Granted(q),
                      turns[q].from = turns[p].saw
               PROVE  Overlap(turns[p].saw, p)
    BY DEF NoMeansNo
  <2>1. PICK s \in Posts : s = turns[p].saw /\ s = turns[q].from
    BY DEF TypeInv, TypeOK, TurnOK, Turn, Granted
  <2>2. s # p /\ p \notin turns[s].after
    BY <2>1, ChatConstants DEF ScreenInv, RecordInv
  <2>3. s \notin turns[p].after
    BY <2>1, ChatConstants DEF ScreenInv, LatestInv
  <2> QED BY <2>1, <2>2, <2>3 DEF Overlap
<1> QED BY <1>1, ScreenInvariant, PTL

-----------------------------------------------------------------------------
(* What is remembered *)

\* An exchange that is in a transcript stays as it was.
LEMMA LeftStays ==
  ASSUME Moves, NEW q \in Posts, Recorded(turns[q]), Answered(q)
  PROVE  /\ Answered(q)' /\ Left(q)' = Left(q)
         /\ turns'[q].user = turns[q].user
         /\ turns'[q].grant = turns[q].grant /\ turns'[q].from = turns[q].from
         /\ turns'[q].kind = turns[q].kind
BY DEF Answered, Moves, Left, Recorded, Unsent

LEMMA CameStays ==
  ASSUME TypeInv, OfferInv, Moves, \A q \in Posts : Recorded(turns[q]),
         NEW u, NEW p \in Posts, Answered(p),
         NEW exchanges \in SUBSET Posts, \A q \in exchanges : Answered(q),
         NEW more \in SUBSET Posts, exchanges \subseteq more,
         Came(u, p, exchanges)
  PROVE  Came(u, p, more)'
<1>0. \A q \in Posts : Answered(q) => turns[q].stage # "unsent"
  BY DEF Recorded, Answered, Unsent
<1>1. CASE turns[p].user = u
  BY <1>0, <1>1 DEF Came, Moves
<1>2. ASSUME NEW q \in exchanges, turns[q].user = u, Granted(q), p \in Left(turns[q].from),
             p \in Left(q)
      PROVE  Came(u, p, more)'
  <2>1. turns[q].from \in Posts /\ Answered(turns[q].from)
    BY <1>2 DEF TypeInv, TypeOK, TurnOK, Turn, Granted, OfferInv, OfferOf, Answered
  <2>2. PICK f \in Posts : f = turns[q].from /\ Answered(f)
    BY <2>1
  <2>3. turns'[q].user = u /\ turns'[q].from = f /\ Granted(q)'
    BY <1>0, <1>2, <2>2, LeftStays DEF Granted, Moves
  <2>4. p \in Left(f)'
    BY <1>2, <2>2, LeftStays
  <2>5. p \in Left(q)'
    BY <1>2, LeftStays
  <2> QED BY <2>3, <2>4, <2>5 DEF Came, Left
<1> QED BY <1>1, <1>2 DEF Came

LEMMA KeptStays ==
  ASSUME TypeInv, OfferInv, Moves, \A q \in Posts : Recorded(turns[q]),
         NEW u, NEW exchanges \in SUBSET Posts, Kept(u, exchanges)
  PROVE  Kept(u, exchanges)'
<1> SUFFICES ASSUME NEW p \in exchanges PROVE Answered(p)' /\ Came(u, p, exchanges)'
  BY DEF Kept
<1>1. Answered(p) /\ Came(u, p, exchanges) /\ \A q \in exchanges : Answered(q)
  BY DEF Kept
<1> QED BY <1>1, LeftStays, CameStays

LEMMA RecallsStays ==
  ASSUME TypeInv, OfferInv, Moves, \A q \in Posts : Recorded(turns[q]),
         NEW r \in Posts, Recalls(r),
         turns'[r].history = turns[r].history, turns'[r].user = turns[r].user,
         Granted(r) => turns'[r].grant = turns[r].grant /\ turns'[r].from = turns[r].from
  PROVE  Recalls(r)'
<1> SUFFICES ASSUME NEW p \in turns[r].history
             PROVE  (/\ Answered(p)
                     /\ \/ Came(turns[r].user, p, turns[r].history)
                        \/ Granted(r) /\ p \in Left(turns[r].from))'
  BY DEF Recalls
<1>1. PICK h \in SUBSET Posts : h = turns[r].history
  BY DEF TypeInv, TypeOK, Turn
<1>2. p \in Posts /\ Answered(p) /\ \A q \in h : Answered(q)
  BY <1>1 DEF Recalls
<1>3. Answered(p)'
  BY <1>2, LeftStays
<1>4. CASE Came(turns[r].user, p, h)
  <2>1. PICK u : u = turns[r].user
    OBVIOUS
  <2>2. Came(u, p, h)'
    BY <1>1, <1>2, <1>4, <2>1, CameStays
  <2> QED BY <1>1, <1>3, <2>1, <2>2 DEF Came, Granted, Left
<1>5. CASE Granted(r) /\ p \in Left(turns[r].from)
  <2>1. PICK f \in Posts : f = turns[r].from /\ Answered(f)
    BY <1>5 DEF TypeInv, TypeOK, TurnOK, Turn, Granted, OfferInv, OfferOf, Answered
  <2>2. p \in Left(f)'
    BY <1>5, <2>1, LeftStays
  <2>3. Granted(r)' /\ turns'[r].from = f
    BY <1>5, <2>1 DEF Granted
  <2> QED BY <1>3, <2>2, <2>3 DEF Left
<1> QED BY <1>1, <1>4, <1>5 DEF Recalls

\* A turn that did not move keeps its transcript.
LEMMA OthersRecall ==
  ASSUME TypeInv, OfferInv, MemoryInv, Moves, \A q \in Posts : Recorded(turns[q]),
         NEW r \in Posts, turns'[r] = turns[r]
  PROVE  Recalls(r)'
BY RecallsStays DEF MemoryInv

LEMMA PendingStays ==
  ASSUME TypeInv, OfferInv, MemoryInv, Moves, \A q \in Posts : Recorded(turns[q]),
         pending # None => pending' = None \/ (/\ pending'.from = pending.from
                                               /\ pending'.history = pending.history),
         pending = None => pending' = None
  PROVE  (pending # None => pending.history = Left(pending.from))'
<1> SUFFICES ASSUME pending' # None
             PROVE  (pending.history = Left(pending.from))'
  OBVIOUS
<1>1. PICK f \in Posts : pending # None /\ f = pending.from /\ Answered(f)
  BY DEF TypeInv, TypeOK, Proposal, OfferInv, OfferOf, Answered
<1>2. Left(f)' = Left(f)
  BY <1>1, LeftStays
<1> QED BY <1>1, <1>2 DEF MemoryInv, Left

LEMMA MemoryStep ==
  ASSUME TypeInv, OfferInv, RecordInv, MemoryInv, [Next]_vars
  PROVE  MemoryInv'
<1>0. /\ Moves /\ \A q \in Posts : Recorded(turns[q])
      /\ turns \in [Posts -> Turn] /\ conv \in [Users -> SUBSET Posts]
      /\ pending \in Proposal \cup {None}
  BY StepMoves DEF RecordInv, TypeInv, TypeOK
<1>1. ASSUME conv' = conv
      PROVE  \A u \in Users : Kept(u, conv[u])'
  <2> SUFFICES ASSUME NEW u \in Users PROVE Kept(u, conv[u])'
    OBVIOUS
  <2>1. PICK c \in SUBSET Posts : c = conv[u]
    BY <1>0
  <2>2. Kept(u, c)'
    BY <1>0, <2>1, KeptStays DEF MemoryInv
  <2> QED BY <1>1, <2>1, <2>2 DEF Kept, Came, Left, Answered, Granted
<1>2. ASSUME NEW p \in Posts, Arrive(p) PROVE MemoryInv'
  <2>1. turns'[p].history = {} /\ conv' = conv /\ pending' = pending
    BY <1>2, ArriveMoves
  <2>2. Recalls(p)'
    BY <2>1 DEF Recalls
  <2>3. \A r \in Posts \ {p} : Recalls(r)'
    BY <1>0, <1>2, Others, OthersRecall
  <2> QED BY <1>0, <1>1, <2>1, <2>2, <2>3, PendingStays DEF MemoryInv
<1>3. ASSUME NEW p \in Posts, Refuse(p) \/ Look(p) \/ \E ok \in BOOLEAN : Reply(p, ok)
      PROVE  MemoryInv'
  <2>1. /\ turns'[p].history = turns[p].history /\ turns'[p].user = turns[p].user
        /\ turns'[p].grant = turns[p].grant /\ turns'[p].from = turns[p].from
        /\ conv' = conv /\ pending' = pending
    <3>1. CASE Refuse(p)
      BY <1>0, <3>1 DEF Refuse, Turn
    <3>2. CASE Look(p)
      BY <1>0, <3>2 DEF Look, Turn
    <3>3. ASSUME NEW ok \in BOOLEAN, Reply(p, ok) PROVE <2>1!:
      <4>1. PICK stage : turns'[p] = [turns[p] EXCEPT !.delivered = ok, !.stage = stage]
        BY <1>0, <3>3 DEF Reply
      <4> QED BY <1>0, <3>3, <4>1 DEF Reply, Turn
    <3> QED BY <1>3, <3>1, <3>2, <3>3
  <2>2. Recalls(p)'
    BY <1>0, <2>1, RecallsStays DEF MemoryInv
  <2>3. \A r \in Posts \ {p} : Recalls(r)'
    BY <1>0, <1>3, Others, OthersRecall DEF Handle
  <2> QED BY <1>0, <1>1, <2>1, <2>2, <2>3, PendingStays DEF MemoryInv
<1>4. ASSUME NEW p \in Posts, Open(p) PROVE MemoryInv'
  <2>1. turns[p].stage = "received" /\ conv' = conv /\ pending' = pending
    BY <1>4 DEF Open
  <2>2. PICK u \in Users : u = turns[p].user
    BY <1>0, <2>1 DEF TypeInv, TurnOK
  <2>3. PICK h \in SUBSET Posts : h = conv[u]
    BY <1>0
  <2>4. turns'[p].history = h /\ turns'[p].user = u
    <3>1. PICK stage : turns'[p] = [turns[p] EXCEPT !.stage = stage, !.history = h]
      BY <1>0, <1>4, <2>2, <2>3 DEF Open, ConvKey
    <3> QED BY <1>0, <2>2, <3>1 DEF Turn
  <2>5. Kept(u, h)'
    BY <1>0, <2>3, KeptStays DEF MemoryInv
  <2>6. Recalls(p)'
    BY <2>4, <2>5 DEF Recalls, Kept, Came, Granted, Left, Answered
  <2>7. \A r \in Posts \ {p} : Recalls(r)'
    BY <1>0, <1>4, Others, OthersRecall DEF Handle
  <2> QED BY <1>0, <1>1, <2>1, <2>6, <2>7, PendingStays DEF MemoryInv
<1>5. ASSUME NEW p \in Posts, Take(p) PROVE MemoryInv'
  <2>0. turns[p].stage = "matched" /\ turns[p].grant = {} /\ turns[p] \in Turn
    BY <1>0, <1>5 DEF Take, TypeInv, TurnOK
  <2>1. conv' = conv /\ pending' = None
    BY <1>5 DEF Take
  <2>2. Recalls(p)'
    <3>1. CASE turns[p].kind = "no"
      <4>1. turns'[p].history = {}
        BY <1>0, <1>5, <2>0, <3>1 DEF Take, Decline, Turn
      <4> QED BY <4>1 DEF Recalls
    <3>2. CASE turns[p].kind # "no" /\ turns[p].history # {}
      <4>1. turns'[p].history = turns[p].history /\ turns'[p].user = turns[p].user
        BY <1>0, <1>5, <2>0, <3>2 DEF Take, Approve, Turn
      <4> QED BY <1>0, <2>0, <4>1, RecallsStays DEF MemoryInv, Granted
    <3>3. CASE turns[p].kind # "no" /\ turns[p].history = {}
      <4>1. /\ turns'[p].history = Taken.history /\ turns'[p].from = Taken.from
            /\ turns'[p].grant = Taken.uses
        BY <1>0, <1>5, <2>0, <3>3 DEF Take, Approve, Turn
      <4>2. CASE ~Live
        BY <4>1, <4>2 DEF Taken, Recalls
      <4>3. CASE Live
        <5>1. PICK f \in Posts : f = pending.from /\ Answered(f)
          BY <1>0, <4>3 DEF Live, Proposal, OfferInv, OfferOf, Answered
        <5>2. pending # None /\ Taken.history = Left(f) /\ Taken.from = f /\ Taken.uses # {}
          BY <1>0, <4>3, <5>1 DEF Live, Taken, MemoryInv, Proposal
        <5>3. \A q \in Left(f) : q \in Posts /\ Answered(q)
          BY <1>0, <5>1 DEF Left, MemoryInv, Recalls, Turn
        <5>4. Left(f)' = Left(f) /\ \A q \in Left(f) : Answered(q)'
          BY <1>0, <5>1, <5>3, LeftStays
        <5>5. Granted(p)' /\ turns'[p].from = f /\ turns'[p].history = Left(f)
          BY <4>1, <5>2 DEF Granted
        <5> QED BY <5>4, <5>5 DEF Recalls, Left
      <4> QED BY <4>2, <4>3
    <3> QED BY <3>1, <3>2, <3>3
  <2>3. \A r \in Posts \ {p} : Recalls(r)'
    BY <1>0, <1>5, Others, OthersRecall DEF Handle
  <2> QED BY <1>1, <2>1, <2>2, <2>3 DEF MemoryInv
<1>6. ASSUME NEW p \in Posts, Fail(p) PROVE MemoryInv'
  <2>1. turns'[p].history = {} /\ conv' = conv /\ pending' = pending
    BY <1>0, <1>6 DEF Fail, Turn
  <2>2. Recalls(p)'
    BY <2>1 DEF Recalls
  <2>3. \A r \in Posts \ {p} : Recalls(r)'
    BY <1>0, <1>6, Others, OthersRecall DEF Handle
  <2> QED BY <1>0, <1>1, <2>1, <2>2, <2>3, PendingStays DEF MemoryInv
<1>7. ASSUME NEW p \in Posts, NEW asks \in Requests, Answer(p, asks) PROVE MemoryInv'
  <2>0. PICK u : u = turns[p].user
    OBVIOUS
  <2>1. PICK h \in SUBSET Posts, kept \in SUBSET Posts :
          /\ h = turns[p].history
          /\ p \in kept /\ kept \subseteq h \cup {p}
          /\ \A q \in h \ kept : Left(q) \cap kept = {}
          /\ turns'[p].history = kept /\ turns'[p].result = "answered"
          /\ conv' \in {conv, [conv EXCEPT ![u] = kept]}
    <3>1. PICK h \in SUBSET Posts : h = turns[p].history
      BY <1>0 DEF Turn
    <3>0. PICK stage : stage = AfterAnswer(p, asks)
      OBVIOUS
    <3>2. PICK kept \in Trimmed(p) :
            /\ turns' = [turns EXCEPT ![p] =
                 [turns[p] EXCEPT !.stage = stage, !.asks = asks, !.result = "answered",
                                  !.history = kept]]
            /\ conv' = IF turns[p].kind = "alert" THEN conv
                       ELSE [conv EXCEPT ![turns[p].user] = kept]
      BY <1>7, <3>0 DEF Answer, ConvKey
    <3>3. /\ kept \in SUBSET Posts /\ p \in kept /\ kept \subseteq h \cup {p}
          /\ \A q \in h \ kept : Left(q) \cap kept = {}
      BY <3>1 DEF Trimmed, Transcript, Left
    <3>4. turns'[p].history = kept /\ turns'[p].result = "answered"
      BY <1>0, <3>2 DEF Turn
    <3> QED BY <2>0, <3>1, <3>2, <3>3, <3>4
  <2>2. /\ turns'[p].user = u /\ turns'[p].grant = turns[p].grant
        /\ turns'[p].from = turns[p].from /\ pending' = pending
    BY <1>0, <1>7, <2>0 DEF Answer, Turn
\* What the cut leaves has an approval that it came with in front of it: older
\* exchanges go first.
  <2>3. ASSUME NEW q \in kept \ {p}
        PROVE  Answered(q)' /\ (Came(u, q, kept)' \/ (Granted(p) /\ q \in Left(turns[p].from))')
    <3>1. q \in h /\ Answered(q) /\ \A r \in h : Answered(r)
      BY <1>0, <2>1 DEF MemoryInv, Recalls
    <3>2. Answered(q)'
      BY <1>0, <3>1, LeftStays
    <3>3. CASE Came(u, q, h)
      <4>1. Came(u, q, h \cap kept)
        BY <2>1, <3>3 DEF Came
      <4>2. PICK old \in SUBSET Posts : old = h \cap kept
        BY <2>1
      <4>3. Came(u, q, kept)'
        BY <1>0, <2>1, <3>1, <4>1, <4>2, CameStays
      <4> QED BY <3>2, <4>3
    <3>4. CASE Granted(p) /\ q \in Left(turns[p].from)
      <4>1. PICK f \in Posts : f = turns[p].from /\ Answered(f)
        BY <3>4 DEF TypeInv, TypeOK, TurnOK, Turn, Granted, OfferInv, OfferOf, Answered
      <4>2. q \in Left(f)'
        BY <1>0, <3>4, <4>1, LeftStays
      <4>3. Granted(p)' /\ turns'[p].from = f
        BY <2>2, <3>4, <4>1 DEF Granted
      <4> QED BY <3>2, <4>2, <4>3 DEF Left
    <3> QED BY <2>0, <2>1, <3>1, <3>3, <3>4 DEF MemoryInv, Recalls
  <2>4. Answered(p)' /\ Came(u, p, kept)'
    BY <2>1, <2>2 DEF Answered, Came
  <2>5. Recalls(p)'
    <3>1. ASSUME NEW q \in kept
          PROVE  Answered(q)' /\ (Came(u, q, kept)' \/ (Granted(p) /\ q \in Left(turns[p].from))')
      BY <2>3, <2>4
    <3> QED BY <2>1, <2>2, <3>1 DEF Recalls, Came, Granted, Answered, Left
  <2>6. \A r \in Posts \ {p} : Recalls(r)'
    BY <1>0, <1>7, Others, OthersRecall DEF Handle
  <2>7. ASSUME NEW v \in Users PROVE Kept(v, conv[v])'
    <3>1. CASE conv'[v] = conv[v]
      <4>1. PICK c \in SUBSET Posts : c = conv[v]
        BY <1>0
      <4>2. Kept(v, c)'
        BY <1>0, <4>1, KeptStays DEF MemoryInv
      <4> QED BY <3>1, <4>1, <4>2 DEF Kept, Came, Left, Answered, Granted
    <3>2. CASE conv'[v] # conv[v]
      <4>1. v = u /\ conv'[v] = kept
        BY <1>0, <2>1, <3>2
      <4>2. ASSUME NEW q \in kept PROVE Answered(q)' /\ Came(u, q, kept)'
        BY <2>1, <2>2, <2>3, <2>4 DEF Came, Left
      <4> QED BY <4>1, <4>2 DEF Kept, Came, Answered, Granted, Left
    <3> QED BY <3>1, <3>2
  <2> QED BY <1>0, <2>2, <2>5, <2>6, <2>7, PendingStays DEF MemoryInv
<1>8. ASSUME NEW p \in Posts, Offer(p) PROVE MemoryInv'
  <2>1. /\ turns'[p].history = turns[p].history /\ turns'[p].user = turns[p].user
        /\ turns'[p].grant = turns[p].grant /\ turns'[p].from = turns[p].from
        /\ conv' = conv
    BY <1>0, <1>8 DEF Offer, Turn
  <2>2. Recalls(p)'
    BY <1>0, <2>1, RecallsStays DEF MemoryInv
  <2>3. \A r \in Posts \ {p} : Recalls(r)'
    BY <1>0, <1>8, Others, OthersRecall DEF Handle
  <2>4. pending'.from = p /\ pending'.history = turns[p].history
    BY <1>8 DEF Offer, Offered
  <2> QED BY <1>1, <2>1, <2>2, <2>3, <2>4 DEF MemoryInv, Left
<1>9. CASE Expire
  <2>1. turns' = turns /\ conv' = conv /\ pending # None
        /\ pending'.from = pending.from /\ pending'.history = pending.history
    BY <1>0, <1>9 DEF Expire, Proposal
  <2>2. \A r \in Posts : Recalls(r)'
    BY <1>0, <2>1, OthersRecall
  <2> QED BY <1>0, <1>1, <2>1, <2>2, PendingStays DEF MemoryInv
<1>10. ASSUME NEW v \in Users, Forget(v) PROVE MemoryInv'
  <2>1. turns' = turns /\ pending' = pending /\ conv' = [conv EXCEPT ![v] = {}]
    BY <1>10 DEF Forget
  <2>2. \A r \in Posts : Recalls(r)'
    BY <1>0, <2>1, OthersRecall
  <2>3. \A u \in Users : Kept(u, conv[u])'
    BY <1>0, <2>1 DEF MemoryInv, Kept, Came, Answered, Granted, Left
  <2> QED BY <1>0, <2>1, <2>2, <2>3, PendingStays DEF MemoryInv
<1>11. CASE UNCHANGED vars
  BY <1>11 DEF vars, MemoryInv, Kept, Recalls, Came, Answered, Granted, Left
<1> QED
  BY <1>2, <1>3, <1>4, <1>5, <1>6, <1>7, <1>8, <1>9, <1>10, <1>11 DEF Next, Handle

LEMMA MemoryInvariant == Spec => [](TypeInv /\ OfferInv /\ ScreenInv /\ MemoryInv)
<1>1. Init => MemoryInv
  BY DEF Init, MemoryInv, Kept, Recalls, Unsent
<1>2. TypeInv /\ OfferInv /\ ScreenInv /\ MemoryInv /\ [Next]_vars => MemoryInv'
  BY MemoryStep DEF ScreenInv
<1> QED BY <1>1, <1>2, ScreenInvariant, PTL DEF Spec

\* Another user's exchange enters a transcript only by an approval of the proposal
\* that came out of it.
THEOREM MemoryIsOnesOwn == Spec => []OwnMemory
<1>1. MemoryInv => OwnMemory
  BY DEF MemoryInv, Kept, Came, Left, OwnMemory
<1> QED BY <1>1, MemoryInvariant, PTL

\* Only the answer of a turn makes it answered.
LEMMA OnlyAnswer ==
  ASSUME TypeInv, RecordInv, [Next]_vars, NEW p \in Posts, ~Answered(p), Answered(p)'
  PROVE  \E asks \in Requests : Answer(p, asks)
<1>0. turns \in [Posts -> Turn] /\ turns[p] \in Turn /\ TurnOK(turns[p])
  BY DEF TypeInv, TypeOK
<1>1. ASSUME NEW q \in Posts, Arrive(q) \/ Handle(q) PROVE q = p
  BY <1>1, Others DEF Answered
<1>2. ~Arrive(p)
  BY ArriveMoves DEF Answered
<1>3. ~(Expire \/ (\E u \in Users : Forget(u)) \/ UNCHANGED vars)
  BY DEF Expire, Forget, vars, Answered
<1>4. ~Refuse(p) /\ ~Take(p) /\ ~Fail(p)
  <2>1. ASSUME Take(p) PROVE FALSE
    <3>1. turns'[p] = Decline(turns[p]) \/ turns'[p] = Approve(turns[p])
      BY <1>0, <2>1 DEF Take
    <3>2. Decline(turns[p]).result = "declined"
      BY <1>0 DEF Decline, Turn
    <3>3. Approve(turns[p]).result = turns[p].result
      BY <1>0 DEF Approve, Turn
    <3> QED BY <3>1, <3>2, <3>3 DEF Answered
  <2>2. ~Refuse(p)
    BY <1>0 DEF Refuse, Turn, Answered
  <2>3. ~Fail(p)
    BY <1>0 DEF Fail, Turn, Answered
  <2> QED BY <2>1, <2>2, <2>3
<1>5. ~Open(p)
  <2> SUFFICES ASSUME Open(p) PROVE FALSE
    OBVIOUS
  <2>1. PICK h, stage : turns'[p] = [turns[p] EXCEPT !.stage = stage, !.history = h]
    BY <1>0 DEF Open
  <2> QED BY <1>0, <2>1 DEF Turn, Answered
<1>6. ~Look(p) /\ ~Offer(p)
  BY <1>0 DEF Look, Offer, Turn, Answered
<1>7. ASSUME NEW ok \in BOOLEAN, Reply(p, ok) PROVE FALSE
  BY <1>0, <1>7 DEF Reply, TurnOK, Answered
<1> QED BY <1>1, <1>2, <1>3, <1>4, <1>5, <1>6, <1>7 DEF Next, Handle

\* While a turn has no result, the transcript it goes on with is read once and
\* loses nothing.
LEMMA HistoryGrows ==
  ASSUME TypeInv, RecordInv, NEW p \in Posts, Handle(p), turns'[p].result = "none"
  PROVE  /\ turns[p].result = "none"
         /\ turns[p].stage = "received" => turns'[p].history = conv[turns[p].user]
         /\ turns[p].stage # "received" => turns[p].history \subseteq turns'[p].history
<1>0. turns \in [Posts -> Turn] /\ turns[p] \in Turn /\ TurnOK(turns[p]) /\ Recorded(turns[p])
  BY DEF TypeInv, TypeOK, RecordInv
<1>1. ~Refuse(p) /\ ~Fail(p)
  BY <1>0 DEF Refuse, Fail, Turn
<1>2. CASE Open(p)
  <2>1. PICK h, stage : /\ turns'[p] = [turns[p] EXCEPT !.stage = stage, !.history = h]
                        /\ h = conv[turns[p].user] /\ turns[p].stage = "received"
    BY <1>0, <1>2 DEF Open, ConvKey
  <2> QED BY <1>0, <2>1 DEF Turn, Recorded
<1>3. CASE Look(p)
  BY <1>0, <1>3 DEF Look, Turn, Recorded
<1>4. CASE Take(p)
  BY <1>0, <1>4 DEF Take, Approve, Decline, Turn, Recorded
<1>5. CASE Offer(p)
  BY <1>0, <1>5 DEF Offer, Turn, TurnOK
<1>6. ASSUME NEW asks \in Requests, Answer(p, asks) PROVE FALSE
  BY <1>0, <1>6 DEF Answer, Turn
<1>7. ASSUME NEW ok \in BOOLEAN, Reply(p, ok) PROVE FALSE
  <2>1. PICK stage : turns'[p] = [turns[p] EXCEPT !.delivered = ok, !.stage = stage]
    BY <1>0, <1>7 DEF Reply
  <2> QED BY <1>0, <1>7, <2>1 DEF Reply, Turn, TurnOK
<1> QED BY <1>1, <1>2, <1>3, <1>4, <1>5, <1>6, <1>7 DEF Handle

\* A person's exchange has an author, who does not change.
LEMMA Author ==
  ASSUME TypeInv, RecordInv, NEW p \in Posts, Answered(p), turns[p].kind # "alert"
  PROVE  /\ turns[p].user \in Users /\ turns[p].stage # "unsent"
         /\ \A r \in Posts : turns[r].user = turns[p].user => turns[r].stage # "unsent"
BY ChatConstants DEF RecordInv, Recorded, Unsent, Answered

LEMMA BesideStays ==
  ASSUME TypeInv, RecordInv, [Next]_vars, NEW p \in Posts, Answered(p), turns[p].kind # "alert",
         Beside(p)
  PROVE  Beside(p)'
<1>1. PICK r \in Posts : turns[r].user = turns[p].user /\ Overlap(p, r)
  BY DEF Beside
<1>2. turns[p].stage # "unsent" /\ turns[r].stage # "unsent"
  BY <1>1, Author
<1> QED BY <1>1, <1>2, StepMoves DEF Moves, Overlap, Beside, RecordInv

LEMMA LostForGood ==
  ASSUME [Next]_vars
  PROVE  forgot \subseteq forgot' /\ cut \subseteq cut'
BY DEF Next, Arrive, Send, Investigate, Begin, Handle, Refuse, Open, Look, Take, Fail, Answer,
       Offer, Reply, Expire, Forget, vars

LEMMA KnownStep ==
  ASSUME TypeInv, RecordInv, KnownInv, FollowUpKnows, [Next]_vars
  PROVE  KnownInv'
<1> SUFFICES ASSUME NEW p \in Posts, Answered(p)', turns'[p].kind # "alert"
             PROVE  (p \in conv[turns[p].user] \cup forgot \cup cut \/ Beside(p))'
  BY DEF KnownInv
<1>0. Moves /\ turns \in [Posts -> Turn] /\ conv \in [Users -> SUBSET Posts]
  BY StepMoves DEF RecordInv, TypeInv, TypeOK
<1>1. CASE ~Answered(p)
  <2>1. PICK asks \in Requests : Answer(p, asks)
    BY <1>1, OnlyAnswer
  <2>2. turns'[p].user = turns[p].user /\ turns'[p].kind = turns[p].kind
    BY <1>0, <2>1 DEF Answer, Turn
  <2>3. turns[p].user \in Users
    BY <2>1, <2>2 DEF Answer, RecordInv, Recorded
  <2>4. p \in conv'[turns[p].user]
    BY <1>0, <2>1, <2>2, <2>3 DEF Answer, ConvKey, Trimmed
  <2> QED BY <2>2, <2>4
<1>2. CASE Answered(p)
  <2>1. turns[p].kind # "alert" /\ turns'[p].user = turns[p].user
    BY <1>0, <1>2, Author DEF Moves, Answered
  <2>2. PICK u \in Users : u = turns[p].user
    BY <1>2, <2>1, Author
  <2>3. forgot \subseteq forgot' /\ cut \subseteq cut'
    BY LostForGood
  <2>4. CASE p \in forgot \cup cut
    BY <2>3, <2>4
  <2>5. CASE Beside(p)
    BY <1>2, <2>1, <2>5, BesideStays
  <2>6. CASE p \in conv[u]
    <3>1. CASE conv' = conv
      BY <2>1, <2>2, <2>6, <3>1
    <3>2. ASSUME NEW v \in Users, Forget(v) PROVE p \in conv'[u] \/ p \in forgot'
      BY <1>0, <2>6, <3>2 DEF Forget
    <3>3. ASSUME NEW r \in Posts, NEW asks \in Requests, Answer(r, asks),
                 p \notin conv'[u], p \notin forgot \cup cut'
          PROVE  Beside(p)
      <4>1. turns[r].user = u /\ p # r /\ p \notin turns[r].history
        <5>1. PICK kept \in Trimmed(r) :
                /\ conv' = IF turns[r].kind = "alert" THEN conv
                           ELSE [conv EXCEPT ![turns[r].user] = kept]
                /\ cut' = cut \cup {q \in Transcript(r) \ kept : turns[q].user = turns[r].user}
          BY <3>3 DEF Answer, ConvKey
        <5>2. turns[r].user = u /\ conv'[u] = kept
          BY <1>0, <2>6, <3>3, <5>1
        <5>3. p \notin kept /\ r \in kept
          BY <3>3, <5>2 DEF Trimmed
        <5> QED BY <2>2, <3>3, <5>1, <5>2, <5>3 DEF Transcript
      <4>2. turns[r].stage = "asking" /\ turns[r].result = "none"
        BY <3>3 DEF Answer, RecordInv, Recorded
      <4>3. r \notin turns[p].after
        BY <4>2 DEF RecordInv, Over
      <4>4. CASE p \in turns[r].after
        BY <1>2, <2>1, <2>2, <2>3, <3>3, <4>1, <4>2, <4>4 DEF FollowUpKnows, Answered, Beside
      <4>5. CASE p \notin turns[r].after
        BY <2>2, <4>1, <4>3, <4>5 DEF Overlap, Beside
      <4> QED BY <4>4, <4>5
    <3>4. \/ conv' = conv \/ \E v \in Users : Forget(v)
          \/ \E r \in Posts, asks \in Requests : Answer(r, asks)
      BY DEF Next, Arrive, Send, Investigate, Begin, Handle, Refuse, Open, Look, Take, Fail,
             Offer, Reply, Expire, vars
    <3>5. CASE \E r \in Posts, asks \in Requests : Answer(r, asks)
      <4>1. p \in conv'[u] \/ p \in forgot \cup cut' \/ Beside(p)
        BY <3>3, <3>5
      <4> QED BY <1>2, <2>1, <2>2, <2>3, <4>1, BesideStays
    <3> QED BY <2>1, <2>2, <3>1, <3>2, <3>4, <3>5
  <2> QED BY <1>2, <2>1, <2>2, <2>4, <2>5, <2>6 DEF KnownInv
<1> QED BY <1>1, <1>2

LEMMA FollowStep ==
  ASSUME TypeInv, RecordInv, KnownInv, FollowUpKnows, [Next]_vars
  PROVE  FollowUpKnows'
<1> SUFFICES ASSUME NEW p \in Posts, NEW q \in Posts,
                    p \in turns'[q].after, turns'[p].kind # "alert", Answered(p)',
                    turns'[q].stage # "received", turns'[q].result = "none",
                    turns'[p].user = turns'[q].user
             PROVE  p \in turns'[q].history \cup forgot' \cup cut' \/ Beside(p)'
  BY DEF FollowUpKnows, Answered, Beside
<1>0. /\ Moves /\ RecordInv' /\ \A r \in Posts : Recorded(turns'[r])
      /\ turns \in [Posts -> Turn]
  BY StepMoves, RecordStep DEF RecordInv, TypeInv, TypeOK
<1>1. forgot \subseteq forgot' /\ cut \subseteq cut'
  BY LostForGood
<1>2. turns'[p].user \in Users
  BY <1>0 DEF Recorded, Answered, Unsent
<1>3. CASE turns[q].stage = "unsent"
  <2>1. ASSUME NEW r \in Posts, Arrive(r) \/ Handle(r), turns'[q] # turns[q] PROVE Arrive(q)
    <3>1. r = q
      BY <2>1, Others
    <3>2. ~Handle(q)
      BY <1>3, HandleMoves DEF RecordInv
    <3> QED BY <2>1, <3>1, <3>2
  <2>2. turns'[q] = turns[q] \/ Arrive(q)
    BY <2>1 DEF Next, Expire, Forget, vars
  <2>3. CASE Arrive(q)
    BY <1>2, <2>3, ArriveMoves
  <2>4. CASE turns'[q] = turns[q]
    BY <1>3, <2>4 DEF RecordInv, Recorded, Unsent
  <2> QED BY <2>2, <2>3, <2>4
<1>4. CASE turns[q].stage # "unsent"
  <2>1. turns'[q].after = turns[q].after /\ turns'[q].user = turns[q].user
    BY <1>0, <1>4 DEF Moves
  <2>2. turns'[p] = turns[p] /\ Answered(p)
    BY <1>0, <2>1 DEF Moves, RecordInv, Over, Answered
  <2>3. turns[p].user = turns[q].user /\ turns[p].kind # "alert"
    BY <2>1, <2>2
  <2>4. Beside(p) => Beside(p)'
    BY <2>2, <2>3, BesideStays
  <2>5. CASE turns'[q] = turns[q]
    BY <1>1, <2>2, <2>3, <2>4, <2>5 DEF FollowUpKnows, Answered, Beside
  <2>6. CASE Handle(q)
    <3>1. /\ turns[q].result = "none"
          /\ turns[q].stage = "received" => turns'[q].history = conv[turns[q].user]
          /\ turns[q].stage # "received" => turns[q].history \subseteq turns'[q].history
      BY <2>6, HistoryGrows
    <3>2. CASE turns[q].stage = "received"
      BY <1>1, <2>2, <2>3, <2>4, <3>1, <3>2 DEF KnownInv
    <3>3. CASE turns[q].stage # "received"
      BY <1>1, <2>1, <2>2, <2>3, <2>4, <3>1, <3>3 DEF FollowUpKnows, Answered, Beside
    <3> QED BY <3>2, <3>3
  <2>7. turns'[q] = turns[q] \/ Handle(q)
    <3>1. ~Arrive(q)
      BY <1>4, ArriveMoves
    <3>2. ASSUME NEW r \in Posts, Arrive(r) \/ Handle(r), r # q PROVE turns'[q] = turns[q]
      BY <3>2, Others
    <3> QED BY <3>1, <3>2 DEF Next, Expire, Forget, vars
  <2> QED BY <2>5, <2>6, <2>7
<1> QED BY <1>3, <1>4

\* A follow-up knows every exchange its author finished before, if only the end of
\* it, unless that expired, a later exchange pushed it out of the transcript, or
\* another turn of the same author ran beside it: a transcript is replaced only by
\* the end of one that grew out of it, or beside it.
THEOREM FollowUpsKnow == Spec => []FollowUpKnows
<1>1. Init => KnownInv /\ FollowUpKnows
  BY DEF Init, KnownInv, FollowUpKnows, Unsent, Answered
<1>2. /\ TypeInv /\ OfferInv /\ ScreenInv /\ KnownInv /\ FollowUpKnows /\ [Next]_vars
      => KnownInv' /\ FollowUpKnows'
  BY KnownStep, FollowStep DEF ScreenInv
<1> QED BY <1>1, <1>2, ScreenInvariant, PTL DEF Spec
=============================================================================
