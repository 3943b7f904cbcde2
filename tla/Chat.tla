-------------------------------- MODULE Chat --------------------------------
(***************************************************************************)
(* One thread of a conversation: Service.OnPost of internal/bot/service.go   *)
(* with the proposals of approval.go and the transcripts of conversation.go, *)
(* and the end of Service.Investigate in alerts.go, which leaves a proposal  *)
(* in the thread it posts to.                                                *)
(*                                                                           *)
(* Every post is handled by a goroutine of its own, and a turn of the agent  *)
(* takes minutes.  A handler takes the mutex of a store for one operation at *)
(* a time, so its steps are: Open (the transcript is read), Look (has), Take *)
(* (take), Answer (the agent returns and the transcript is written), Offer   *)
(* (put) and Reply.  A transcript is the set of posts whose exchange it holds,*)
(* the oldest of them perhaps only in part.                                  *)
(***************************************************************************)
EXTENDS FiniteSets

CONSTANTS
  Users,
  Posts,   \* posts of people and investigations of alerts (a bound of the model)
  Uses,    \* a tool that needs approval, on a cluster and a namespace
  Requests, \* what a turn may propose (a bound of the model)
  None

ASSUME ChatConstants ==
  None \notin Posts /\ None \notin Users /\ Requests \subseteq SUBSET Uses

VARIABLES
  turns,    \* the handler of each post
  conv,     \* convStore.m: each user's live transcript of the thread, {} for none
  pending,  \* pendingStore.m of the thread
  asked,    \* the last post whose answer asked the thread for an approval
  forgot,   \* history: what was in a transcript when it expired
  cut       \* history: what a later exchange of its author pushed out of a transcript

vars == <<turns, conv, pending, asked, forgot, cut>>
lost == <<forgot, cut>>

Stages == {"unsent", "received", "opened", "matched", "asking", "offering", "replying", "done"}
Kinds == {"question", "yes", "no", "alert"}
Results == {"none", "declined", "failed", "answered"}

\* history is the transcript the turn goes on with and, once it has answered, the
\* one it leaves; grant is what it may run, from the turn it took its grant from,
\* asks what it proposes.  saw and after are history: the last request in the
\* thread and the turns that were over when the post was written.
Turn == [user: Users \cup {None}, kind: Kinds, stage: Stages, result: Results,
         history: SUBSET Posts, grant: SUBSET Uses, from: Posts \cup {None},
         asks: SUBSET Uses, delivered: BOOLEAN,
         saw: Posts \cup {None}, after: SUBSET Posts]

Proposal == [uses: (SUBSET Uses) \ {{}}, from: Posts, history: SUBSET Posts, live: BOOLEAN]

Unsent == [user |-> None, kind |-> "question", stage |-> "unsent", result |-> "none",
           history |-> {}, grant |-> {}, from |-> None, asks |-> {}, delivered |-> FALSE,
           saw |-> None, after |-> {}]

TypeOK ==
  /\ turns \in [Posts -> Turn]
  /\ conv \in [Users -> SUBSET Posts]
  /\ pending \in Proposal \cup {None}
  /\ asked \in Posts \cup {None}
  /\ forgot \subseteq Posts /\ cut \subseteq Posts

Init ==
  /\ turns = [p \in Posts |-> Unsent]
  /\ conv = [u \in Users |-> {}]
  /\ pending = None /\ asked = None
  /\ forgot = {} /\ cut = {}

-----------------------------------------------------------------------------
(* A post arrives *)

Over == {p \in Posts : turns[p].stage = "done"}

Begin(p, u, kind, stage) ==
  /\ turns[p].stage = "unsent"
  /\ turns' = [turns EXCEPT ![p] = [Unsent EXCEPT !.user = u, !.kind = kind, !.stage = stage,
                                                  !.saw = asked, !.after = Over]]
  /\ UNCHANGED <<conv, pending, asked, lost>>

\* replyKind: a bare yes, a bare no, or neither.
Send(p, u, kind) == Begin(p, u, kind, "received")

\* A batch of alerts is investigated: no transcript is read, no reply is awaited.
Investigate(p) == Begin(p, None, "alert", "asking")

\* As ConvKey, with a transcript per thread.
ConvKeyOfThread(p) == CHOOSE u \in Users : TRUE

\* convKeyFor: the identity is part of the key.
ConvKey(p) == turns[p].user

\* The rate limit, a command, a failed or empty scope end the handler here.
Refuse(p) ==
  /\ turns[p].stage = "received"
  /\ turns' = [turns EXCEPT ![p] = [@ EXCEPT !.stage = "done", !.result = "failed"]]
  /\ UNCHANGED <<conv, pending, asked, lost>>

Open(p) ==
  /\ turns[p].stage = "received"
  /\ turns' = [turns EXCEPT ![p] =
       [@ EXCEPT !.stage = IF turns[p].kind = "question" THEN "asking" ELSE "opened",
                 !.history = conv[ConvKey(p)]]]
  /\ UNCHANGED <<conv, pending, asked, lost>>

-----------------------------------------------------------------------------
(* A reply and the proposal it meets *)

Live == pending # None /\ pending.live

\* pendingStore.has: without a live proposal the reply is a question.
Look(p) ==
  /\ turns[p].stage = "opened"
  /\ turns' = [turns EXCEPT ![p] =
       IF Live THEN [@ EXCEPT !.stage = "matched"]
       ELSE [@ EXCEPT !.stage = "asking", !.kind = "question"]]
  /\ UNCHANGED <<conv, pending, asked, lost>>

\* As Taken, leaving the expiry to has.
TakenStale == IF pending # None THEN pending ELSE [uses |-> {}, from |-> None, history |-> {}]

\* What take returns: nothing once another reply has taken it or it has expired.
\* OnPost does not look at its second result.
Taken == IF Live THEN pending
         ELSE [uses |-> {}, from |-> None, history |-> {}]

Approve(t) == [t EXCEPT !.stage = "asking", !.grant = Taken.uses, !.from = Taken.from,
                        !.history = IF t.history = {} THEN Taken.history ELSE t.history]

Decline(t) == [t EXCEPT !.stage = "done", !.result = "declined", !.from = Taken.from, !.history = {}]

\* As Take, forgetting to remove the proposal.
TakeAndKeep(p) ==
  /\ turns[p].stage = "matched"
  /\ turns' = [turns EXCEPT ![p] = IF @.kind = "no" THEN Decline(@) ELSE Approve(@)]
  /\ UNCHANGED <<conv, pending, asked, lost>>

\* As Take, when a decline leaves the proposal to expire.
TakeOnYes(p) ==
  /\ turns[p].stage = "matched"
  /\ turns' = [turns EXCEPT ![p] = IF @.kind = "no" THEN Decline(@) ELSE Approve(@)]
  /\ pending' = IF turns[p].kind = "no" THEN pending ELSE None
  /\ UNCHANGED <<conv, asked, lost>>

Take(p) ==
  /\ turns[p].stage = "matched"
  /\ turns' = [turns EXCEPT ![p] = IF @.kind = "no" THEN Decline(@) ELSE Approve(@)]
  /\ pending' = None
  /\ UNCHANGED <<conv, asked, lost>>

-----------------------------------------------------------------------------
(* The turn and its answer *)

\* brain.Answer fails, or nothing is left of the answer.
Fail(p) ==
  /\ turns[p].stage = "asking"
  /\ turns' = [turns EXCEPT ![p] =
       [@ EXCEPT !.stage = "done", !.result = "failed", !.history = {}]]
  /\ UNCHANGED <<conv, pending, asked, lost>>

\* As Transcript, starting over each time.
TranscriptOfTurn(p) == {p}

\* appendTranscript, before the cut.
Transcript(p) == turns[p].history \cup {p}

\* What its cut to the last maxTranscriptRunes may leave: the new exchange, which
\* may be as long as that, or it and the latest of the others.  An exchange was
\* there before another if the transcript the other left holds it.
Trimmed(p) ==
  {kept \in SUBSET Transcript(p) :
     p \in kept /\ \A q \in Transcript(p) \ kept : turns[q].history \cap kept = {}}

\* put ignores a turn that proposed nothing.
AfterAnswer(p, asks) ==
  IF turns[p].kind # "alert" /\ asks # {} THEN "offering" ELSE "replying"

\* The agent proposes what it was refused, so nothing it holds a grant for.  An
\* alert's investigation has no transcript but the one its proposal carries.
Answer(p, asks) ==
  /\ turns[p].stage = "asking" /\ asks \cap turns[p].grant = {}
  /\ \E kept \in Trimmed(p) :
       /\ turns' = [turns EXCEPT ![p] =
            [@ EXCEPT !.stage = AfterAnswer(p, asks), !.asks = asks, !.result = "answered",
                      !.history = kept]]
       /\ conv' = IF turns[p].kind = "alert" THEN conv ELSE [conv EXCEPT ![ConvKey(p)] = kept]
       /\ cut' = cut \cup {q \in Transcript(p) \ kept : turns[q].user = turns[p].user}
  /\ UNCHANGED <<pending, asked, forgot>>

\* As Offered, adding to the proposal that waits.
OfferedOnTop(p) ==
  [uses |-> turns[p].asks \cup IF pending = None THEN {} ELSE pending.uses,
   from |-> p, history |-> turns[p].history, live |-> TRUE]

\* As Offered, keeping a proposal that still waits.
OfferedFirst(p) ==
  IF Live THEN pending
  ELSE [uses |-> turns[p].asks, from |-> p, history |-> turns[p].history, live |-> TRUE]

\* pendingStore.put: the thread has one proposal, the last that was put.
Offered(p) == [uses |-> turns[p].asks, from |-> p, history |-> turns[p].history, live |-> TRUE]

\* A question's proposal is put before its answer is posted, an alert's after.
Offer(p) ==
  /\ turns[p].stage = "offering"
  /\ pending' = Offered(p)
  /\ turns' = [turns EXCEPT ![p] =
       [@ EXCEPT !.stage = IF turns[p].kind = "alert" THEN "done" ELSE "replying"]]
  /\ UNCHANGED <<conv, asked, lost>>

\* ok: the post reaches the thread.  An alert's proposal is dropped when it does not.
Reply(p, ok) ==
  /\ turns[p].stage = "replying"
  /\ turns' = [turns EXCEPT ![p] =
       [@ EXCEPT !.delivered = ok,
                 !.stage = IF turns[p].kind = "alert" /\ ok /\ turns[p].asks # {}
                           THEN "offering" ELSE "done"]]
  /\ asked' = IF ok /\ turns[p].asks # {} THEN p ELSE asked
  /\ UNCHANGED <<conv, pending, lost>>

-----------------------------------------------------------------------------
(* Time *)

\* pendingTTL passes.
Expire ==
  /\ pending # None /\ pending.live
  /\ pending' = [pending EXCEPT !.live = FALSE]
  /\ UNCHANGED <<turns, conv, asked, lost>>

\* convStore.ttl passes; get skips the transcript, the sweeper removes it.
Forget(u) ==
  /\ conv[u] # {}
  /\ forgot' = forgot \cup conv[u]
  /\ conv' = [conv EXCEPT ![u] = {}]
  /\ UNCHANGED <<turns, pending, asked, cut>>

Arrive(p) ==
  \/ \E u \in Users, kind \in {"question", "yes", "no"} : Send(p, u, kind)
  \/ Investigate(p)

Handle(p) ==
  \/ Refuse(p) \/ Open(p) \/ Look(p) \/ Take(p) \/ Fail(p) \/ Offer(p)
  \/ \E asks \in Requests : Answer(p, asks)
  \/ \E ok \in BOOLEAN : Reply(p, ok)

Next ==
  \/ \E p \in Posts : Arrive(p) \/ Handle(p)
  \/ Expire
  \/ \E u \in Users : Forget(u)

Spec == Init /\ [][Next]_vars

-----------------------------------------------------------------------------
(* Properties *)

\* Neither of two posts was dealt with when the other was written.
Overlap(p, q) == p # q /\ p \notin turns[q].after /\ q \notin turns[p].after
Granted(p) == turns[p].grant # {}

\* A proposal is answered once: of all the replies that found it waiting, however
\* their has and take interleave, one takes it, to run or to drop it.
UsedOnce ==
  \A p, q \in Posts : p # q /\ turns[p].from # None => turns[p].from # turns[q].from

\* A grant is exactly what one turn asked for, in an answer it gave, and only a
\* yes obtains it; what replaced proposals asked for is never run.
GrantIsOneOffer ==
  \A p \in Posts : Granted(p) =>
    /\ turns[p].kind = "yes"
    /\ turns[p].from # None
    /\ turns[p].grant = turns[turns[p].from].asks
    /\ turns[turns[p].from].result = "answered"

\* A proposal that expires between the look at it and its taking is not run.
NoLateGrant ==
  [][\A p \in Posts : turns'[p].grant # turns[p].grant => pending.live]_vars

\* What a yes runs is what the thread was last asked when it was written, unless
\* turns ran side by side or the request never reached the thread.
MisreadOnlyInOverlap ==
  \A p \in Posts : Granted(p) /\ turns[p].from # turns[p].saw =>
    LET from == turns[p].from  saw == turns[p].saw IN
    \/ ~turns[from].delivered
    \/ Overlap(from, p)
    \/ saw # None /\ (Overlap(saw, p) \/ Overlap(saw, from))

\* Whoever writes after "OK, I won't run it" runs nothing of what that reply
\* declined, unless the request was still on its way into the store.
NoMeansNo ==
  \A p, q \in Posts :
    turns[p].result = "declined" /\ p \in turns[q].after /\ Granted(q)
    => turns[q].from # turns[p].saw \/ Overlap(turns[p].saw, p)

\* Another user's exchange enters a transcript only by an approval of the proposal
\* that came out of it.
OwnMemory ==
  \A u \in Users : \A p \in conv[u] :
    turns[p].user # u =>
      \E q \in conv[u] :
        /\ turns[q].user = u /\ Granted(q)
        /\ p \in turns[turns[q].from].history

\* A follow-up knows every exchange its author finished before, if only the end of
\* it, unless that expired, a later exchange of the author pushed it out of the
\* transcript, or another turn of the same author ran beside it.
FollowUpKnows ==
  \A p, q \in Posts :
    /\ p \in turns[q].after /\ turns[p].kind # "alert" /\ turns[p].result = "answered"
    /\ turns[q].stage # "received" /\ turns[q].result = "none"
    /\ turns[p].user = turns[q].user
    => \/ p \in turns[q].history \cup forgot \cup cut
       \/ \E r \in Posts : turns[r].user = turns[p].user /\ Overlap(p, r)
=============================================================================
