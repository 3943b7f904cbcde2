------------------------------ MODULE MCAnswer ------------------------------
(* Either the turn of MCAgent, or the choice of tools for one question: two      *)
(* clusters, documents for everybody and a group for admins.                     *)
EXTENDS MCAgent, Offer

CONSTANTS docs, ops, flows, flows2, page

MCSafeName == [x \in {pods, nodes, debug, board, vmstat, flows, flows2, book, page} |->
                 IF x = flows2 THEN flows ELSE x]
MCPriority == [x \in DOMAIN MCSafeName |-> CASE x = nodes -> 1 [] x = page -> 2 [] OTHER -> 0]

By(server, tools) == [i \in 1..Len(tools) |-> [tool |-> tools[i], server |-> server]]

\* Few tools, one of them under two names of which one is gated; and one server that
\* would fill the list alone.
Few == teh :> By(1, <<pods, nodes>>) \o By(2, <<flows>>) @@ ifr :> By(1, <<flows2, pods>>) \o By(2, <<board>>)
       @@ docs :> By(1, <<book>>) @@ ops :> By(1, <<book, nodes>>)
Many == teh :> By(1, <<pods, debug, board, vmstat, flows, nodes>>) @@ ifr :> By(1, <<debug>>) \o By(2, <<board, flows2>>)
        @@ docs :> By(1, <<book, page>>) \o By(2, <<pods>>) @@ ops :> By(1, <<page>>)

Asked ==
  {q \in [named : SUBSET {teh, ifr}, scope : SUBSET {teh, ifr}, wide : SUBSET {teh, ifr},
          max : {1, 3, 4, 5, 7, 8}, lists : {Few, Many}] : q.wide \subseteq q.scope}

MCConfigured == <<ifr, teh>>
MCGroups == <<docs, ops>>

\* The turn of MCAgent stands for the one that follows.
NoQuestion == [named |-> {}, scope |-> {}, wide |-> {}, max |-> 1,
               lists |-> [s \in {teh, ifr, docs, ops} |-> <<>>]]
MCQuestions == Asked \cup {NoQuestion}

Still == question = NoQuestion /\ UNCHANGED offerVars
Idle == question # NoQuestion /\ UNCHANGED vars

MCInit ==
  /\ Init /\ OfferInit
  /\ question # NoQuestion => ~review /\ granted = None

Settled == progress \in {"no tools", "failed", "offered"} /\ UNCHANGED offerVars

MCNext ==
  \/ Think /\ Still
  \/ CallStep /\ Still
  \/ AnswerStep /\ Still
  \/ Done /\ Still
  \/ Choose /\ Idle
  \/ ListSource /\ Idle
  \/ MissSource /\ Idle
  \/ Build /\ Idle
  \/ Settled /\ Idle

MCSpec == MCInit /\ [][MCNext]_<<vars, offerVars>>
=============================================================================
