------------------------------ MODULE MCAgent ------------------------------
(* An instance of Agent for TLC: a caller with a namespace on one cluster, who  *)
(* is admin of the other, and a server of documents.                             *)
EXTENDS Agent, TLC

CONSTANTS teh, ifr, web, mine, other, uid, pods, debug, nodes, board, vmstat, book

Has(on, server) == [on |-> on, server |-> server, admin |-> FALSE, approval |-> FALSE, needsNs |-> FALSE]

MCRule ==
  pods :> Has({teh, ifr}, "scoped")
  @@ debug :> [Has({teh}, "scoped") EXCEPT !.approval = TRUE, !.needsNs = TRUE]
  @@ nodes :> [Has({teh, ifr}, "scoped") EXCEPT !.admin = TRUE]
  @@ board :> Has({ifr}, "own")
  @@ vmstat :> Has({teh}, "shared")
  @@ book :> Has({web}, "docs")

MCScope == teh :> {mine} @@ ifr :> {other} @@ web :> {}
MCAdminOn == {ifr}
MCGrants == {None, {<<debug, teh, {mine}>>}}

To(tool, want, ns, id) == [tool |-> tool, want |-> want, ns |-> ns, id |-> id, whole |-> TRUE]

MCCalls == {To(pods, teh, {mine}, None), To(pods, None, {}, None), To(nodes, teh, {}, None),
            To(debug, None, {mine}, None), To(board, None, {}, uid),
            To(book, None, {}, None), [To(vmstat, None, {}, None) EXCEPT !.whole = FALSE],
            To(None, None, {}, None)}

Of(named, behind, flow, id) == [named |-> named, behind |-> behind, flow |-> flow, id |-> id]
Own     == Of({mine}, {}, FALSE, None)
Foreign == Of({mine}, {other}, FALSE, None)
Edge    == Of({mine}, {other}, TRUE, uid)

MCRecords == {Own, Foreign, Edge}
Out(form, recs, beside) == [form |-> form, recs |-> recs, beside |-> beside]
MCOutputs == {Out("list", <<Foreign, Foreign, Edge>>, <<Foreign>>),
              Out("list", <<Own, Own, Own, Own, Edge>>, <<>>),
              Out("doc", <<Foreign>>, <<>>), Out("text", <<Own, Own>>, <<>>)}
=============================================================================
