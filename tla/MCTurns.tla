------------------------------ MODULE MCTurns ------------------------------
(* Two handlers, two servers that share a tool's name, a model and its backup. *)
EXTENDS Turns

CONSTANTS s1, s2, query, logs

MCServers == <<s1, s2>>
MCOffers == s1 :> {query, logs} @@ s2 :> {query, logs}
MCEnabled == s1 :> {query} @@ s2 :> {query, logs}

\* Blocks are numbered as they start.
Index(types, n) == Cardinality({k \in 1..n : types[k] \in {"text", "tool"}})
Events(types) == [n \in 1..Len(types) |-> [type |-> types[n], index |-> Index(types, n)]]
Answer(types) ==
  [status |-> 200, json |-> FALSE, cut |-> FALSE, leaks |-> FALSE, events |-> Events(types)]

\* A text, a text with a call, a stream that ends early, arguments cut at the output limit, markup
\* instead of a call, a refusal and an error of the network.
MCWires == {
  Answer(<<"text", "delta", "delta", "stop", "end">>),
  Answer(<<"text", "delta", "delta", "tool", "delta", "delta", "stop", "end">>),
  Answer(<<"text", "delta">>),
  Answer(<<"tool", "delta", "max_tokens", "end">>),
  [Answer(<<"text", "delta", "stop">>) EXCEPT !.leaks = TRUE],
  [Answer(<<>>) EXCEPT !.status = 400],
  [Answer(<<>>) EXCEPT !.status = 0]}
=============================================================================
