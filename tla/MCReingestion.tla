---------------------------- MODULE MCReingestion ----------------------------
(* A document of five places, cut in two windows that just touch or that   *)
(* overlap by two, as the chunker's rules move their edges.                *)
EXTENDS Reingestion

CONSTANTS d1, t1

Span(from, to) == [from |-> from, to |-> to]

(* Every practice is nearest to the beginning of the text, the first most. *)
Near(p, c) == IF c.from < 2 THEN 4 - p ELSE 1

OneText == [d \in {d1} |-> [v \in {1} |-> [i \in 1..5 |-> i]]]

OneTextCuts ==
  [d \in {d1} |-> [v \in {1} |->
     {{Span(0, 2), Span(2, 5)},
      {Span(0, 3), Span(1, 5)}}]]

=============================================================================
