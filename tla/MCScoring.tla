------------------------------ MODULE MCScoring ------------------------------
(* A small instance of Report, and of Scoring, for TLC: a domain that has  *)
(* practices at two of the levels, one with a single practice, and one     *)
(* that was not transcribed.                                               *)
EXTENDS Report, TLC

Practices    == {"A-1a", "A-1b", "B-1a"}
Domains      == {"A", "B", "C"}
SmallDomains == [p \in Practices |-> IF p = "B-1a" THEN "B" ELSE "A"]
SmallMil     == [p \in Practices |-> CASE p = "A-1a" -> 1 [] p = "A-1b" -> 3 [] p = "B-1a" -> 2]
NoPractice   == "A-9z"

LinkSymmetry == Permutations(Link)

=============================================================================
