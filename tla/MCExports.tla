------------------------------ MODULE MCExports ------------------------------
(* Two practices of a domain, an accepted link to one of them and a second *)
(* link that may still be made.                                            *)
EXTENDS Exports, TLC

Practices  == {"A-1a", "A-1b"}
OneDomain  == [p \in Practices |-> "A"]
OneLevel   == [p \in Practices |-> 1]
NoPractice == "A-9z"

OneAccepted ==
  "l1" :> [practice |-> "A-1a", review |-> "accepted"] @@
  "l2" :> Absent

(* Phrases are pairs, as their pseudonyms are.                             *)
Facility  == <<"phrase", 1>>
Utility   == <<"phrase", 2>>
Phrases   == {Facility, Utility}
NoPhrase  == {}
SomeTexts == {{}, {Facility}}
TwoNames  == {{}, {Utility}}

WriterSymmetry == Permutations(Writer)

=============================================================================
