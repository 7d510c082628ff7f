---------------------------- MODULE Report_proofs -----------------------------
(***************************************************************************)
(* The properties of Scoring, of Report and of Exports, for every          *)
(* framework and any number of links, calls, phrases and writes.           *)
(*                                                                         *)
(* Scoring: the invariants follow from the definitions and the types; the  *)
(* action properties from one lemma about credit (ScoresFollowCredit),     *)
(* applied in one direction where a step adds credit and in the other      *)
(* where it takes some away, after a lemma on what each step does to the   *)
(* links.                                                                  *)
(*                                                                         *)
(* Report: each figure is counted again from the same sets of practices,   *)
(* so that figures computed apart are equal.                               *)
(*                                                                         *)
(* Exports: while copies are made it matters only that the figures of a    *)
(* report are a function of the links and the findings that were read, and *)
(* that a finalized record changes only where a late write is counted.     *)
(* That the digest tells apart what a holder can read off the page needs   *)
(* the figures themselves: the unmet practices tell which domains have     *)
(* gaps, and with its gaps a domain's score fixes its chart.               *)
(***************************************************************************)
EXTENDS Exports, SequenceTheorems, FiniteSetTheorems,
        WellFoundedInduction, TLAPS

-----------------------------------------------------------------------------
(* Types.                                                                  *)

LEMMA StepCases ==
  ASSUME Next
  PROVE  \/ \E l \in Link, p \in Practice, s \in {"manual", "ai_proposed"} : AddLink(l, p, s)
         \/ \E l \in Link, p \in Reference, s \in Review \ {"pending"} : ReviewLink(l, s, p)
         \/ \E p \in Practice, s \in FindingStatus : SetFinding(p, s)
<1>1. CASE \E l \in Link, p \in Reference, s \in {"manual", "ai_proposed"} : AddLink(l, p, s)
  BY <1>1 DEF AddLink
<1>2. CASE \E l \in Link, p \in Reference : ReviewLink(l, "edited", p)
  BY <1>2 DEF Review, Credited
<1>3. CASE \E l \in Link, s \in {"accepted", "rejected"} : ReviewLink(l, s, links[l].practice)
  <2>1. PICK l \in Link, s \in {"accepted", "rejected"} : ReviewLink(l, s, links[l].practice)
    BY <1>3
  <2>2. links[l].practice \in Reference
    BY <2>1 DEF ReviewLink, Reference
  <2> QED
    BY <2>1, <2>2 DEF Review, Credited
<1>4. CASE \E p \in Reference, s \in FindingStatus : SetFinding(p, s)
  BY <1>4 DEF SetFinding
<1> QED
  BY <1>1, <1>2, <1>3, <1>4 DEF Next, Review, Credited

(* Links cite practices of the framework only, and a finding is on one,    *)
(* whatever references the callers send.                                   *)
THEOREM ScoringTypeCorrect == Spec => []TypeOK
<1>1. Init => TypeOK
  BY DEF Init, TypeOK
<1>2. TypeOK /\ [Next]_vars => TypeOK'
  <2> SUFFICES ASSUME TypeOK, [Next]_vars PROVE TypeOK'
    OBVIOUS
  <2>1. ASSUME NEW l \in Link, NEW p \in Practice, NEW s, AddLink(l, p, s)
        PROVE  TypeOK'
    <3>1. [practice |-> p, review |-> IF s = "ai_proposed" THEN "pending" ELSE "accepted"]
            \in Cited
      BY DEF Cited, Review, Credited
    <3> QED
      BY <2>1, <3>1 DEF AddLink, TypeOK
  <2>2. ASSUME NEW l \in Link, NEW p \in Reference, NEW s \in Review, ReviewLink(l, s, p)
        PROVE  TypeOK'
    <3>1. [practice |-> p, review |-> s] \in Cited
      BY <2>2 DEF Cited, ReviewLink
    <3> QED
      BY <2>2, <3>1 DEF ReviewLink, TypeOK
  <2>3. ASSUME NEW p \in Practice, NEW s \in FindingStatus, SetFinding(p, s)
        PROVE  TypeOK'
    BY <2>3, FindingStatusAssumption DEF SetFinding, TypeOK, AllFindingStatus
  <2>4. CASE UNCHANGED vars
    BY <2>4 DEF vars, TypeOK
  <2> QED
    BY <2>1, <2>2, <2>3, <2>4, StepCases
<1> QED
  BY <1>1, <1>2, PTL DEF Spec

-----------------------------------------------------------------------------
(* The state of a domain.                                                  *)

LEMMA MilStateLemma == MilIsHighest
<1> SUFFICES ASSUME NEW d \in Domain, PracticesOf(d) # {}
             PROVE  LET mil == DomainMil(d, Performed, Excluded)
                        Complete(n) == \A p \in PracticesOf(d) \ Excluded :
                                         Mil[p] <= n => p \in Performed
                    IN  Complete(mil) /\ \A n \in Level : n > mil => ~Complete(n)
  BY DEF MilIsHighest
<1> DEFINE met(n) == Met(d, n, Performed, Excluded)
           mil == IF ~met(1) THEN 0 ELSE IF ~met(2) THEN 1 ELSE IF ~met(3) THEN 2 ELSE 3
           Complete(n) == \A p \in PracticesOf(d) \ Excluded : Mil[p] <= n => p \in Performed
<1>1. DomainMil(d, Performed, Excluded) = mil
  BY DEF DomainMil, Climb
<1>2. \A p \in PracticesOf(d) : Mil[p] \in {1, 2, 3}
  BY FrameworkAssumption DEF PracticesOf, Level
<1>3. \A n \in Level : met(n) <=> \A p \in PracticesOf(d) \ Excluded :
                                    Mil[p] = n => p \in Performed
  BY DEF Met, Required
<1>4. Complete(0)
  BY <1>2
<1>5. \A n \in Level : Complete(n) <=> \A k \in 1..n : met(k)
  BY <1>2, <1>3 DEF Level
<1> HIDE DEF met, Complete
<1>6. Complete(mil) /\ \A n \in Level : n > mil => ~Complete(n)
  BY <1>4, <1>5 DEF Level
<1> QED
  BY <1>1, <1>6 DEF Complete

(* compute_domain_mil finds the highest level for which every practice at  *)
(* that level and at every preceding one is performed.                     *)
THEOREM MilIsHighestTheorem == Spec => []MilIsHighest
BY MilStateLemma, PTL

(* No level and no coverage without reviewed evidence: each practice of an *)
(* awarded level is cited by an accepted or edited link, and so is some    *)
(* practice of a domain with any coverage.                                 *)
THEOREM ScoreIsTraceableTheorem == Spec => []ScoreIsTraceable
<1>1. Performed \subseteq EvidenceBacked /\ Excluded \subseteq EvidenceBacked
  BY DEF Performed, Excluded
<1>2. \A p \in EvidenceBacked : \E l \in Link : links[l].practice = p /\ links[l].review \in Credited
  BY DEF EvidenceBacked
<1>3. ASSUME NEW d \in Domain, NEW p \in PracticesOf(d),
             Mil[p] <= Scores["cumulative_mil"][d].num
      PROVE  p \in EvidenceBacked
  <2>1. MilIsHighest
    BY MilStateLemma
  <2>2. Scores["cumulative_mil"][d].num = DomainMil(d, Performed, Excluded)
    BY DEF Scores, DomainScore, ScoringModel
  <2>3. p \in Excluded \/ p \in Performed
    BY <1>3, <2>1, <2>2 DEF MilIsHighest
  <2> QED
    BY <1>1, <2>3
<1>4. ASSUME NEW d \in Domain, Scores["coverage"][d].num > 0
      PROVE  \E p \in PracticesOf(d) : p \in EvidenceBacked
  <2> DEFINE counted == PracticesOf(d) \ Excluded
  <2>1. Scores["coverage"][d] = DomainCoverage(d, Performed, Excluded)
    BY DEF Scores, DomainScore, ScoringModel
  <2>2. counted # {} /\ Scores["coverage"][d].num = Cardinality(counted \cap Performed)
    BY <1>4, <2>1 DEF DomainCoverage, Nothing
  <2>3. counted \cap Performed # {}
    BY <1>4, <2>2, FS_EmptySet
  <2> QED
    BY <1>1, <2>3
<1>5. ScoreIsTraceable
  BY <1>2, <1>3, <1>4 DEF ScoreIsTraceable
<1> QED
  BY <1>5, PTL

-----------------------------------------------------------------------------
(* What a step does to the credit, and the credit to the scores.           *)

(* More practices out of scope, and no performed one lost but to that,     *)
(* lower no level.                                                         *)
LEMMA MilFollowsCredit ==
  ASSUME NEW d \in Domain, NEW P, NEW P2, NEW E, NEW E2,
         E \subseteq E2, P \ E2 \subseteq P2
  PROVE  /\ DomainMil(d, P, E) \in 0..3 /\ DomainMil(d, P2, E2) \in 0..3
         /\ DomainMil(d, P, E) <= DomainMil(d, P2, E2)
<1>1. \A n \in Level : Met(d, n, P, E) => Met(d, n, P2, E2)
  BY DEF Met, Required
<1>2. Met(d, 1, P, E) => Met(d, 1, P2, E2)
  BY <1>1 DEF Level
<1>3. Met(d, 2, P, E) => Met(d, 2, P2, E2)
  BY <1>1 DEF Level
<1>4. Met(d, 3, P, E) => Met(d, 3, P2, E2)
  BY <1>1 DEF Level
<1> QED
  BY <1>2, <1>3, <1>4 DEF DomainMil, Climb

(* If moreover no performed practice falls out of scope, no coverage falls.*)
LEMMA CoverageFollowsCredit ==
  ASSUME NEW d \in Domain, NEW P, NEW P2, NEW E, NEW E2,
         E \subseteq E2, P \ E \subseteq P2 \ E2
  PROVE  AtMost(DomainCoverage(d, P, E), DomainCoverage(d, P2, E2))
<1> DEFINE counted  == PracticesOf(d) \ E
           counted2 == PracticesOf(d) \ E2
           covered  == counted \cap P
           covered2 == counted2 \cap P2
<1>1. covered \subseteq covered2 /\ counted2 \subseteq counted /\ covered2 \subseteq counted2
  OBVIOUS
<1>2. IsFiniteSet(counted)
  BY FrameworkAssumption, FS_Subset DEF PracticesOf
<1>3. IsFiniteSet(counted2) /\ IsFiniteSet(covered2) /\ IsFiniteSet(covered)
  BY <1>1, <1>2, FS_Subset
<1>4. /\ Cardinality(covered) \in Nat /\ Cardinality(covered2) \in Nat
      /\ Cardinality(counted) \in Nat /\ Cardinality(counted2) \in Nat
  BY <1>2, <1>3, FS_CardinalityType
<1>5. Cardinality(covered) <= Cardinality(covered2)
  BY <1>1, <1>3, FS_Subset
<1>6. Cardinality(counted2) <= Cardinality(counted)
  BY <1>1, <1>2, FS_Subset
<1>7. CASE counted2 = {}
  <2>1. covered = {} /\ Cardinality(covered) = 0
    BY <1>1, <1>7, FS_EmptySet
  <2>2. DomainCoverage(d, P2, E2) = Nothing
    BY <1>7 DEF DomainCoverage
  <2>3. DomainCoverage(d, P, E).num = 0 /\ DomainCoverage(d, P, E).den \in Nat
    BY <1>4, <2>1 DEF DomainCoverage, Nothing
  <2> QED
    BY <2>2, <2>3 DEF AtMost, Nothing
<1>8. CASE counted2 # {}
  <2>1. counted # {}
    BY <1>1, <1>8
  <2>2. DomainCoverage(d, P, E) = [num |-> Cardinality(covered), den |-> Cardinality(counted)]
    BY <2>1 DEF DomainCoverage
  <2>3. DomainCoverage(d, P2, E2) = [num |-> Cardinality(covered2), den |-> Cardinality(counted2)]
    BY <1>8 DEF DomainCoverage
  <2>4. \A a, b, m, n \in Nat : a <= b /\ n <= m => a * n <= b * m
    <3> SUFFICES ASSUME NEW a \in Nat, NEW b \in Nat, NEW m \in Nat, NEW n \in Nat,
                        a <= b, n <= m
                 PROVE  a * n <= b * m
      OBVIOUS
    <3> QED
      OBVIOUS
  <2>5. Cardinality(covered) * Cardinality(counted2) <= Cardinality(covered2) * Cardinality(counted)
    BY <1>4, <1>5, <1>6, <2>4
  <2> QED
    BY <2>2, <2>3, <2>5 DEF AtMost
<1> QED
  BY <1>7, <1>8

(* The two together, for a step in which credit only grows.                *)
LEMMA ScoresFollowCredit ==
  ASSUME NEW d \in Domain, NEW P, NEW P2, NEW E, NEW E2,
         E \subseteq E2, P \ E \subseteq P2 \ E2
  PROVE  /\ AtMost([num |-> DomainMil(d, P, E), den |-> 1], [num |-> DomainMil(d, P2, E2), den |-> 1])
         /\ AtMost(DomainCoverage(d, P, E), DomainCoverage(d, P2, E2))
<1>1. P \ E2 \subseteq P2
  OBVIOUS
<1>2. /\ DomainMil(d, P, E) \in 0..3 /\ DomainMil(d, P2, E2) \in 0..3
      /\ DomainMil(d, P, E) <= DomainMil(d, P2, E2)
  BY <1>1, MilFollowsCredit
<1>3. AtMost([num |-> DomainMil(d, P, E), den |-> 1], [num |-> DomainMil(d, P2, E2), den |-> 1])
  BY <1>2 DEF AtMost
<1> QED
  BY <1>3, CoverageFollowsCredit

(* A step on a link leaves the findings and the credited links alone, and  *)
(* a step on a finding leaves the links alone.                             *)
LEMMA CreditedLinksStay ==
  ASSUME TypeOK, Next
  PROVE  \/ /\ findings' = findings
            /\ \A l \in Link : links[l].review \in Credited => links'[l] = links[l]
         \/ /\ links' = links
            /\ \E p \in Practice, s \in FindingStatus : SetFinding(p, s)
<1>1. ASSUME NEW l \in Link, NEW p \in Practice, NEW s, AddLink(l, p, s)
      PROVE  /\ findings' = findings
             /\ \A k \in Link : links[k].review \in Credited => links'[k] = links[k]
  BY <1>1 DEF AddLink, TypeOK, Absent, Credited
<1>2. ASSUME NEW l \in Link, NEW p \in Reference, NEW s \in Review, ReviewLink(l, s, p)
      PROVE  /\ findings' = findings
             /\ \A k \in Link : links[k].review \in Credited => links'[k] = links[k]
  BY <1>2 DEF ReviewLink, TypeOK, Credited
<1>3. ASSUME NEW p \in Practice, NEW s \in FindingStatus, SetFinding(p, s)
      PROVE  links' = links
  BY <1>3 DEF SetFinding
<1> QED
  BY <1>1, <1>2, <1>3, StepCases

-----------------------------------------------------------------------------
(* The action properties.                                                  *)

LEMMA ScoreParts ==
  ASSUME NEW d \in Domain
  PROVE  /\ Scores["cumulative_mil"][d] = [num |-> DomainMil(d, Performed, Excluded), den |-> 1]
         /\ Scores["coverage"][d] = DomainCoverage(d, Performed, Excluded)
         /\ Scores'["cumulative_mil"][d] = [num |-> DomainMil(d, Performed', Excluded'), den |-> 1]
         /\ Scores'["coverage"][d] = DomainCoverage(d, Performed', Excluded')
BY DEF Scores, DomainScore, ScoringModel

LEMMA StutterSetsNothing ==
  ASSUME UNCHANGED vars
  PROVE  links' = links /\ findings' = findings /\ ~CreditGained /\ (\A s : ~Set(s))
BY DEF vars, CreditGained, Set

(* A step that sets status s on some practice is SetFinding of it.         *)
LEMMA SetIsSetFinding ==
  ASSUME TypeOK, Next, NEW s, Set(s)
  PROVE  \E p \in Practice : /\ findings' = [findings EXCEPT ![p] = s]
                            /\ links' = links
<1>1. PICK p \in Practice : findings[p] # s /\ findings'[p] = s
  BY DEF Set
<1>2. PICK q \in Practice, t \in FindingStatus : SetFinding(q, t)
  BY <1>1, CreditedLinksStay
<1>3. findings' = [findings EXCEPT ![q] = t] /\ links' = links
  BY <1>2 DEF SetFinding
<1>4. q = p /\ t = s
  BY <1>1, <1>3 DEF TypeOK
<1> QED
  BY <1>3, <1>4

(* Accepting a link, as proposed or corrected, lowers no domain's score    *)
(* under either scoring model.                                             *)
THEOREM AcceptingNeverLowersTheorem == Spec => AcceptingNeverLowers
<1>1. ASSUME TypeOK, [Next]_vars, CreditGained PROVE HoldOrRise
  <2>1. Next
    BY <1>1, StutterSetsNothing
  <2>2. links' # links
    BY <1>1 DEF CreditGained
  <2>3. findings' = findings
    BY <1>1, <2>1, <2>2, CreditedLinksStay
  <2>4. \A l \in Link : links[l].review \in Credited => links'[l] = links[l]
    BY <1>1, <2>1, <2>2, CreditedLinksStay
  <2>5. EvidenceBacked \subseteq EvidenceBacked'
    BY <2>4 DEF EvidenceBacked
  <2>6. Excluded \subseteq Excluded' /\ Performed \ Excluded \subseteq Performed' \ Excluded'
    BY <2>3, <2>5 DEF Excluded, Performed
  <2>7. ASSUME NEW d \in Domain
        PROVE  /\ AtMost(Scores["cumulative_mil"][d], Scores'["cumulative_mil"][d])
               /\ AtMost(Scores["coverage"][d], Scores'["coverage"][d])
    <3>1. /\ AtMost([num |-> DomainMil(d, Performed, Excluded), den |-> 1],
                    [num |-> DomainMil(d, Performed', Excluded'), den |-> 1])
          /\ AtMost(DomainCoverage(d, Performed, Excluded),
                    DomainCoverage(d, Performed', Excluded'))
      BY <2>6, ScoresFollowCredit
    <3> QED
      BY <3>1, ScoreParts
  <2> QED
    BY <2>7 DEF HoldOrRise, ScoringModel
<1> QED
  BY <1>1, ScoringTypeCorrect, PTL DEF Spec, AcceptingNeverLowers

(* A proposal, and the rejection of one, move no score.                    *)
THEOREM UnreviewedMovesNothingTheorem == Spec => UnreviewedMovesNothing
<1>1. ASSUME TypeOK, [Next]_vars, links' # links, ~CreditGained PROVE Scores' = Scores
  <2>1. Next
    BY <1>1, StutterSetsNothing
  <2>2. findings' = findings
    BY <1>1, <2>1, CreditedLinksStay
  <2>3. \A l \in Link : links[l].review \in Credited => links'[l] = links[l]
    BY <1>1, <2>1, CreditedLinksStay
  <2>4. \A l \in Link : links[l].review \in Credited <=> links'[l].review \in Credited
    BY <1>1, <2>3 DEF CreditGained
  <2>5. EvidenceBacked' = EvidenceBacked
    BY <2>3, <2>4 DEF EvidenceBacked
  <2>6. Performed' = Performed /\ Excluded' = Excluded
    BY <2>2, <2>5 DEF Performed, Excluded
  <2> QED
    BY <2>6 DEF Scores, DomainScore
<1> QED
  BY <1>1, ScoringTypeCorrect, PTL DEF Spec, UnreviewedMovesNothing

(* A negative finding lowers or holds every score.                         *)
THEOREM CautionNeverRaisesTheorem == Spec => CautionNeverRaises
<1>1. ASSUME TypeOK, [Next]_vars, NEW s \in NeverPerformed, Set(s) PROVE HoldOrFall
  <2>1. Next
    BY <1>1, StutterSetsNothing
  <2>2. PICK p \in Practice : findings' = [findings EXCEPT ![p] = s] /\ links' = links
    BY <1>1, <2>1, SetIsSetFinding
  <2>3. EvidenceBacked' = EvidenceBacked
    BY <2>2 DEF EvidenceBacked
  <2>4. EvidenceBacked \subseteq Practice
    BY <1>1, UnknownAssumption DEF EvidenceBacked, TypeOK, Cited, Absent, Credited
  <2>5. Excluded' \subseteq Excluded /\ Performed' \ Excluded' \subseteq Performed \ Excluded
    BY <1>1, <2>2, <2>3, <2>4 DEF Excluded, Performed, NeverPerformed, TypeOK
  <2>6. ASSUME NEW d \in Domain
        PROVE  /\ AtMost(Scores'["cumulative_mil"][d], Scores["cumulative_mil"][d])
               /\ AtMost(Scores'["coverage"][d], Scores["coverage"][d])
    <3>1. /\ AtMost([num |-> DomainMil(d, Performed', Excluded'), den |-> 1],
                    [num |-> DomainMil(d, Performed, Excluded), den |-> 1])
          /\ AtMost(DomainCoverage(d, Performed', Excluded'),
                    DomainCoverage(d, Performed, Excluded))
      BY <2>5, ScoresFollowCredit
    <3> QED
      BY <3>1, ScoreParts
  <2> QED
    BY <2>6 DEF HoldOrFall, ScoringModel
<1>2. TypeOK /\ [Next]_vars => [(\E s \in NeverPerformed : Set(s)) => HoldOrFall]_vars
  BY <1>1
<1> QED
  BY <1>2, ScoringTypeCorrect, PTL DEF Spec, CautionNeverRaises

(* Setting a practice to not applicable lowers no domain's level; its      *)
(* coverage may fall.                                                      *)
THEOREM NotApplicableNeverLowersMilTheorem == Spec => NotApplicableNeverLowersMil
<1>1. ASSUME TypeOK, [Next]_vars, Set("not_applicable"), NEW d \in Domain
      PROVE  AtMost(Scores["cumulative_mil"][d], Scores'["cumulative_mil"][d])
  <2>1. Next
    BY <1>1, StutterSetsNothing
  <2>2. PICK p \in Practice : /\ findings' = [findings EXCEPT ![p] = "not_applicable"]
                             /\ links' = links
    BY <1>1, <2>1, SetIsSetFinding
  <2>3. EvidenceBacked' = EvidenceBacked
    BY <2>2 DEF EvidenceBacked
  <2>4. EvidenceBacked \subseteq Practice
    BY <1>1, UnknownAssumption DEF EvidenceBacked, TypeOK, Cited, Absent, Credited
  <2>5. Excluded \subseteq Excluded' /\ Performed \ Excluded' \subseteq Performed'
    BY <1>1, <2>2, <2>3, <2>4 DEF Excluded, Performed, NeverPerformed, TypeOK
  <2>6. /\ DomainMil(d, Performed, Excluded) \in 0..3
        /\ DomainMil(d, Performed', Excluded') \in 0..3
        /\ DomainMil(d, Performed, Excluded) <= DomainMil(d, Performed', Excluded')
    BY <2>5, MilFollowsCredit
  <2>7. AtMost([num |-> DomainMil(d, Performed, Excluded), den |-> 1],
               [num |-> DomainMil(d, Performed', Excluded'), den |-> 1])
    BY <2>6 DEF AtMost
  <2> QED
    BY <2>7, ScoreParts
<1>2. TypeOK /\ [Next]_vars =>
        [Set("not_applicable") =>
           \A d \in Domain :
             AtMost(Scores["cumulative_mil"][d], Scores'["cumulative_mil"][d])]_vars
  BY <1>1
<1> QED
  BY <1>2, ScoringTypeCorrect, PTL DEF Spec, NotApplicableNeverLowersMil

(* A finding on a practice that no accepted or edited link cites moves no  *)
(* score.                                                                  *)
THEOREM FindingNeedsEvidenceTheorem == Spec => FindingNeedsEvidence
<1>1. ASSUME links' = links, \A p \in EvidenceBacked : findings'[p] = findings[p]
      PROVE  Scores' = Scores
  <2>1. EvidenceBacked' = EvidenceBacked
    BY <1>1 DEF EvidenceBacked
  <2>2. Performed' = Performed /\ Excluded' = Excluded
    BY <1>1, <2>1 DEF Performed, Excluded
  <2> QED
    BY <2>2 DEF Scores, DomainScore
<1> QED
  BY <1>1, PTL DEF Spec, FindingNeedsEvidence

(* All five at once: what a step of the record may do to the scores.       *)
THEOREM StepsMoveScoresTheorem == Spec => StepsMoveScores
<1>1. Spec => /\ AcceptingNeverLowers /\ UnreviewedMovesNothing
              /\ CautionNeverRaises /\ NotApplicableNeverLowersMil
              /\ FindingNeedsEvidence
  BY AcceptingNeverLowersTheorem, UnreviewedMovesNothingTheorem, CautionNeverRaisesTheorem,
     NotApplicableNeverLowersMilTheorem, FindingNeedsEvidenceTheorem
<1> QED
  BY <1>1, PTL DEF AcceptingNeverLowers, UnreviewedMovesNothing, CautionNeverRaises,
     NotApplicableNeverLowersMil, FindingNeedsEvidence, StepsMoveScores

-----------------------------------------------------------------------------
(* Sums over finite sets, as the community modules define them.            *)

(* Induction over the subsets of a finite set, those that are good so far  *)
(* given as a set.                                                         *)
LEMMA SubsetInduction ==
  ASSUME NEW S, IsFiniteSet(S), NEW Good,
         \A T \in SUBSET S : (\A x \in T : T \ {x} \in Good) => T \in Good
  PROVE  \A T \in SUBSET S : T \in Good
<1> DEFINE Bad == (SUBSET S) \ Good
           R   == StrictSubsetOrdering(S)
<1> SUFFICES ASSUME Bad # {} PROVE FALSE
  OBVIOUS
<1>1. IsWellFoundedOn(R, SUBSET S)
  <2>1. FiniteSubsetsOf(S) = SUBSET S
    BY FS_FiniteSubsetsOfFinite
  <2>2. IsWellFoundedOn(R, FiniteSubsetsOf(S))
    BY FS_StrictSubsetOrderingWellFounded, Zenon
  <2>q. QED BY <2>1, <2>2
<1>2. ASSUME NEW T \in SUBSET S, NEW x \in T PROVE <<T \ {x}, T>> \in R
  BY DEF StrictSubsetOrdering
<1>3. Bad \subseteq SUBSET S
  OBVIOUS
<1> HIDE DEF R, Bad
<1>4. PICK T \in Bad : \A U \in Bad : ~ (<<U, T>> \in R)
  BY <1>1, <1>3, WFMin
<1>q. QED BY <1>2, <1>4 DEF Bad

(* What a sum takes from the partial sums it is made of.                   *)
IsSum(it, f, S) ==
  it = [s \in SUBSET S |->
         IF s = {} THEN 0 ELSE LET x == CHOOSE x \in s : TRUE IN f[x] + it[s \ {x}]]

LEMMA TwoClasses ==
  ASSUME NEW S, NEW T, IsFiniteSet(S), IsFiniteSet(T), S \cap T = {}
  PROVE  Cardinality(S \cup T) = Cardinality(S) + Cardinality(T) /\ IsFiniteSet(S \cup T)
<1>1. Cardinality(S \cap T) = 0
  BY FS_EmptySet
<1>2. Cardinality(S) \in Nat /\ Cardinality(T) \in Nat
  BY FS_CardinalityType
<1>3. /\ IsFiniteSet(S \cup T)
      /\ Cardinality(S \cup T) = Cardinality(S) + Cardinality(T) - Cardinality(S \cap T)
  BY FS_Union
<1>q. QED BY <1>1, <1>2, <1>3

(* A finite set, split into classes that do not overlap, with their sizes. *)
Split(whole, D, class, size) ==
  /\ IsFiniteSet(D)
  /\ \A d \in D : IsFiniteSet(class[d]) /\ size[d] = Cardinality(class[d])
  /\ \A d, e \in D : d # e => class[d] \cap class[e] = {}
  /\ \A d \in D : class[d] \subseteq whole
  /\ \A i \in whole : \E d \in D : i \in class[d]

(* The sizes of the classes add up to that of the whole.                   *)
LEMMA SizesAddUp ==
  ASSUME NEW whole, NEW D, NEW class, NEW size, Split(whole, D, class, size)
  PROVE  IsFiniteSet(whole) /\ SumFunctionOnSet(size, D) = Cardinality(whole)
<1>0. /\ IsFiniteSet(D)
      /\ \A d \in D : IsFiniteSet(class[d]) /\ size[d] = Cardinality(class[d])
      /\ \A d, e \in D : d # e => class[d] \cap class[e] = {}
  BY DEF Split
<1> DEFINE All(T) == UNION {class[d] : d \in T}
           sums   == [T \in SUBSET D |-> Cardinality(All(T))]
<1>1. \A T \in SUBSET D : IsFiniteSet(All(T))
  <2> DEFINE Good == {T \in SUBSET D : IsFiniteSet(All(T))}
  <2>1. ASSUME NEW T \in SUBSET D, \A x \in T : T \ {x} \in Good PROVE T \in Good
    <3>1. CASE T = {}
      <4>1. All(T) = {}
        BY <3>1
      <4>q. QED BY <4>1, FS_EmptySet
    <3>2. ASSUME NEW x \in T PROVE T \in Good
      <4>1. IsFiniteSet(All(T \ {x}))
        BY <2>1
      <4>2. All(T) = class[x] \cup All(T \ {x}) /\ class[x] \cap All(T \ {x}) = {}
        BY <1>0
      <4>3. IsFiniteSet(class[x])
        BY <1>0
      <4> HIDE DEF All
      <4>4. IsFiniteSet(class[x] \cup All(T \ {x}))
        BY <4>1, <4>2, <4>3, TwoClasses
      <4>q. QED BY <4>2, <4>4
    <3>q. QED BY <3>1, <3>2
  <2> HIDE DEF Good
  <2>2. \A T \in SUBSET D : T \in Good
    BY <1>0, <2>1, SubsetInduction
  <2>q. QED BY <2>2 DEF Good
<1>2. ASSUME NEW T \in SUBSET D, NEW x \in T PROVE sums[T] = size[x] + sums[T \ {x}]
  <2>1. All(T) = class[x] \cup All(T \ {x}) /\ class[x] \cap All(T \ {x}) = {}
    BY <1>0
  <2>2. IsFiniteSet(class[x]) /\ IsFiniteSet(All(T \ {x})) /\ size[x] = Cardinality(class[x])
    BY <1>0, <1>1
  <2>3. sums[T] = Cardinality(All(T)) /\ sums[T \ {x}] = Cardinality(All(T \ {x}))
    OBVIOUS
  <2> HIDE DEF All, sums
  <2>4. Cardinality(class[x] \cup All(T \ {x})) = Cardinality(class[x]) + Cardinality(All(T \ {x}))
    BY <2>1, <2>2, TwoClasses
  <2>q. QED BY <2>1, <2>2, <2>3, <2>4
<1>3. sums[{}] = 0
  <2>1. All({}) = {}
    OBVIOUS
  <2>q. QED BY <2>1, FS_EmptySet
<1>4. whole = All(D) /\ sums[D] = Cardinality(whole)
  <2>1. whole = All(D)
    BY DEF Split
  <2>q. QED BY <2>1
<1>5. IsSum(sums, size, D)
  <2>1. sums = [T \in SUBSET D |-> sums[T]]
    OBVIOUS
  <2> HIDE DEF sums
  <2>2. ASSUME NEW T \in SUBSET D
        PROVE  sums[T] = IF T = {} THEN 0
                         ELSE LET x == CHOOSE x \in T : TRUE IN size[x] + sums[T \ {x}]
    BY <1>2, <1>3
  <2>q. QED BY <2>1, <2>2, Zenon DEF IsSum
<1> HIDE DEF sums
<1>6. ASSUME NEW it, IsSum(it, size, D) PROVE it[D] = sums[D]
  <2> DEFINE Good == {T \in SUBSET D : it[T] = sums[T]}
  <2>1. ASSUME NEW T \in SUBSET D, \A x \in T : T \ {x} \in Good PROVE T \in Good
    <3>1. it[T] = IF T = {} THEN 0
                  ELSE LET x == CHOOSE x \in T : TRUE IN size[x] + it[T \ {x}]
      BY <1>6 DEF IsSum
    <3>2. CASE T = {}
      BY <1>3, <3>1, <3>2
    <3>3. CASE T # {}
      <4> DEFINE x == CHOOSE x \in T : TRUE
      <4>1. x \in T /\ it[T] = size[x] + it[T \ {x}]
        BY <3>1, <3>3
      <4> HIDE DEF x
      <4>2. it[T \ {x}] = sums[T \ {x}] /\ sums[T] = size[x] + sums[T \ {x}]
        BY <1>2, <2>1, <4>1
      <4>q. QED BY <4>1, <4>2
    <3>q. QED BY <3>2, <3>3
  <2> HIDE DEF Good
  <2>2. \A T \in SUBSET D : T \in Good
    BY <1>0, <2>1, SubsetInduction
  <2>q. QED BY <2>2 DEF Good
<1>7. SumFunctionOnSet(size, D) = (CHOOSE it : IsSum(it, size, D))[D]
  BY DEF SumFunctionOnSet, FoldFunctionOnSet, MapThenFoldSet, IsSum
<1>q. QED BY <1>1, <1>4, <1>5, <1>6, <1>7

-----------------------------------------------------------------------------
(* The figures of a report.                                                *)

(* A fraction of whole practices is rounded back to the practices met.     *)
LEMMA RoundedIsMet ==
  /\ \A m \in Nat, n \in Nat \ {0} : Rounded([num |-> m, den |-> n], n) = m
  /\ Rounded(Nothing, 0) = 0
<1>1. ASSUME NEW m \in Nat, NEW n \in Nat \ {0}
      PROVE  Rounded([num |-> m, den |-> n], n) = m
  <2> DEFINE a == 2 * m * n + n
             b == 2 * n
             q == a \div b
  <2>1. a \in Int /\ b \in Int /\ b > 0
    OBVIOUS
  <2> HIDE DEF a, b
  <2>2. q \in Int /\ b * q <= a /\ a < b * q + b
    BY <2>1, Z3
  <2> HIDE DEF q
  <2>3. (2 * n) * q <= 2 * m * n + n /\ 2 * m * n + n < (2 * n) * q + 2 * n
    BY <2>2 DEF a, b
  <2>4. q = m
    <3>1. CASE q > m
      <4>1. q >= m + 1
        BY <2>2, <3>1
      <4>2. (2 * n) * q >= (2 * n) * (m + 1)
        BY <2>2, <4>1
      <4>q. QED BY <2>2, <2>3, <4>2
    <3>2. CASE q < m
      <4>1. q + 1 <= m
        BY <2>2, <3>2
      <4>2. (2 * n) * (q + 1) <= (2 * n) * m
        BY <2>2, <4>1
      <4>q. QED BY <2>2, <2>3, <4>2
    <3>q. QED BY <2>2, <3>1, <3>2
  <2>q. QED BY <2>4 DEF Rounded, q, a, b
<1>2. Rounded(Nothing, 0) = 0
  BY DEF Rounded, Nothing
<1>q. QED BY <1>1, <1>2

(* What there is to count of a domain.                                     *)
LEMMA Counted ==
  ASSUME NEW d
  PROVE  /\ IsFiniteSet(PracticesOf(d)) /\ IsFiniteSet(Applicable(d))
         /\ IsFiniteSet(Applicable(d) \cap Performed)
         /\ Cardinality(Applicable(d)) \in Nat
         /\ Cardinality(Applicable(d) \cap Performed) \in Nat
         /\ Cardinality(Gaps(d)) = Cardinality(Applicable(d)) - Cardinality(Applicable(d) \cap Performed)
         /\ Cardinality(Applicable(d)) = 0 <=> Applicable(d) = {}
         /\ Gaps(d) # {} <=> Cardinality(Applicable(d) \cap Performed) < Cardinality(Applicable(d))
<1> DEFINE A == Applicable(d)
           P == Performed
<1>1. IsFiniteSet(PracticesOf(d))
  BY FrameworkAssumption, FS_Subset DEF PracticesOf
<1>2. IsFiniteSet(A)
  BY <1>1, FS_Subset DEF Applicable
<1>3. Gaps(d) = A \ P
  BY DEF Gaps
<1> HIDE DEF A, P
<1>4. IsFiniteSet(A \cap P) /\ IsFiniteSet(A \ P)
  BY <1>2, FS_Subset
<1>5. /\ Cardinality(A) \in Nat /\ Cardinality(A \cap P) \in Nat /\ Cardinality(A \ P) \in Nat
      /\ Cardinality(A) = 0 <=> A = {}
      /\ Cardinality(A \ P) = 0 <=> A \ P = {}
  BY <1>2, <1>4, FS_CardinalityType, FS_EmptySet
<1>6. Cardinality(A) = Cardinality(A \cap P) + Cardinality(A \ P)
  <2>1. (A \cap P) \cup (A \ P) = A /\ (A \cap P) \cap (A \ P) = {}
    OBVIOUS
  <2> DEFINE X == A \cap P
             Y == A \ P
  <2>2. IsFiniteSet(X) /\ IsFiniteSet(Y) /\ X \cap Y = {}
    BY <1>4, <2>1
  <2> HIDE DEF X, Y
  <2>3. Cardinality(X \cup Y) = Cardinality(X) + Cardinality(Y)
    BY <2>2, TwoClasses
  <2>q. QED BY <2>1, <2>3 DEF X, Y
<1>7. /\ Cardinality(A \ P) = Cardinality(A) - Cardinality(A \cap P)
      /\ A \ P # {} <=> Cardinality(A \cap P) < Cardinality(A)
  BY <1>5, <1>6
<1>q. QED BY <1>1, <1>2, <1>3, <1>4, <1>5, <1>7 DEF A, P

(* The coverage of a domain, and what is rounded back from it.             *)
LEMMA CoverageCounts ==
  ASSUME NEW d \in Domain
  PROVE  /\ Scores["coverage"][d] =
              IF Applicable(d) = {} THEN Nothing
              ELSE [num |-> Cardinality(Applicable(d) \cap Performed),
                    den |-> Cardinality(Applicable(d))]
         /\ Rounded(Scores["coverage"][d], Cardinality(Applicable(d)))
              = Cardinality(Applicable(d) \cap Performed)
<1>1. Scores["coverage"][d] = DomainCoverage(d, Performed, Excluded)
  BY DEF Scores, DomainScore, ScoringModel
<1>2. Scores["coverage"][d] =
        IF Applicable(d) = {} THEN Nothing
        ELSE [num |-> Cardinality(Applicable(d) \cap Performed), den |-> Cardinality(Applicable(d))]
  BY <1>1 DEF DomainCoverage, Applicable
<1>3. CASE Applicable(d) = {}
  <2>1. Cardinality(Applicable(d)) = 0 /\ Cardinality(Applicable(d) \cap Performed) = 0
    BY <1>3, FS_EmptySet
  <2>q. QED BY <1>2, <1>3, <2>1, RoundedIsMet
<1>4. CASE Applicable(d) # {}
  <2>1. /\ Cardinality(Applicable(d)) \in Nat \ {0}
        /\ Cardinality(Applicable(d) \cap Performed) \in Nat
    BY <1>4, Counted
  <2>q. QED BY <1>2, <1>4, <2>1, RoundedIsMet
<1>q. QED BY <1>2, <1>3, <1>4

(* The level that blocks a domain is the one above its level.              *)
LEMMA BlockedAbove ==
  ASSUME NEW d, PracticesOf(d) # {}
  PROVE  LET mil == DomainMil(d, Performed, Excluded)
         IN  Blocking(d) = IF mil = 3 THEN {} ELSE {mil + 1}
<1> DEFINE met(n) == Met(d, n, Performed, Excluded)
           mil == IF ~met(1) THEN 0 ELSE IF ~met(2) THEN 1 ELSE IF ~met(3) THEN 2 ELSE 3
<1>1. DomainMil(d, Performed, Excluded) = mil
  BY DEF DomainMil, Climb
<1>2. \A n : Missing(d, n) = {} <=> met(n)
  BY DEF Missing, Met, Required, Applicable
<1>3. Blocking(d) = {n \in 1..3 : ~met(n) /\ \A m \in 1..3 : m < n => met(m)}
  BY <1>2 DEF Blocking, Level
<1> HIDE DEF met
<1>4. {n \in 1..3 : ~met(n) /\ \A m \in 1..3 : m < n => met(m)} = IF mil = 3 THEN {} ELSE {mil + 1}
  <2>1. 1..3 = {1, 2, 3}
    OBVIOUS
  <2>q. QED BY <2>1
<1>q. QED BY <1>1, <1>3, <1>4

LEMMA DomainFiguresFollow == \A d \in Charted : DomainFiguresAgree(d)
<1> SUFFICES ASSUME NEW d \in Charted PROVE DomainFiguresAgree(d)
  OBVIOUS
<1> DEFINE mil   == Progress("cumulative_mil", d)
           cover == Progress("coverage", d)
<1>1. d \in Domain /\ d \in Populated /\ PracticesOf(d) # {} /\ Applicable(d) # {}
  BY DEF Charted, Populated
<1>2. /\ mil.blocking = Blocking(d)
      /\ mil.score.num = DomainMil(d, Performed, Excluded)
  BY <1>1 DEF Progress, Scores, DomainScore, ScoringModel
<1>3. /\ cover.met = Cardinality(Applicable(d) \cap Performed)
      /\ cover.total = Cardinality(Applicable(d))
      /\ cover.score = Scores["coverage"][d]
  BY DEF Progress
<1>4. d \in WithGaps <=> cover.met < cover.total
  BY <1>1, <1>3, Counted DEF WithGaps
<1>5. ASSUME d \in WithGaps PROVE Complication[d].met = cover.met
  <2>1. Complication[d].met = Cardinality(Applicable(d)) - Cardinality(Gaps(d))
    BY <1>5 DEF Complication, GapGroup
  <2>q. QED BY <1>3, <2>1, Counted
<1>6. cover.score = [num |-> cover.met, den |-> cover.total]
  BY <1>1, <1>3, CoverageCounts
<1>7. mil.blocking = IF mil.score.num = 3 THEN {} ELSE {mil.score.num + 1}
  BY <1>1, <1>2, BlockedAbove
<1> HIDE DEF mil, cover
<1>8. (d \in WithGaps) = (cover.met < cover.total)
  BY <1>4
<1>q. QED BY <1>5, <1>6, <1>7, <1>8 DEF DomainFiguresAgree, mil, cover

(* The domains share no practice, and each practice is of one of them.     *)
LEMMA HeadlineFollows == HeadlineAgrees
<1> DEFINE D       == Populated
           C       == Charted
           counted == Practice \ Excluded
           met     == counted \cap Performed
           scope   == [d \in D |-> Applicable(d)]
           sizes   == [d \in D |-> Cardinality(Applicable(d))]
           done    == [d \in D |-> Applicable(d) \cap Performed]
           rounds  == [d \in D |-> Rounded(Scores["coverage"][d], Cardinality(Applicable(d)))]
           chart   == [d \in C |-> Progress("coverage", d).met]
<1>1. C \subseteq D /\ D \subseteq Domain
  BY DEF Charted, Populated
<1>2. IsFiniteSet(D) /\ IsFiniteSet(C)
  <2>1. D \subseteq {DomainOf[p] : p \in Practice}
    BY DEF Populated, PracticesOf
  <2>2. IsFiniteSet({DomainOf[p] : p \in Practice})
    <3> DEFINE F == {DomainOf[p] : p \in Practice}
    <3>1. DomainOf \in Surjection(Practice, F)
      BY FrameworkAssumption DEF Surjection
    <3>q. QED BY <3>1, FrameworkAssumption, FS_Surjection
  <2>q. QED BY <1>1, <2>1, <2>2, FS_Subset
<1>3. \A d \in D : /\ IsFiniteSet(scope[d]) /\ sizes[d] = Cardinality(scope[d])
                   /\ IsFiniteSet(done[d]) /\ rounds[d] = Cardinality(done[d])
  BY <1>1, Counted, CoverageCounts
<1>4. \A d \in C : chart[d] = Cardinality(done[d])
  BY <1>1 DEF Progress
<1>5. \A d, e \in D : d # e => scope[d] \cap scope[e] = {} /\ done[d] \cap done[e] = {}
  BY DEF Applicable, PracticesOf
<1>6. ASSUME NEW p \in counted
      PROVE  \E d \in C : p \in scope[d] /\ (p \in Performed => p \in done[d])
  <2> DEFINE d == DomainOf[p]
  <2>1. d \in Domain /\ p \in PracticesOf(d) /\ p \in Applicable(d)
    BY FrameworkAssumption DEF PracticesOf, Applicable
  <2>2. d \in C /\ d \in D
    BY <2>1 DEF Charted, Populated
  <2>q. QED BY <2>1, <2>2
<1>7. \A d \in D : scope[d] \subseteq counted /\ done[d] \subseteq met
  BY DEF Applicable, PracticesOf
<1>8. /\ \A p \in counted : \E d \in D : p \in scope[d]
      /\ \A p \in met : \E d \in C : p \in done[d] /\ d \in D
  <2>1. met = {p \in counted : p \in Performed}
    OBVIOUS
  <2> HIDE DEF counted, met, scope, done, C, D
  <2>q. QED BY <1>1, <1>6, <2>1
<1>9. DOMAIN sizes = D /\ DOMAIN rounds = D /\ DOMAIN chart = C
  OBVIOUS
<1>10. Overall("coverage").fraction =
         IF SumFunction(sizes) = 0 THEN Nothing
         ELSE [num |-> SumFunction(rounds), den |-> SumFunction(sizes)]
  BY DEF Overall
<1> HIDE DEF D, C, counted, met, scope, sizes, done, rounds, chart
<1>11. Split(counted, D, scope, sizes) /\ Split(met, D, done, rounds) /\ Split(met, C, done, chart)
  <2>1. Split(counted, D, scope, sizes)
    BY <1>2, <1>3, <1>5, <1>7, <1>8 DEF Split
  <2>2. Split(met, D, done, rounds)
    BY <1>2, <1>3, <1>5, <1>7, <1>8 DEF Split
  <2>3. Split(met, C, done, chart)
    BY <1>1, <1>2, <1>3, <1>4, <1>5, <1>7, <1>8 DEF Split
  <2>q. QED BY <2>1, <2>2, <2>3
<1>12. IsFiniteSet(counted) /\ SumFunctionOnSet(sizes, D) = Cardinality(counted)
  BY <1>11, SizesAddUp
<1>13. SumFunctionOnSet(rounds, D) = Cardinality(met) /\ SumFunctionOnSet(chart, C) = Cardinality(met)
  BY <1>11, SizesAddUp
<1>14. /\ SumFunction(sizes) = Cardinality(counted) /\ SumFunction(rounds) = Cardinality(met)
       /\ SumFunction(chart) = Cardinality(met)
  BY <1>9, <1>12, <1>13 DEF SumFunction
<1>15. /\ Cardinality(counted) = 0 <=> counted = {}
       /\ counted = {} => Cardinality(met) = 0
  <2>1. met \subseteq counted
    BY DEF met
  <2>q. QED BY <1>12, <2>1, FS_EmptySet
<1> DEFINE headline == Overall("coverage").fraction
<1>16. headline = IF counted = {} THEN Nothing
                  ELSE [num |-> Cardinality(met), den |-> Cardinality(counted)]
  BY <1>10, <1>14, <1>15
<1>17. headline.num = SumFunction(chart)
  BY <1>14, <1>15, <1>16 DEF Nothing
<1> HIDE DEF headline
<1>q. QED BY <1>16, <1>17 DEF HeadlineAgrees, headline, chart, counted, met, C

(* The figures of one report agree, for every framework and however the    *)
(* links are reviewed and the findings set: blocking level and score,      *)
(* chart and coverage, gaps and chart, headline and whole framework, and   *)
(* each judgment without evidence is named.                                *)
THEOREM FiguresAgreeTheorem == Spec => []FiguresAgree
<1>1. ASSUME NEW d \in Populated, NEW p \in Practice, p \in Gaps(d),
             findings[p] \in {"satisfied", "not_applicable"}
      PROVE  p \in Situation.unsupported[findings[p]]
  <2>1. p \notin EvidenceBacked
    BY <1>1 DEF Gaps, Applicable, Performed, Excluded, NeverPerformed
  <2>2. p \in Unsupported(findings[p])
    BY <2>1 DEF Unsupported
  <2>q. QED BY <1>1, <2>2 DEF Situation
<1>2. FiguresAgree
  BY <1>1, DomainFiguresFollow, HeadlineFollows DEF FiguresAgree
<1>q. QED BY <1>2, PTL

-----------------------------------------------------------------------------
(* The calls.                                                              *)

Label == {"idle", "assessment", "links", "findings", "organization", "answer",
          "refused", "current", "superseded"}

(* Nothing is said of what a call reads, but that there is room for it.    *)
CallsOK ==
  /\ at \in [Client -> Label]
  /\ DOMAIN got = Client /\ \A c \in Client : DOMAIN got[c] = DOMAIN Idle
  /\ quiet \in [Client -> BOOLEAN]
  /\ late \in Nat

Beginning(c) ==
  \/ \E terms \in {{}, Phrase} : BeginApproval(c, terms)
  \/ BeginExport(c) \/ BeginSanitizedExport(c)
  \/ \E copy \in copies : BeginCheck(c, copy)

Reading(c) == ReadAssessment(c) \/ ReadLinks(c) \/ ReadFindings(c) \/ ReadOrganization(c)

Ending(c) == StoreApproval(c) \/ HandOut(c) \/ HandOutSanitized(c) \/ Return(c)

LEMMA CallCases ==
  ASSUME NEW c \in Client, Call(c)
  PROVE  Beginning(c) \/ Reading(c) \/ Ending(c) \/ RefuseStale(c) \/ Answer(c)
  BY DEF Call, Beginning, Reading, Ending

LEMMA AskedFields ==
  ASSUME NEW kind, NEW terms, NEW approved, NEW copy
  PROVE  /\ Asked(kind, terms, approved, copy).kind = kind
         /\ Asked(kind, terms, approved, copy).terms = terms
         /\ Asked(kind, terms, approved, copy).approved = approved
         /\ Asked(kind, terms, approved, copy).copy = copy
         /\ DOMAIN Asked(kind, terms, approved, copy) = DOMAIN Idle
  BY DEF Asked, Idle

(* What a call is to do, when it begins.                                   *)
LEMMA BeginningEffect ==
  ASSUME CallsOK, NEW c \in Client, Beginning(c)
  PROVE  /\ at[c] = "idle" /\ at' = [at EXCEPT ![c] = "assessment"]
         /\ quiet' = [quiet EXCEPT ![c] = TRUE]
         /\ UNCHANGED <<record, approvals, order, copies, tally>>
         /\ \E call :
              /\ got' = [got EXCEPT ![c] = call] /\ DOMAIN call = DOMAIN Idle
              /\ \/ call.kind \in {"approve", "export"}
                 \/ /\ call.kind = "sanitized" /\ approvals # <<>>
                    /\ call.approved = approvals[Len(approvals)]
                    /\ call.terms = call.approved.terms
                 \/ call.kind = "check" /\ call.copy \in copies
<1>1. CASE \E terms \in {{}, Phrase} : BeginApproval(c, terms)
  <2>1. PICK terms : Begin(c, Asked("approve", terms, NotRead, NotRead))
    BY <1>1 DEF BeginApproval
  <2> DEFINE call == Asked("approve", terms, NotRead, NotRead)
  <2>2. call.kind = "approve" /\ DOMAIN call = DOMAIN Idle
    BY AskedFields
  <2> HIDE DEF call
  <2>3. Begin(c, call)
    BY <2>1 DEF call
  <2>q. QED BY <2>2, <2>3 DEF Begin, Goto
<1>2. CASE BeginExport(c)
  <2> DEFINE call == Asked("export", {}, NotRead, NotRead)
  <2>1. call.kind = "export" /\ DOMAIN call = DOMAIN Idle
    BY AskedFields
  <2>2. Begin(c, call)
    BY <1>2 DEF BeginExport
  <2> HIDE DEF call
  <2>q. QED BY <2>1, <2>2 DEF Begin, Goto
<1>3. CASE BeginSanitizedExport(c)
  <2> DEFINE approval == approvals[Len(approvals)]
             call == Asked("sanitized", approval.terms, approval, NotRead)
  <2>1. Begin(c, call) /\ approvals # <<>>
    BY <1>3 DEF BeginSanitizedExport
  <2>2. /\ call.kind = "sanitized" /\ call.approved = approval /\ call.terms = approval.terms
        /\ DOMAIN call = DOMAIN Idle
    BY AskedFields
  <2> HIDE DEF call
  <2>q. QED BY <2>1, <2>2 DEF Begin, Goto
<1>4. CASE \E copy \in copies : BeginCheck(c, copy)
  <2>1. PICK copy \in copies : Begin(c, Asked("check", {}, NotRead, copy))
    BY <1>4 DEF BeginCheck
  <2> DEFINE call == Asked("check", {}, NotRead, copy)
  <2>2. call.kind = "check" /\ call.copy = copy /\ DOMAIN call = DOMAIN Idle
    BY AskedFields
  <2>3. Begin(c, call)
    BY <2>1
  <2> HIDE DEF call
  <2>q. QED BY <2>2, <2>3 DEF Begin, Goto
<1>q. QED BY <1>1, <1>2, <1>3, <1>4 DEF Beginning

(* What a call has read is kept, and so is what it is to do.               *)
Filled(g, r, fields) ==
  /\ DOMAIN r = DOMAIN Idle
  /\ \A f \in DOMAIN Idle \ fields : r[f] = g[f]

LEMMA ReadFields ==
  ASSUME NEW g, DOMAIN g = DOMAIN Idle, NEW x
  PROVE  /\ Filled(g, [g EXCEPT !.links = x], {"links"}) /\ [g EXCEPT !.links = x].links = x
         /\ Filled(g, [g EXCEPT !.name = x], {"name"})
<1>1. {"links", "name"} \subseteq DOMAIN g
  BY DEF Idle, Asked
<1>q. QED BY <1>1 DEF Filled

StatusRead(g, r, x, y) == Filled(g, r, {"status", "late"}) /\ r.status = x /\ r.late = y

LEMMA ReadStatusFields ==
  ASSUME NEW g, DOMAIN g = DOMAIN Idle, NEW x, NEW y
  PROVE  StatusRead(g, [g EXCEPT !.status = x, !.late = y], x, y)
<1>1. {"status", "late"} \subseteq DOMAIN g
  BY DEF Idle, Asked
<1>q. QED BY <1>1 DEF StatusRead, Filled

LEMMA ReadFindingFields ==
  ASSUME NEW g, DOMAIN g = DOMAIN Idle, NEW x, NEW y
  PROVE  /\ Filled(g, [g EXCEPT !.findings = x, !.rationale = y], {"findings", "rationale"})
         /\ [g EXCEPT !.findings = x, !.rationale = y].findings = x
<1>1. {"findings", "rationale"} \subseteq DOMAIN g
  BY DEF Idle, Asked
<1>q. QED BY <1>1 DEF Filled

Fills(c, from, to, fields) ==
  /\ at[c] = from /\ at' = [at EXCEPT ![c] = to]
  /\ \E r : got' = [got EXCEPT ![c] = r] /\ Filled(got[c], r, fields)

LEMMA ReadingEffect ==
  ASSUME CallsOK, NEW c \in Client, Reading(c)
  PROVE  /\ UNCHANGED <<record, approvals, order, quiet, copies, tally>>
         /\ \/ /\ Fills(c, "assessment", "links", {"status", "late"})
               /\ got'[c].status = status /\ got'[c].late = late
            \/ Fills(c, "links", "findings", {"links"}) /\ got'[c].links = links
            \/ /\ Fills(c, "findings", "organization", {"findings", "rationale"})
               /\ got'[c].findings = findings
            \/ Fills(c, "organization", "answer", {"name"})
<1>1. c \in DOMAIN got /\ DOMAIN got[c] = DOMAIN Idle
  BY DEF CallsOK
<1>2. CASE ReadAssessment(c)
  <2> DEFINE r == [got[c] EXCEPT !.status = status, !.late = late]
  <2>1. got' = [got EXCEPT ![c] = r]
    BY <1>2 DEF ReadAssessment
  <2>2. Filled(got[c], r, {"status", "late"}) /\ r.status = status /\ r.late = late
    <3>1. StatusRead(got[c], r, status, late)
      BY <1>1, ReadStatusFields
    <3>q. QED BY <3>1 DEF StatusRead
  <2> HIDE DEF r
  <2>q. QED BY <1>1, <1>2, <2>1, <2>2 DEF ReadAssessment, Read, Goto, Fills
<1>3. CASE ReadLinks(c)
  <2> DEFINE r == [got[c] EXCEPT !.links = links]
  <2>1. got' = [got EXCEPT ![c] = r]
    BY <1>3 DEF ReadLinks
  <2>2. Filled(got[c], r, {"links"}) /\ r.links = links
    BY <1>1, ReadFields
  <2> HIDE DEF r
  <2>q. QED BY <1>1, <1>3, <2>1, <2>2 DEF ReadLinks, Read, Goto, Fills
<1>4. CASE ReadFindings(c)
  <2> DEFINE r == [got[c] EXCEPT !.findings = findings, !.rationale = rationale]
  <2>1. got' = [got EXCEPT ![c] = r]
    BY <1>4 DEF ReadFindings
  <2>2. Filled(got[c], r, {"findings", "rationale"}) /\ r.findings = findings
    BY <1>1, ReadFindingFields
  <2> HIDE DEF r
  <2>q. QED BY <1>1, <1>4, <2>1, <2>2 DEF ReadFindings, Read, Goto, Fills
<1>5. CASE ReadOrganization(c)
  <2> DEFINE r == [got[c] EXCEPT !.name = name]
  <2>1. got' = [got EXCEPT ![c] = r]
    BY <1>5 DEF ReadOrganization
  <2>2. Filled(got[c], r, {"name"})
    BY <1>1, ReadFields
  <2> HIDE DEF r
  <2>q. QED BY <1>1, <1>5, <2>1, <2>2 DEF ReadOrganization, Read, Goto, Fills
<1>q. QED BY <1>2, <1>3, <1>4, <1>5 DEF Reading

(* What a call is to do does not change while it reads.                    *)
LEMMA FillsKeeps ==
  ASSUME CallsOK, NEW c \in Client, NEW from, NEW to \in Label, NEW fields, Fills(c, from, to, fields)
  PROVE  /\ at'[c] = to
         /\ UNCHANGED <<quiet, late>> => CallsOK'
         /\ \A d \in Client \ {c} : at'[d] = at[d] /\ got'[d] = got[d]
         /\ \A f \in DOMAIN Idle \ fields : got'[c][f] = got[c][f]
  BY DEF Fills, Filled, CallsOK

LEMMA EndingEffect ==
  ASSUME NEW c \in Client, Ending(c)
  PROVE  /\ at' = [at EXCEPT ![c] = "idle"] /\ got' = [got EXCEPT ![c] = Idle]
         /\ UNCHANGED <<record, order, quiet, tally>>
  BY DEF Ending, StoreApproval, HandOut, HandOutSanitized, Return, Goto

LEMMA VerdictEffect ==
  ASSUME NEW c \in Client, RefuseStale(c) \/ Answer(c)
  PROVE  /\ \E to \in {"refused", "current", "superseded"} : at' = [at EXCEPT ![c] = to]
         /\ UNCHANGED <<record, approvals, order, got, quiet, copies, tally>>
  BY DEF RefuseStale, Answer, Goto

LEMMA CallStep ==
  ASSUME CallsOK, NEW c \in Client, Call(c)
  PROVE  /\ CallsOK'
         /\ UNCHANGED <<record, order, late, restarts>>
         /\ \A d \in Client \ {c} : at'[d] = at[d] /\ got'[d] = got[d] /\ quiet'[d] = quiet[d]
<1> USE DEF tally, writers
<1>1. CASE Beginning(c)
  <2>1. /\ at' = [at EXCEPT ![c] = "assessment"] /\ quiet' = [quiet EXCEPT ![c] = TRUE]
        /\ UNCHANGED <<record, order, late, restarts>>
        /\ \E call : got' = [got EXCEPT ![c] = call] /\ DOMAIN call = DOMAIN Idle
    BY <1>1, BeginningEffect
  <2>2. at' \in [Client -> Label] /\ quiet' \in [Client -> BOOLEAN]
    BY <2>1 DEF CallsOK, Label
  <2>3. DOMAIN got' = Client /\ \A d \in Client : DOMAIN got'[d] = DOMAIN Idle
    BY <2>1 DEF CallsOK
  <2>q. QED BY <2>1, <2>2, <2>3 DEF CallsOK
<1>2. CASE Reading(c)
  <2>1. UNCHANGED <<record, order, quiet, late, restarts>>
    BY <1>2, ReadingEffect
  <2>2. PICK to \in Label : \E from, fields : Fills(c, from, to, fields)
    BY <1>2, ReadingEffect DEF Label
  <2>3. CallsOK' /\ \A d \in Client \ {c} : at'[d] = at[d] /\ got'[d] = got[d]
    <3>1. PICK from, fields : Fills(c, from, to, fields)
      BY <2>2
    <3>q. QED BY <2>1, <3>1, FillsKeeps
  <2>q. QED BY <2>1, <2>3
<1>3. CASE Ending(c)
  BY <1>3, EndingEffect DEF CallsOK, Label
<1>4. CASE RefuseStale(c) \/ Answer(c)
  BY <1>4, VerdictEffect DEF CallsOK, Label
<1>q. QED BY <1>1, <1>2, <1>3, <1>4, CallCases

-----------------------------------------------------------------------------
(* What goes on meanwhile.                                                 *)

Write == (\E w \in Writer : ReviewLinks(w) \/ Judge(w) \/ UpdateStatus(w)) \/ Rename

Checked == \E w \in Writer : CheckWritable(w) \/ CheckTransition(w)

(* A write disturbs every call; one that changes a finalized record is     *)
(* counted.                                                                *)
LEMMA WriteStep ==
  ASSUME CallsOK, Write
  PROVE  /\ CallsOK'
         /\ UNCHANGED <<approvals, order, at, got, copies, restarts>>
         /\ \A c \in Client : at[c] # "idle" => ~ quiet'[c]
         /\ late' \in {late, late + 1}
         /\ status = "finalized" /\ late' = late => UNCHANGED <<links, findings, status>>
<1>1. Written
  BY DEF Write, ReviewLinks, Judge, UpdateStatus, Landed, Rename
<1>2. quiet' \in [Client -> BOOLEAN]
  BY <1>1 DEF Written
<1>3. \/ UNCHANGED <<links, findings, status, late>>
      \/ late' = IF status = "finalized" THEN late + 1 ELSE late
  BY DEF Write, ReviewLinks, Judge, UpdateStatus, Landed, Rename, writers
<1>4. late \in Nat
  BY DEF CallsOK
<1>5. /\ late' \in {late, late + 1} /\ late' \in Nat
      /\ status = "finalized" /\ late' = late => UNCHANGED <<links, findings, status>>
  BY <1>3, <1>4
<1>q. QED BY <1>1, <1>2, <1>5 DEF Written, CallsOK

LEMMA CheckedStep ==
  ASSUME CallsOK, Checked
  PROVE  CallsOK' /\ UNCHANGED <<record, approvals, order, at, got, quiet, copies, late, restarts>>
  BY DEF Checked, CheckWritable, CheckTransition, Clear, serving, CallsOK

LEMMA RestartStep ==
  ASSUME CallsOK, Restart
  PROVE  /\ CallsOK'
         /\ UNCHANGED <<record, approvals, copies, late>>
         /\ restarts' = restarts + 1
         /\ \A c \in Client : at'[c] = "idle" /\ got'[c] = Idle
<1>1. at' \in [Client -> Label] /\ quiet' \in [Client -> BOOLEAN]
  BY DEF Restart, Label
<1>q. QED BY <1>1 DEF Restart, CallsOK

LEMMA NextCases ==
  ASSUME [ExportsNext]_all
  PROVE  (\E c \in Client : Call(c)) \/ Write \/ Checked \/ Restart \/ UNCHANGED all
  BY DEF ExportsNext, Write, Checked

LEMMA InitCalls == ExportsInit => CallsOK
<1> SUFFICES ASSUME ExportsInit PROVE CallsOK
  OBVIOUS
<1>1. at \in [Client -> Label] /\ quiet \in [Client -> BOOLEAN]
  BY DEF ExportsInit, Label
<1>q. QED BY <1>1 DEF ExportsInit, CallsOK

LEMMA CallsStep == CallsOK /\ [ExportsNext]_all => CallsOK'
<1> SUFFICES ASSUME CallsOK, [ExportsNext]_all PROVE CallsOK'
  OBVIOUS
<1>1. CASE UNCHANGED all
  BY <1>1 DEF all, serving, tally, writers, CallsOK
<1>q. QED BY <1>1, NextCases, CallStep, WriteStep, CheckedStep, RestartStep

-----------------------------------------------------------------------------
(* Sanitized copies.                                                       *)

Rows == {approvals[i] : i \in DOMAIN approvals}

(* The rows of a table that only grows.                                    *)
TableOK == \E S : approvals \in Seq(S)

LEMMA RowAdded ==
  ASSUME TableOK, NEW row, approvals' = Append(approvals, row)
  PROVE  TableOK' /\ Rows' = Rows \cup {row}
<1>1. PICK S : approvals \in Seq(S)
  BY DEF TableOK
<1>2. approvals \in Seq(S \cup {row})
  BY <1>1, SeqDef
<1>3. /\ approvals' \in Seq(S \cup {row})
      /\ DOMAIN approvals = 1..Len(approvals) /\ Len(approvals) \in Nat
      /\ DOMAIN approvals' = 1..(Len(approvals) + 1)
      /\ \A i \in 1..Len(approvals) : approvals'[i] = approvals[i]
      /\ approvals'[Len(approvals) + 1] = row
  BY <1>2, AppendProperties, LenProperties
<1>q. QED BY <1>3 DEF TableOK, Rows

LEMMA LastRow ==
  ASSUME TableOK, approvals # <<>>
  PROVE  approvals[Len(approvals)] \in Rows
<1>1. PICK S : approvals \in Seq(S)
  BY DEF TableOK
<1>2. Len(approvals) \in DOMAIN approvals
  BY <1>1, LenProperties, EmptySeq
<1>q. QED BY <1>2 DEF Rows

Sanitizing(c) ==
  got[c].kind = "sanitized" =>
    got[c].approved \in Rows /\ got[c].terms = got[c].approved.terms

Refused(c) == at[c] = "refused" => got[c].kind = "sanitized" /\ Stale(c)

(* A hash was taken with the order of the phrases of its process.          *)
RowOK(row) ==
  /\ row.epoch \in Nat /\ row.epoch <= restarts
  /\ row.epoch = restarts => row.hash = Sanitize(row.of, row.terms)

CopyOK(copy) == copy.kind = "sanitized" => \E row \in Rows : row.hash = copy.report

SanitizedInv ==
  /\ TableOK /\ restarts \in Nat
  /\ \A c \in Client : Sanitizing(c) /\ Refused(c)
  /\ \A row \in Rows : RowOK(row)
  /\ \A copy \in copies : CopyOK(copy)

LEMMA SanitizeFixed ==
  ASSUME order' = order
  PROVE  /\ \A report, terms : Sanitize(report, terms)' = Sanitize(report, terms)
         /\ \A c : got'[c] = got[c] => Stale(c)' = Stale(c)
<1>1. \A report, terms : Sanitize(report, terms)' = Sanitize(report, terms)
  BY DEF Sanitize, Hide, Pseudonym
<1>q. QED BY <1>1 DEF Stale

LEMMA InitSanitized == ExportsInit => SanitizedInv
<1> SUFFICES ASSUME ExportsInit PROVE SanitizedInv
  OBVIOUS
<1>1. \A c \in Client : got[c].kind = "none" /\ at[c] = "idle"
  BY DEF ExportsInit, Idle, Asked
<1>2. approvals \in Seq({}) /\ Rows = {}
  BY EmptySeq DEF ExportsInit, Rows
<1>q. QED BY <1>1, <1>2 DEF ExportsInit, SanitizedInv, TableOK, Sanitizing, Refused

(* Other calls do not matter, as approvals are only added.                 *)
LEMMA OthersSanitized ==
  ASSUME SanitizedInv, NEW d \in Client,
         at'[d] = at[d], got'[d] = got[d], order' = order, Rows \subseteq Rows'
  PROVE  Sanitizing(d)' /\ Refused(d)'
<1>1. Stale(d)' = Stale(d)
  BY SanitizeFixed
<1>2. Sanitizing(d) /\ Refused(d)
  BY DEF SanitizedInv
<1>q. QED BY <1>1, <1>2 DEF Sanitizing, Refused

(* What a call adds must be right, and so must what it then is.            *)
LEMMA SanitizedFrame ==
  ASSUME CallsOK, SanitizedInv, NEW c \in Client, Call(c),
         TableOK', Rows \subseteq Rows',
         \A row \in Rows' \ Rows : RowOK(row),
         \A copy \in copies' \ copies : CopyOK(copy),
         Sanitizing(c)' /\ Refused(c)'
  PROVE  SanitizedInv'
<1>1. /\ order' = order /\ restarts' = restarts
      /\ \A d \in Client \ {c} : at'[d] = at[d] /\ got'[d] = got[d]
  BY CallStep
<1>2. \A d \in Client : Sanitizing(d)' /\ Refused(d)'
  BY <1>1, OthersSanitized
<1>3. ASSUME NEW row, RowOK(row) PROVE RowOK(row)'
  BY <1>1, <1>3, SanitizeFixed DEF RowOK
<1>4. ASSUME NEW copy, CopyOK(copy) PROVE CopyOK(copy)'
  BY <1>4 DEF CopyOK
<1>5. \A row \in Rows' : RowOK(row)'
  BY <1>3 DEF SanitizedInv
<1>6. \A copy \in copies' : CopyOK(copy)'
  BY <1>4 DEF SanitizedInv
<1>7. restarts' \in Nat
  BY <1>1 DEF SanitizedInv
<1>q. QED BY <1>2, <1>5, <1>6, <1>7 DEF SanitizedInv

LEMMA CallSanitized ==
  ASSUME CallsOK, SanitizedInv, NEW c \in Client, Call(c)
  PROVE  SanitizedInv'
<1>1. c \in DOMAIN at /\ c \in DOMAIN got /\ Sanitizing(c) /\ Refused(c) /\ TableOK
  BY DEF CallsOK, SanitizedInv
<1>2. CASE UNCHANGED <<approvals, copies>> /\ Sanitizing(c)' /\ Refused(c)'
  <2>1. TableOK' /\ Rows' = Rows /\ copies' = copies
    BY <1>1, <1>2 DEF TableOK, Rows
  <2>q. QED BY <1>2, <2>1, SanitizedFrame
<1>3. CASE Beginning(c)
  <2>1. PICK call :
          /\ got' = [got EXCEPT ![c] = call]
          /\ \/ call.kind \in {"approve", "export"}
             \/ /\ call.kind = "sanitized" /\ approvals # <<>>
                /\ call.approved = approvals[Len(approvals)]
                /\ call.terms = call.approved.terms
             \/ call.kind = "check" /\ call.copy \in copies
    BY <1>3, BeginningEffect
  <2>2. got'[c] = call /\ at'[c] = "assessment" /\ UNCHANGED <<approvals, copies>>
    BY <1>1, <1>3, <2>1, BeginningEffect
  <2>3. Rows' = Rows
    BY <2>2 DEF Rows
  <2>4. call.kind = "sanitized" => call.approved \in Rows /\ call.terms = call.approved.terms
    BY <1>1, <2>1, LastRow
  <2>q. QED BY <1>2, <2>2, <2>3, <2>4 DEF Sanitizing, Refused
<1>4. CASE Reading(c)
  <2>1. UNCHANGED <<approvals, copies>>
    BY <1>4, ReadingEffect
  <2>2. PICK to \in {"links", "findings", "organization", "answer"},
             fields \in SUBSET {"status", "late", "links", "findings", "rationale", "name"} :
          \E from : Fills(c, from, to, fields)
    BY <1>4, ReadingEffect
  <2>3. to \in Label /\ {"kind", "terms", "approved"} \subseteq DOMAIN Idle \ fields
    BY DEF Label, Idle, Asked
  <2>4. /\ got'[c].kind = got[c].kind /\ got'[c].terms = got[c].terms
        /\ got'[c].approved = got[c].approved /\ at'[c] = to
    BY <2>2, <2>3, FillsKeeps
  <2>5. Rows' = Rows
    BY <2>1 DEF Rows
  <2>q. QED BY <1>1, <1>2, <2>1, <2>4, <2>5 DEF Sanitizing, Refused
<1>5. CASE Ending(c)
  <2>1. got'[c].kind = "none" /\ at'[c] = "idle"
    BY <1>1, <1>5, EndingEffect DEF Idle, Asked
  <2>2. Sanitizing(c)' /\ Refused(c)'
    BY <2>1 DEF Sanitizing, Refused
  <2>3. CASE StoreApproval(c)
    <3> DEFINE row == Approval(Dashboard(got[c]), got[c].terms)
    <3>1. approvals' = Append(approvals, row) /\ copies' = copies
      BY <2>3 DEF StoreApproval
    <3>2. RowOK(row)
      BY DEF RowOK, Approval, SanitizedInv
    <3> HIDE DEF row
    <3>3. TableOK' /\ Rows' = Rows \cup {row} /\ copies' = copies
      BY <1>1, <3>1, RowAdded
    <3>q. QED BY <2>2, <3>2, <3>3, SanitizedFrame
  <2>4. CASE HandOut(c) \/ HandOutSanitized(c)
    <3>1. PICK copy : copies' = copies \cup {copy} /\ approvals' = approvals /\ CopyOK(copy)
      <4>1. CASE HandOut(c)
        <5> DEFINE copy == Copy("export", c, Dashboard(got[c]))
        <5>1. copies' = copies \cup {copy} /\ approvals' = approvals
          BY <4>1 DEF HandOut
        <5>2. copy.kind # "sanitized"
          BY DEF Copy
        <5>q. QED BY <5>1, <5>2 DEF CopyOK
      <4>2. CASE HandOutSanitized(c)
        <5>1. got[c].approved \in Rows /\ got[c].terms = got[c].approved.terms
          BY <1>1, <4>2 DEF HandOutSanitized, Sanitizing
        <5> DEFINE copy == Copy("sanitized", c, Sanitize(Dashboard(got[c]), got[c].terms))
        <5>2. copies' = copies \cup {copy} /\ approvals' = approvals
          BY <4>2 DEF HandOutSanitized
        <5>3. copy.report = got[c].approved.hash
          BY <4>2 DEF HandOutSanitized, Stale, Copy
        <5>q. QED BY <5>1, <5>2, <5>3 DEF CopyOK
      <4>q. QED BY <2>4, <4>1, <4>2
    <3>2. TableOK' /\ Rows' = Rows
      BY <1>1, <3>1 DEF TableOK, Rows
    <3>q. QED BY <2>2, <3>1, <3>2, SanitizedFrame
  <2>5. CASE Return(c)
    BY <1>2, <2>2, <2>5 DEF Return
  <2>q. QED BY <1>5, <2>3, <2>4, <2>5 DEF Ending
<1>6. CASE RefuseStale(c) \/ Answer(c)
  <2>1. UNCHANGED <<approvals, order, got, copies>>
    BY <1>6, VerdictEffect
  <2>2. Rows' = Rows /\ Stale(c)' = Stale(c)
    BY <2>1, SanitizeFixed DEF Rows
  <2>3. at'[c] = "refused" => got[c].kind = "sanitized" /\ Stale(c)
    BY <1>1, <1>6 DEF RefuseStale, Answer, Goto
  <2>q. QED BY <1>1, <1>2, <2>1, <2>2, <2>3 DEF Sanitizing, Refused
<1>q. QED BY <1>3, <1>4, <1>5, <1>6, CallCases

LEMMA SanitizedStep ==
  ASSUME CallsOK, SanitizedInv, [ExportsNext]_all
  PROVE  SanitizedInv'
<1>1. CASE UNCHANGED <<approvals, order, at, got, copies, restarts>>
  <2>1. Rows' = Rows /\ TableOK'
    BY <1>1 DEF Rows, TableOK, SanitizedInv
  <2>2. \A c \in Client : Sanitizing(c)' /\ Refused(c)'
    BY <1>1, <2>1, OthersSanitized
  <2>3. \A row : RowOK(row)' = RowOK(row)
    BY <1>1, SanitizeFixed DEF RowOK
  <2>4. \A copy : CopyOK(copy)' = CopyOK(copy)
    BY <2>1 DEF CopyOK
  <2>q. QED BY <1>1, <2>1, <2>2, <2>3, <2>4 DEF SanitizedInv
<1>2. CASE Write \/ Checked
  BY <1>1, <1>2, WriteStep, CheckedStep
<1>3. CASE Restart
  <2>1. UNCHANGED <<approvals, copies>> /\ restarts' = restarts + 1
    BY <1>3, RestartStep
  <2>2. Rows' = Rows /\ TableOK' /\ restarts' \in Nat
    BY <2>1 DEF Rows, TableOK, SanitizedInv
  <2>3. \A c \in Client : Sanitizing(c)' /\ Refused(c)'
    BY <1>3, RestartStep DEF Sanitizing, Refused, Idle, Asked
  <2>4. \A row \in Rows : RowOK(row)'
    BY <2>1 DEF RowOK, SanitizedInv
  <2>5. \A copy : CopyOK(copy)' = CopyOK(copy)
    BY <2>2 DEF CopyOK
  <2>q. QED BY <2>1, <2>2, <2>3, <2>4, <2>5 DEF SanitizedInv
<1>4. CASE UNCHANGED all
  BY <1>1, <1>4 DEF all, serving, tally
<1>q. QED BY <1>2, <1>3, <1>4, CallSanitized, NextCases

LEMMA SanitizedCorrect == ExportsSpec => [](CallsOK /\ SanitizedInv)
<1>1. ExportsInit => CallsOK /\ SanitizedInv
  BY InitCalls, InitSanitized
<1>2. CallsOK /\ SanitizedInv /\ [ExportsNext]_all => CallsOK' /\ SanitizedInv'
  BY CallsStep, SanitizedStep
<1>q. QED BY <1>1, <1>2, PTL DEF ExportsSpec

(* ADR-0032, for any number of calls, writes and restarts: what leaves as  *)
(* a sanitized copy is what somebody approved, to the last figure.         *)
THEOREM ExportWasApprovedTheorem == ExportsSpec => []ExportWasApproved
<1>1. SanitizedInv => ExportWasApproved
  BY DEF SanitizedInv, CopyOK, Rows, ExportWasApproved
<1>q. QED BY <1>1, SanitizedCorrect, PTL

(* An approval is found stale only when the content has changed, or when   *)
(* the server was started again since.                                     *)
THEOREM StaleOnlyIfChangedTheorem == ExportsSpec => []StaleOnlyIfChanged
<1>1. SanitizedInv => StaleOnlyIfChanged
  <2> SUFFICES ASSUME SanitizedInv, NEW c \in Client, at[c] = "refused",
                      Dashboard(got[c]) = got[c].approved.of,
                      restarts = got[c].approved.epoch
               PROVE  FALSE
    BY DEF StaleOnlyIfChanged
  <2>1. /\ Stale(c) /\ got[c].approved \in Rows /\ got[c].terms = got[c].approved.terms
    BY DEF SanitizedInv, Refused, Sanitizing
  <2>2. got[c].approved.hash = Sanitize(got[c].approved.of, got[c].approved.terms)
    BY <2>1 DEF SanitizedInv, RowOK
  <2>q. QED BY <2>1, <2>2 DEF Stale
<1>q. QED BY <1>1, SanitizedCorrect, PTL

-----------------------------------------------------------------------------
(* Copies of what is finalized, and whether a copy is current.             *)

HasStatus(c) == at[c] \notin {"idle", "assessment"}
HasLinks(c) == HasStatus(c) /\ at[c] # "links"
HasFindings(c) == HasLinks(c) /\ at[c] # "findings"

(* What a call has read is what is stored.                                 *)
AsOfNow(c) ==
  /\ HasStatus(c) => got[c].status = status
  /\ HasLinks(c) => got[c].links = links
  /\ HasFindings(c) => got[c].findings = findings

(* The figures of a report are those of some links and findings.           *)
FiguresOf(l, f) ==
  <<From(l, f)!Situation, From(l, f)!Complication, From(l, f)!DomainProgress(Model),
    From(l, f)!Overall(Model), From(l, f)!Scores[Model]>>

(* No write has landed on the finalized record since the status was read.  *)
Untouched(noted) == noted.status = "finalized" /\ noted.late = late

FinalCopy(copy) ==
  /\ copy.late \in Nat /\ copy.late <= late
  /\ \E l, f : Figures(copy.report) = FiguresOf(l, f)
  /\ copy.report.status = "finalized" /\ copy.late = late =>
       status = "finalized" /\ Figures(copy.report) = FiguresOf(links, findings)

(* The status is read first: what is read after it is final as well.       *)
FinalCall(c) ==
  HasStatus(c) => /\ got[c].late \in Nat /\ got[c].late <= late
                  /\ Untouched(got[c]) => status = "finalized" /\ AsOfNow(c)

DigestHeld(c) == SameDigest(Dashboard(got[c]), got[c].copy.report)

(* A copy that is checked is one that was handed out before, so that the   *)
(* status of a finalized one is found again.                               *)
Checking(c) ==
  /\ got[c].kind = "check" => got[c].copy \in copies
  /\ /\ got[c].kind = "check" /\ HasStatus(c)
     /\ got[c].copy.report.status = "finalized" /\ got[c].copy.late = late
     => Untouched(got[c])
  /\ at[c] = "current" => got[c].kind = "check" /\ DigestHeld(c)
  /\ at[c] = "superseded" => got[c].kind = "check" /\ ~ DigestHeld(c)

CurrencyInv ==
  /\ \A copy \in copies : FinalCopy(copy)
  /\ \A c \in Client : FinalCall(c) /\ Checking(c) /\ (quiet[c] => AsOfNow(c))

(* The figures of a report whose parts were read at different times.       *)
LEMMA FiguresRead ==
  ASSUME NEW g
  PROVE  Dashboard(g).status = g.status /\ Figures(Dashboard(g)) = FiguresOf(g.links, g.findings)
  BY DEF Dashboard, Figures, FiguresOf

LEMMA SanitizeKeeps ==
  ASSUME NEW g, NEW terms
  PROVE  /\ Sanitize(Dashboard(g), terms).status = Dashboard(g).status
         /\ Figures(Sanitize(Dashboard(g), terms)) = Figures(Dashboard(g))
  BY DEF Sanitize, Dashboard, Figures

LEMMA InitCurrency == ExportsInit => CurrencyInv
<1> SUFFICES ASSUME ExportsInit PROVE CurrencyInv
  OBVIOUS
<1>1. \A c \in Client : got[c].kind = "none" /\ at[c] = "idle"
  BY DEF ExportsInit, Idle, Asked
<1>q. QED
  BY <1>1 DEF ExportsInit, CurrencyInv, FinalCall, Checking, AsOfNow, HasFindings, HasLinks,
              HasStatus

LEMMA RecordFixed ==
  ASSUME UNCHANGED <<links, findings, status, late>>
  PROVE  \A copy : FinalCopy(copy)' = FinalCopy(copy)
<1>1. FiguresOf(links, findings)' = FiguresOf(links, findings)
  BY DEF FiguresOf
<1>q. QED BY <1>1 DEF FinalCopy

LEMMA OthersCurrent ==
  ASSUME CurrencyInv, NEW d \in Client,
         at'[d] = at[d], got'[d] = got[d], quiet'[d] => quiet[d], copies \subseteq copies',
         UNCHANGED <<links, findings, status, late>>
  PROVE  FinalCall(d)' /\ Checking(d)' /\ (quiet'[d] => AsOfNow(d)')
<1>1. FinalCall(d) /\ Checking(d) /\ (quiet[d] => AsOfNow(d))
  BY DEF CurrencyInv
<1>2. DigestHeld(d)' = DigestHeld(d)
  BY DEF DigestHeld
<1>q. QED BY <1>1, <1>2 DEF FinalCall, Untouched, Checking, AsOfNow, HasFindings, HasLinks, HasStatus

(* What a call hands out must be right, and so must what it then knows.    *)
LEMMA CurrencyFrame ==
  ASSUME CallsOK, CurrencyInv, NEW c \in Client, Call(c), copies \subseteq copies',
         \A copy \in copies' \ copies : FinalCopy(copy),
         FinalCall(c)' /\ Checking(c)' /\ (quiet'[c] => AsOfNow(c)')
  PROVE  CurrencyInv'
<1>1. /\ UNCHANGED <<links, findings, status, late>>
      /\ \A d \in Client \ {c} : at'[d] = at[d] /\ got'[d] = got[d] /\ quiet'[d] = quiet[d]
  BY CallStep DEF record
<1>2. \A d \in Client : FinalCall(d)' /\ Checking(d)' /\ (quiet'[d] => AsOfNow(d)')
  BY <1>1, OthersCurrent
<1>3. \A copy \in copies' : FinalCopy(copy)'
  BY <1>1, RecordFixed DEF CurrencyInv
<1>q. QED BY <1>2, <1>3 DEF CurrencyInv

LEMMA ReadingCurrency ==
  ASSUME CallsOK, CurrencyInv, NEW c \in Client, Reading(c)
  PROVE  FinalCall(c)' /\ Checking(c)' /\ (quiet'[c] => AsOfNow(c)')
<1> USE DEF HasStatus, HasLinks, HasFindings
<1>1. UNCHANGED <<links, findings, status, late, quiet, copies>>
  BY ReadingEffect DEF record, tally, writers
<1>2. FinalCall(c) /\ Checking(c) /\ (quiet[c] => AsOfNow(c))
  BY DEF CurrencyInv
<1>3. /\ got[c].kind = "check" /\ got[c].copy.report.status = "finalized" /\ got[c].copy.late = late
         => status = "finalized"
      /\ late \in Nat
  BY <1>2 DEF CurrencyInv, FinalCopy, Checking, CallsOK
<1>4. DOMAIN Idle =
        {"kind", "terms", "approved", "copy", "status", "late", "links", "findings", "rationale",
         "name"}
  BY DEF Idle, Asked
<1>5. CASE /\ Fills(c, "assessment", "links", {"status", "late"})
           /\ got'[c].status = status /\ got'[c].late = late
  <2>1. \A f \in DOMAIN Idle \ {"status", "late"} : got'[c][f] = got[c][f]
    BY <1>5 DEF Fills, Filled, CallsOK
  <2>2. /\ at'[c] = "links" /\ got'[c].kind = got[c].kind /\ got'[c].copy = got[c].copy
    BY <1>4, <1>5, <2>1 DEF Fills, CallsOK
  <2>q. QED BY <1>1, <1>2, <1>3, <1>5, <2>2 DEF FinalCall, Untouched, Checking, AsOfNow
<1>6. CASE Fills(c, "links", "findings", {"links"}) /\ got'[c].links = links
  <2>1. \A f \in DOMAIN Idle \ {"links"} : got'[c][f] = got[c][f]
    BY <1>6 DEF Fills, Filled, CallsOK
  <2>2. /\ at[c] = "links" /\ at'[c] = "findings" /\ got'[c].kind = got[c].kind
        /\ got'[c].copy = got[c].copy /\ got'[c].status = got[c].status
        /\ got'[c].late = got[c].late
    BY <1>4, <1>6, <2>1 DEF Fills, CallsOK
  <2>q. QED BY <1>1, <1>2, <1>6, <2>2 DEF FinalCall, Untouched, Checking, AsOfNow
<1>7. CASE /\ Fills(c, "findings", "organization", {"findings", "rationale"})
           /\ got'[c].findings = findings
  <2>1. \A f \in DOMAIN Idle \ {"findings", "rationale"} : got'[c][f] = got[c][f]
    BY <1>7 DEF Fills, Filled, CallsOK
  <2>2. /\ at[c] = "findings" /\ at'[c] = "organization" /\ got'[c].kind = got[c].kind
        /\ got'[c].copy = got[c].copy /\ got'[c].status = got[c].status
        /\ got'[c].late = got[c].late
        /\ got'[c].links = got[c].links
    BY <1>4, <1>7, <2>1 DEF Fills, CallsOK
  <2>q. QED BY <1>1, <1>2, <1>7, <2>2 DEF FinalCall, Untouched, Checking, AsOfNow
<1>8. CASE Fills(c, "organization", "answer", {"name"})
  <2>1. \A f \in DOMAIN Idle \ {"name"} : got'[c][f] = got[c][f]
    BY <1>8 DEF Fills, Filled, CallsOK
  <2>2. /\ at[c] = "organization" /\ at'[c] = "answer" /\ got'[c].kind = got[c].kind
        /\ got'[c].copy = got[c].copy /\ got'[c].status = got[c].status
        /\ got'[c].late = got[c].late
        /\ got'[c].links = got[c].links /\ got'[c].findings = got[c].findings
    BY <1>4, <1>8, <2>1 DEF Fills, CallsOK
  <2>q. QED BY <1>1, <1>2, <2>2 DEF FinalCall, Untouched, Checking, AsOfNow
<1>q. QED BY <1>5, <1>6, <1>7, <1>8, ReadingEffect

LEMMA CallCurrency ==
  ASSUME CallsOK, CurrencyInv, NEW c \in Client, Call(c)
  PROVE  CurrencyInv'
<1> USE DEF HasStatus, HasLinks, HasFindings
<1>1. c \in DOMAIN at /\ c \in DOMAIN got /\ FinalCall(c) /\ Checking(c)
  BY DEF CallsOK, CurrencyInv
<1>2. UNCHANGED <<links, findings, status, late>>
  BY CallStep DEF record
<1>3. CASE Beginning(c)
  <2>1. UNCHANGED copies /\ at'[c] = "assessment"
    BY <1>1, <1>3, BeginningEffect
  <2>2. got'[c].kind = "check" => got'[c].copy \in copies
    BY <1>1, <1>3, BeginningEffect
  <2>3. FinalCall(c)' /\ Checking(c)' /\ AsOfNow(c)'
    BY <2>1, <2>2 DEF FinalCall, Checking, AsOfNow
  <2>q. QED BY <2>1, <2>3, CurrencyFrame
<1>4. CASE Reading(c)
  <2>1. copies' = copies
    BY <1>4, ReadingEffect
  <2>q. QED BY <1>4, <2>1, ReadingCurrency, CurrencyFrame
<1>5. CASE Ending(c)
  <2>1. got'[c].kind = "none" /\ at'[c] = "idle"
    BY <1>1, <1>5, EndingEffect DEF Idle, Asked
  <2>2. FinalCall(c)' /\ Checking(c)' /\ AsOfNow(c)'
    BY <2>1 DEF FinalCall, Checking, AsOfNow
  <2>3. CASE StoreApproval(c) \/ Return(c)
    <3>1. copies' = copies
      BY <2>3 DEF StoreApproval, Return
    <3>q. QED BY <2>2, <3>1, CurrencyFrame
  <2>4. CASE HandOut(c) \/ HandOutSanitized(c)
    <3>1. PICK kind, report :
            /\ copies' = copies \cup {Copy(kind, c, report)}
            /\ report.status = Dashboard(got[c]).status
            /\ Figures(report) = Figures(Dashboard(got[c]))
      BY <2>4, SanitizeKeeps DEF HandOut, HandOutSanitized
    <3> DEFINE copy == Copy(kind, c, report)
    <3>2. copy.report = report /\ copy.late = got[c].late
      BY DEF Copy
    <3>3. at[c] = "answer"
      BY <2>4 DEF HandOut, HandOutSanitized
    <3>4. /\ report.status = got[c].status
          /\ Figures(report) = FiguresOf(got[c].links, got[c].findings)
      BY <3>1, FiguresRead
    <3> HIDE DEF copy
    <3>5. FinalCopy(copy)
      BY <1>1, <3>2, <3>3, <3>4 DEF FinalCopy, FinalCall, Untouched, AsOfNow
    <3>q. QED BY <2>2, <3>1, <3>5, CurrencyFrame DEF copy
  <2>q. QED BY <1>5, <2>3, <2>4 DEF Ending
<1>6. CASE RefuseStale(c) \/ Answer(c)
  <2>1. UNCHANGED <<got, quiet, copies>> /\ at[c] = "answer"
    BY <1>6, VerdictEffect DEF RefuseStale, Answer
  <2>2. at'[c] \in {"refused", "current", "superseded"}
    BY <1>1, <1>6, VerdictEffect
  <2>3. /\ at'[c] = "current" => got[c].kind = "check" /\ DigestHeld(c)
        /\ at'[c] = "superseded" => got[c].kind = "check" /\ ~ DigestHeld(c)
    BY <1>1, <1>6 DEF RefuseStale, Answer, Goto, DigestHeld
  <2>4. DigestHeld(c)' = DigestHeld(c)
    BY <2>1 DEF DigestHeld
  <2>5. quiet[c] => AsOfNow(c)
    BY DEF CurrencyInv
  <2>6. FinalCall(c)' /\ Checking(c)' /\ (quiet'[c] => AsOfNow(c)')
    BY <1>1, <1>2, <2>1, <2>2, <2>3, <2>4, <2>5 DEF FinalCall, Untouched, Checking, AsOfNow
  <2>q. QED BY <2>1, <2>6, CurrencyFrame
<1>q. QED BY <1>3, <1>4, <1>5, <1>6, CallCases

LEMMA WriteCurrency ==
  ASSUME CallsOK, CurrencyInv, Write
  PROVE  CurrencyInv'
<1> USE DEF HasStatus, HasLinks, HasFindings
<1>1. /\ UNCHANGED <<at, got, copies>>
      /\ \A c \in Client : at[c] # "idle" => ~ quiet'[c]
      /\ late' \in {late, late + 1} /\ late \in Nat
      /\ status = "finalized" /\ late' = late => UNCHANGED <<links, findings, status>>
  BY WriteStep DEF CallsOK
<1>2. ASSUME NEW copy \in copies PROVE FinalCopy(copy)'
  <2>1. FinalCopy(copy)
    BY DEF CurrencyInv
  <2>2. copy.late \in Nat /\ copy.late <= late' /\ (copy.late = late' => late' = late)
    BY <1>1, <2>1 DEF FinalCopy
  <2>3. status = "finalized" /\ late' = late =>
          status' = "finalized" /\ FiguresOf(links, findings)' = FiguresOf(links, findings)
    BY <1>1 DEF FiguresOf
  <2>q. QED BY <2>1, <2>2, <2>3 DEF FinalCopy
<1>3. ASSUME NEW c \in Client
      PROVE  FinalCall(c)' /\ Checking(c)' /\ (quiet'[c] => AsOfNow(c)')
  <2>1. FinalCall(c) /\ Checking(c)
    BY DEF CurrencyInv
  <2>2. DigestHeld(c)' = DigestHeld(c)
    BY <1>1 DEF DigestHeld
  <2>3. FinalCall(c)'
    BY <1>1, <2>1 DEF FinalCall, Untouched, AsOfNow
  <2>4. got[c].kind = "check" => got[c].copy.late \in Nat /\ got[c].copy.late <= late
    BY <2>1 DEF Checking, CurrencyInv, FinalCopy
  <2>5. Checking(c)'
    BY <1>1, <2>1, <2>2, <2>4 DEF Checking, Untouched
  <2>6. quiet'[c] => AsOfNow(c)'
    BY <1>1 DEF AsOfNow
  <2>q. QED BY <2>3, <2>5, <2>6
<1>q. QED BY <1>1, <1>2, <1>3 DEF CurrencyInv

LEMMA CurrencyStep ==
  ASSUME CallsOK, CurrencyInv, [ExportsNext]_all
  PROVE  CurrencyInv'
<1>1. CASE Restart
  <2>1. UNCHANGED <<links, findings, status, late, copies>>
    BY <1>1, RestartStep DEF record
  <2>2. \A c \in Client : at'[c] = "idle" /\ got'[c].kind = "none"
    BY <1>1, RestartStep DEF Idle, Asked
  <2>3. \A c \in Client : FinalCall(c)' /\ Checking(c)' /\ AsOfNow(c)'
    BY <2>2 DEF FinalCall, Checking, AsOfNow, HasStatus, HasLinks, HasFindings
  <2>q. QED BY <2>1, <2>3, RecordFixed DEF CurrencyInv
<1>2. CASE UNCHANGED <<links, findings, status, late, at, got, quiet, copies>>
  <2>1. \A d \in Client : FinalCall(d)' /\ Checking(d)' /\ (quiet'[d] => AsOfNow(d)')
    BY <1>2, OthersCurrent
  <2>q. QED BY <1>2, <2>1, RecordFixed DEF CurrencyInv
<1>3. CASE Checked \/ UNCHANGED all
  BY <1>2, <1>3, CheckedStep DEF all, record, serving, tally, writers
<1>q. QED BY <1>1, <1>3, CallCurrency, WriteCurrency, NextCases

LEMMA CurrencyCorrect == ExportsSpec => []CurrencyInv
<1>1. ExportsInit => CallsOK /\ CurrencyInv
  BY InitCalls, InitCurrency
<1>2. CallsOK /\ CurrencyInv /\ [ExportsNext]_all => CallsOK' /\ CurrencyInv'
  BY CallsStep, CurrencyStep
<1>q. QED BY <1>1, <1>2, PTL DEF ExportsSpec

(* A copy that says it is of a finalized assessment shows the figures of   *)
(* the finalized record, whatever was written while it was built, unless a *)
(* write landed late since.                                                *)
THEOREM FinalizedCopyIsFinalTheorem == ExportsSpec => []FinalizedCopyIsFinal
<1>1. Figures(Now) = FiguresOf(links, findings)
  BY FiguresRead DEF Now
<1>2. CurrencyInv => FinalizedCopyIsFinal
  BY <1>1 DEF CurrencyInv, FinalCopy, FinalizedCopyIsFinal
<1>q. QED BY <1>2, CurrencyCorrect, PTL

-----------------------------------------------------------------------------
(* What the digest tells apart.                                            *)

UnmetIn(complication, d) == {p \in AllUnmet(complication) : DomainOf[p] = d}

(* The unmet practices tell which domains have gaps, and which they are.   *)
LEMMA UnmetByDomain ==
  ASSUME NEW l, NEW f
  PROVE  LET shown == From(l, f)!Complication
         IN  /\ DOMAIN shown = From(l, f)!WithGaps
             /\ \A d \in From(l, f)!WithGaps : Unmet(shown)[d] = From(l, f)!Gaps(d)
             /\ Unmet(shown) =
                  [d \in {e \in Domain : UnmetIn(shown, e) # {}} |-> UnmetIn(shown, d)]
<1> DEFINE shown   == From(l, f)!Complication
           W       == From(l, f)!WithGaps
           gaps(d) == From(l, f)!Gaps(d)
<1>1. DOMAIN shown = W
  BY DEF From!Complication
<1>2. ASSUME NEW d \in W PROVE {item.practice : item \in shown[d].gaps} = gaps(d)
  <2>1. shown[d].gaps = {From(l, f)!GapItem(p) : p \in gaps(d)}
    BY <1>2 DEF From!Complication, From!GapGroup
  <2>2. \A p : From(l, f)!GapItem(p).practice = p
    BY DEF From!GapItem
  <2> HIDE DEF shown, gaps
  <2>q. QED BY <2>1, <2>2
<1>3. Unmet(shown) = [d \in W |-> gaps(d)]
  <2>1. Unmet(shown) = [d \in DOMAIN shown |-> {item.practice : item \in shown[d].gaps}]
    BY DEF Unmet
  <2> HIDE DEF shown, gaps, W
  <2>q. QED BY <1>1, <1>2, <2>1
<1>4. /\ W = {d \in Domain : d \in W}
      /\ \A d \in W : gaps(d) # {} /\ \A p \in gaps(d) : DomainOf[p] = d
  BY DEF From!WithGaps, From!Populated, From!Gaps, From!Applicable, From!PracticesOf
<1>5. AllUnmet(shown) = UNION {gaps(d) : d \in W}
  <2>1. Range([d \in W |-> gaps(d)]) = {gaps(d) : d \in W}
    BY DEF Range
  <2>q. QED BY <1>3, <2>1 DEF AllUnmet
<1> HIDE DEF shown, gaps, W
<1>6. \A d \in Domain : UnmetIn(shown, d) = IF d \in W THEN gaps(d) ELSE {}
  BY <1>4, <1>5 DEF UnmetIn
<1>7. W = {e \in Domain : UnmetIn(shown, e) # {}}
  BY <1>4, <1>6
<1>8. \A d \in W : UnmetIn(shown, d) = gaps(d)
  BY <1>4, <1>6
<1>9. Unmet(shown) = [d \in {e \in Domain : UnmetIn(shown, e) # {}} |-> UnmetIn(shown, d)]
  BY <1>3, <1>7, <1>8
<1>q. QED BY <1>1, <1>3, <1>9 DEF shown, gaps, W

(* Gaps at a level, and the first level that has any.                      *)
Stops(gaps) ==
  LET none(n) == {p \in gaps : Mil[p] = n} = {}
  IN  {n \in Level : ~none(n) /\ \A m \in Level : m < n => none(m)}

LEMMA SameCardinality == \A l, f, S : From(l, f)!Cardinality(S) = Cardinality(S)
  BY DEF From!Cardinality, Cardinality

(* In a domain with gaps, the gaps and the score make the chart.           *)
LEMMA ChartOfGaps ==
  ASSUME NEW l, NEW f, NEW d \in From(l, f)!WithGaps
  PROVE  LET gaps  == From(l, f)!Gaps(d)
             chart == From(l, f)!DomainProgress(Model)[d]
         IN  /\ IsFiniteSet(gaps) /\ gaps # {}
             /\ Model # "coverage" => chart.blocking = Stops(gaps)
             /\ Model = "coverage" =>
                  \E met \in Nat :
                    LET score == [num |-> met, den |-> met + Cardinality(gaps)]
                    IN  /\ From(l, f)!Scores[Model][d] = score
                        /\ chart = [met |-> met, total |-> met + Cardinality(gaps),
                                    score |-> score, blocking |-> {}]
<1> DEFINE A     == From(l, f)!Applicable(d)
           P     == From(l, f)!Performed
           gaps  == From(l, f)!Gaps(d)
           chart == From(l, f)!DomainProgress(Model)[d]
<1>1. /\ d \in Domain /\ d \in From(l, f)!Populated /\ gaps = A \ P /\ gaps # {}
  BY DEF From!WithGaps, From!Populated, From!Gaps
<1>2. chart = From(l, f)!Progress(Model, d)
  BY <1>1 DEF From!DomainProgress, From!Charted
<1>3. IsFiniteSet(A) /\ IsFiniteSet(gaps) /\ IsFiniteSet(A \cap P)
  <2>1. A \subseteq Practice
    BY DEF From!Applicable, From!PracticesOf
  <2>2. gaps \subseteq Practice /\ A \cap P \subseteq Practice
    BY <1>1, <2>1
  <2>q. QED BY <2>1, <2>2, FrameworkAssumption, FS_Subset
<1>4. ASSUME Model # "coverage" PROVE chart.blocking = Stops(gaps)
  <2>1. Model = "cumulative_mil"
    BY <1>4, ModelAssumption DEF ScoringModel
  <2>2. chart.blocking = From(l, f)!Blocking(d)
    BY <1>2, <2>1 DEF From!Progress
  <2>3. \A n : From(l, f)!Missing(d, n) = {p \in gaps : Mil[p] = n}
    BY <1>1 DEF From!Missing
  <2>4. From(l, f)!Blocking(d) =
          {n \in Level : From(l, f)!Missing(d, n) # {}
                          /\ \A m \in Level : m < n => From(l, f)!Missing(d, m) = {}}
    BY DEF From!Blocking, From!Level, Level
  <2>q. QED BY <2>2, <2>3, <2>4 DEF Stops
<1>5. ASSUME Model = "coverage"
      PROVE  \E met \in Nat :
               LET score == [num |-> met, den |-> met + Cardinality(gaps)]
               IN  /\ From(l, f)!Scores[Model][d] = score
                   /\ chart = [met |-> met, total |-> met + Cardinality(gaps),
                               score |-> score, blocking |-> {}]
  <2> DEFINE met == Cardinality(A \cap P)
  <2>1. A # {}
    BY <1>1
  <2>2. met \in Nat /\ Cardinality(A) = met + Cardinality(gaps)
    <3>1. (A \cap P) \cup (A \ P) = A /\ (A \cap P) \cap (A \ P) = {}
      OBVIOUS
    <3> DEFINE X == A \cap P
    <3>2. Cardinality(X \cup gaps) = Cardinality(X) + Cardinality(gaps)
      BY <1>1, <1>3, <3>1, TwoClasses
    <3>q. QED BY <1>1, <1>3, <3>1, <3>2, FS_CardinalityType
  <2>3. From(l, f)!Scores[Model][d] = From(l, f)!DomainCoverage(d, P, From(l, f)!Excluded)
    BY <1>1, <1>5 DEF From!Scores, From!DomainScore, From!ScoringModel
  <2>4. From(l, f)!Scores[Model][d] = [num |-> met, den |-> Cardinality(A)]
    <3>1. A = From(l, f)!PracticesOf(d) \ From(l, f)!Excluded
      BY DEF From!Applicable
    <3> DEFINE E == From(l, f)!Excluded
               Q == From(l, f)!PracticesOf(d)
    <3>2. From(l, f)!DomainCoverage(d, P, E) =
            IF Q \ E = {} THEN From(l, f)!Nothing
            ELSE [num |-> From(l, f)!Cardinality((Q \ E) \cap P),
                  den |-> From(l, f)!Cardinality(Q \ E)]
      BY DEF From!DomainCoverage
    <3> HIDE DEF A, P, E, Q
    <3>3. /\ From(l, f)!Cardinality((Q \ E) \cap P) = Cardinality((Q \ E) \cap P)
          /\ From(l, f)!Cardinality(Q \ E) = Cardinality(Q \ E)
      BY SameCardinality
    <3>q. QED BY <2>1, <2>3, <3>1, <3>2, <3>3 DEF met, E, Q
  <2>5. chart = [met |-> met, total |-> Cardinality(A), score |-> From(l, f)!Scores[Model][d],
                 blocking |-> {}]
    <3>1. Model # "cumulative_mil"
      BY <1>5
    <3> DEFINE stop == From(l, f)!Blocking(d)
    <3>2. From(l, f)!Progress(Model, d) =
            [met |-> From(l, f)!Cardinality(A \cap P), total |-> From(l, f)!Cardinality(A),
             score |-> From(l, f)!Scores[Model][d],
             blocking |-> IF Model = "cumulative_mil" THEN stop ELSE {}]
      BY DEF From!Progress
    <3>3. /\ From(l, f)!Cardinality(A \cap P) = met
          /\ From(l, f)!Cardinality(A) = Cardinality(A)
      BY SameCardinality
    <3> HIDE DEF A, P, met, stop, chart
    <3>q. QED BY <1>2, <3>1, <3>2, <3>3
  <2> HIDE DEF met, A, P, gaps, chart
  <2>q. QED BY <2>2, <2>4, <2>5
<1>q. QED BY <1>1, <1>3, <1>4, <1>5

(* Gaps and scores make the charts, so that the digest, which covers those *)
(* alone, tells the printed pages apart.                                   *)
LEMMA SameCharts ==
  ASSUME NEW l, NEW f, NEW k, NEW h, NEW d \in From(l, f)!WithGaps,
         d \in From(k, h)!WithGaps, From(l, f)!Gaps(d) = From(k, h)!Gaps(d),
         SameValue(From(l, f)!Scores[Model][d], From(k, h)!Scores[Model][d])
  PROVE  LET a == From(l, f)!DomainProgress(Model)[d]
             b == From(k, h)!DomainProgress(Model)[d]
         IN  IF Model = "coverage" THEN a = b ELSE a.blocking = b.blocking
<1> DEFINE gaps == From(l, f)!Gaps(d)
           size == Cardinality(gaps)
           a == From(l, f)!DomainProgress(Model)[d]
           b == From(k, h)!DomainProgress(Model)[d]
<1>1. From(k, h)!Gaps(d) = gaps
  OBVIOUS
<1>2. CASE Model # "coverage"
  <2>1. a.blocking = Stops(gaps)
    BY <1>2, ChartOfGaps
  <2>2. b.blocking = Stops(gaps)
    BY <1>1, <1>2, ChartOfGaps
  <2> HIDE DEF a, b, gaps
  <2>q. QED BY <1>2, <2>1, <2>2 DEF a, b
<1>3. CASE Model = "coverage"
  <2>1. size \in Nat \ {0}
    <3>1. IsFiniteSet(gaps) /\ gaps # {}
      BY ChartOfGaps
    <3>q. QED BY <3>1, FS_CardinalityType, FS_EmptySet
  <2>2. PICK m \in Nat :
          /\ From(l, f)!Scores[Model][d] = [num |-> m, den |-> m + size]
          /\ a = [met |-> m, total |-> m + size, score |-> [num |-> m, den |-> m + size],
                  blocking |-> {}]
    BY <1>3, ChartOfGaps
  <2> DEFINE count == Cardinality(From(k, h)!Gaps(d))
  <2>3. PICK n \in Nat :
          /\ From(k, h)!Scores[Model][d] = [num |-> n, den |-> n + count]
          /\ b = [met |-> n, total |-> n + count, score |-> [num |-> n, den |-> n + count],
                  blocking |-> {}]
    BY <1>3, ChartOfGaps
  <2>4. count = size
    BY <1>1
  <2> HIDE DEF count
  <2>5. m * (n + size) = n * (m + size)
    BY <2>2, <2>3, <2>4 DEF SameValue
  <2> HIDE DEF a, b, size, gaps
  <2>6. m * size = n * size
    BY <2>1, <2>5
  <2>7. m = n
    BY <2>1, <2>6
  <2>q. QED BY <1>3, <2>2, <2>3, <2>4, <2>7 DEF a, b
<1>q. QED BY <1>2, <1>3

FiguresAre(r, l, f) ==
  /\ r.situation = From(l, f)!Situation /\ r.complication = From(l, f)!Complication
  /\ r.progress = From(l, f)!DomainProgress(Model)
  /\ r.overall = From(l, f)!Overall(Model) /\ r.scores = From(l, f)!Scores[Model]

LEMMA DigestIsPrinted ==
  ASSUME NEW page, NEW l, NEW f, FiguresAre(page, l, f),
         NEW report, NEW k, NEW h, FiguresAre(report, k, h)
  PROVE  SameDigest(report, page) <=> AsPrinted(page, report)
<1> DEFINE one   == From(l, f)!Complication
           other == From(k, h)!Complication
<1>1. SameScores(report, page) <=> SameScores(page, report)
  BY DEF SameScores, SameValue
<1>2. Unmet(one) = Unmet(other) => AllUnmet(one) = AllUnmet(other)
  BY DEF AllUnmet
<1>3. AllUnmet(one) = AllUnmet(other) => Unmet(one) = Unmet(other)
  <2> SUFFICES ASSUME AllUnmet(one) = AllUnmet(other) PROVE Unmet(one) = Unmet(other)
    OBVIOUS
  <2>1. \A d : UnmetIn(one, d) = UnmetIn(other, d)
    BY DEF UnmetIn
  <2>2. Unmet(one) = [d \in {e \in Domain : UnmetIn(one, e) # {}} |-> UnmetIn(one, d)]
    BY UnmetByDomain
  <2>3. Unmet(other) = [d \in {e \in Domain : UnmetIn(other, e) # {}} |-> UnmetIn(other, d)]
    BY UnmetByDomain
  <2> HIDE DEF one, other
  <2>q. QED BY <2>1, <2>2, <2>3
<1>4. ASSUME Unmet(one) = Unmet(other), SameScores(page, report), NEW d \in DOMAIN one
      PROVE  IF Model = "coverage" THEN page.progress[d] = report.progress[d]
             ELSE page.progress[d].blocking = report.progress[d].blocking
  <2>1. DOMAIN one = From(l, f)!WithGaps /\ DOMAIN other = From(k, h)!WithGaps
    BY UnmetByDomain
  <2>2. DOMAIN Unmet(one) = DOMAIN one /\ DOMAIN Unmet(other) = DOMAIN other
    BY DEF Unmet
  <2>3. d \in From(l, f)!WithGaps /\ d \in From(k, h)!WithGaps
    BY <1>4, <2>1, <2>2
  <2>4. Unmet(one)[d] = From(l, f)!Gaps(d) /\ Unmet(other)[d] = From(k, h)!Gaps(d)
    BY <2>3, UnmetByDomain
  <2>5. From(l, f)!Gaps(d) = From(k, h)!Gaps(d)
    BY <1>4, <2>4
  <2>6. d \in Domain
    BY <2>3 DEF From!WithGaps, From!Populated
  <2>7. SameValue(From(l, f)!Scores[Model][d], From(k, h)!Scores[Model][d])
    BY <1>4, <2>6 DEF SameScores, FiguresAre
  <2>q. QED BY <2>3, <2>5, <2>7, SameCharts DEF FiguresAre
<1>5. page.complication = one /\ report.complication = other
  BY DEF FiguresAre
<1> HIDE DEF one, other
<1>q. QED BY <1>1, <1>2, <1>3, <1>4, <1>5 DEF SameDigest, AsPrinted

LEMMA FiguresApart ==
  ASSUME NEW r, NEW l, NEW f
  PROVE  Figures(r) = FiguresOf(l, f) <=> FiguresAre(r, l, f)
  BY DEF Figures, FiguresOf, FiguresAre

(* ADR-0077: a check that no write overlaps is right both ways about what  *)
(* is printed, and a finalized copy is superseded by late writes alone.    *)
THEOREM CurrencyIsRightTheorem == ExportsSpec => []CurrencyIsRight
<1>1. ASSUME CurrencyInv, NEW c \in Client, at[c] \in {"current", "superseded"}
      PROVE  /\ AsOfNow(c) => (DigestHeld(c) <=> AsPrinted(got[c].copy.report, Now))
             /\ /\ got[c].copy.report.status = "finalized" /\ got[c].copy.late = late
                => AsOfNow(c) /\ DigestHeld(c)
  <2> DEFINE page == got[c].copy.report
             report == Dashboard(got[c])
             now == Now
  <2>1. FinalCall(c) /\ Checking(c) /\ HasStatus(c) /\ HasLinks(c) /\ HasFindings(c)
    BY <1>1 DEF CurrencyInv, HasStatus, HasLinks, HasFindings
  <2>2. got[c].kind = "check" /\ FinalCopy(got[c].copy)
    BY <1>1, <2>1 DEF Checking, CurrencyInv
  <2>3. PICK l, f : FiguresAre(page, l, f)
    BY <2>2, FiguresApart DEF FinalCopy
  <2>4. report.status = got[c].status /\ FiguresAre(report, got[c].links, got[c].findings)
    BY FiguresRead, FiguresApart
  <2>5. now.status = status /\ FiguresAre(now, links, findings)
    <3>1. Now.status = status /\ Figures(Now) = FiguresOf(links, findings)
      BY FiguresRead DEF Now
    <3>q. QED BY <3>1, FiguresApart
  <2> HIDE DEF page, report, now
  <2>6. AsOfNow(c) => report.status = now.status /\ FiguresAre(report, links, findings)
    BY <2>1, <2>4, <2>5 DEF AsOfNow
  <2>7. AsOfNow(c) => (SameDigest(report, page) <=> SameDigest(now, page))
    BY <2>5, <2>6 DEF FiguresAre, SameDigest, SameScores
  <2>8. SameDigest(now, page) <=> AsPrinted(page, now)
    BY <2>3, <2>5, DigestIsPrinted
  <2>9. ASSUME page.status = "finalized", got[c].copy.late = late
        PROVE  AsOfNow(c) /\ SameDigest(report, page)
    <3>1. AsOfNow(c) /\ status = "finalized"
      BY <2>1, <2>2, <2>9 DEF Checking, FinalCall, page
    <3>2. FiguresAre(page, links, findings)
      BY <2>2, <2>9, FiguresApart DEF FinalCopy, page
    <3>q. QED BY <2>5, <2>6, <2>9, <3>1, <3>2 DEF FiguresAre, SameDigest, SameScores, SameValue
  <2>q. QED BY <2>7, <2>8, <2>9 DEF DigestHeld, page, report, now
<1>2. CurrencyInv => CurrencyIsRight
  <2> SUFFICES ASSUME CurrencyInv, NEW c \in Client
               PROVE  LET copy == got[c].copy
                      IN  /\ at[c] = "current" /\ quiet[c] => AsPrinted(copy.report, Now)
                          /\ at[c] = "superseded" =>
                               /\ quiet[c] => ~AsPrinted(copy.report, Now)
                               /\ copy.report.status = "finalized" => copy.late # late
    BY DEF CurrencyIsRight
  <2>1. Checking(c) /\ (quiet[c] => AsOfNow(c))
    BY DEF CurrencyInv
  <2>q. QED BY <1>1, <2>1 DEF Checking
<1>q. QED BY <1>2, CurrencyCorrect, PTL

=============================================================================
