------------------------------- MODULE Scoring -------------------------------
(***************************************************************************)
(* The scores of one assessment: how the reviewed evidence links and the   *)
(* practice findings are folded into scoring credit, and the credit into   *)
(* a maturity level or a coverage fraction for each domain, while links    *)
(* are created and reviewed and findings are set.                          *)
(*                                                                         *)
(* The calls come one at a time here; what happens when they overlap is    *)
(* the subject of AssessmentRecord.  A score is a fraction, num over den.  *)
(***************************************************************************)
EXTENDS Integers, FiniteSets

CONSTANTS
  Domain,    \* the framework's domains
  Practice,  \* its practices
  DomainOf,  \* the domain each practice belongs to
  Mil,       \* the level of each practice
  Unknown,   \* a reference to a practice that is not in the framework
  Link,      \* ids of evidence links, a bound on their number
  FindingStatus  \* the statuses a finding may be set to

Level == 1..3

ASSUME FrameworkAssumption ==
  /\ IsFiniteSet(Practice)
  /\ DomainOf \in [Practice -> Domain]
  /\ Mil \in [Practice -> Level]

ASSUME UnknownAssumption == Unknown \notin Practice

Credited == {"accepted", "edited"}
Review   == Credited \cup {"pending", "rejected"}

NeverPerformed == {"not_satisfied", "insufficient_evidence", "partially_satisfied"}
AllFindingStatus == NeverPerformed \cup {"satisfied", "not_applicable"}

ASSUME FindingStatusAssumption == FindingStatus \subseteq AllFindingStatus

VARIABLES
  links,    \* evidence links: the practice cited and the review
  findings  \* the finding on each practice, "none" where there is none

vars == <<links, findings>>

Absent == [practice |-> Unknown, review |-> "none"]

Cited == [practice: Practice, review: Review]

-----------------------------------------------------------------------------
(* performed_and_excluded_practice_ids.                                    *)

EvidenceBacked == {links[l].practice : l \in {k \in Link : links[k].review \in Credited}}

(* Fault: a satisfied finding counts without evidence.                     *)
PerformedByFinding ==
  {p \in EvidenceBacked : findings[p] \notin NeverPerformed}
    \cup {p \in Practice : findings[p] = "satisfied"}

Performed == {p \in EvidenceBacked : findings[p] \notin NeverPerformed}

Excluded == {p \in EvidenceBacked : findings[p] = "not_applicable"}

-----------------------------------------------------------------------------
(* compute_domain_mil and compute_domain_coverage.                         *)

PracticesOf(d) == {p \in Practice : DomainOf[p] = d}

Required(d, level, excluded) == {p \in PracticesOf(d) \ excluded : Mil[p] = level}

Met(d, level, performed, excluded) == Required(d, level, excluded) \subseteq performed

(* Fault: a level that is not met does not stop the climb.                 *)
ClimbOn(d, performed, excluded) ==
  LET met(level) == Met(d, level, performed, excluded)
  IN  IF met(3) THEN 3 ELSE IF met(2) THEN 2 ELSE IF met(1) THEN 1 ELSE 0

(* The loop over the levels: it stops at the first that is not met.        *)
Climb(d, performed, excluded) ==
  LET met(level) == Met(d, level, performed, excluded)
  IN  IF ~met(1) THEN 0 ELSE IF ~met(2) THEN 1 ELSE IF ~met(3) THEN 2 ELSE 3

(* A domain that was not transcribed has no practices, and scores nothing. *)
DomainMil(d, performed, excluded) ==
  IF PracticesOf(d) = {} THEN 0 ELSE Climb(d, performed, excluded)

Nothing == [num |-> 0, den |-> 1]

DomainCoverage(d, performed, excluded) ==
  LET counted == PracticesOf(d) \ excluded
  IN  IF counted = {} THEN Nothing
      ELSE [num |-> Cardinality(counted \cap performed), den |-> Cardinality(counted)]

ScoringModel == {"cumulative_mil", "coverage"}

(* compute_assessment_domain_scores, under either scoring model.           *)
DomainScore(model, d) ==
  IF model = "cumulative_mil"
    THEN [num |-> DomainMil(d, Performed, Excluded), den |-> 1]
    ELSE DomainCoverage(d, Performed, Excluded)

Scores == [model \in ScoringModel |-> [d \in Domain |-> DomainScore(model, d)]]

-----------------------------------------------------------------------------
(* link_evidence and propose_mappings: a link made by hand counts as       *)
(* accepted, a proposed one awaits its review.                             *)
AddLink(l, p, source) ==
  /\ links[l] = Absent /\ p \in Practice
  /\ links' = [links EXCEPT ![l] =
       [practice |-> p, review |-> IF source = "ai_proposed" THEN "pending" ELSE "accepted"]]
  /\ UNCHANGED findings

(* review_evidence, and bulk_reject_evidence for each of its links; only   *)
(* an edit corrects the reference.                                         *)
ReviewLink(l, decision, corrected) ==
  /\ links[l].review = "pending"
  /\ corrected \in Practice
  /\ links' = [links EXCEPT ![l] = [practice |-> corrected, review |-> decision]]
  /\ UNCHANGED findings

SetFinding(p, status) ==
  /\ p \in Practice
  /\ findings' = [findings EXCEPT ![p] = status]
  /\ UNCHANGED links

Reference == Practice \cup {Unknown}

Init ==
  /\ links = [l \in Link |-> Absent]
  /\ findings = [p \in Practice |-> "none"]

Next ==
  \/ \E l \in Link, p \in Reference :
       \/ \E source \in {"manual", "ai_proposed"} : AddLink(l, p, source)
       \/ ReviewLink(l, "edited", p)
  \/ \E l \in Link, decision \in {"accepted", "rejected"} :
       ReviewLink(l, decision, links[l].practice)
  \/ \E p \in Reference, status \in FindingStatus : SetFinding(p, status)

Spec == Init /\ [][Next]_vars

-----------------------------------------------------------------------------
(* Properties.                                                             *)

(* Links cite practices of the framework and findings are on them.         *)
TypeOK ==
  /\ links \in [Link -> Cited \cup {Absent}]
  /\ findings \in [Practice -> FindingStatus \cup {"none"}]

(* The loop of compute_domain_mil finds what its docstring promises: the   *)
(* highest level for which every practice at that level and at every       *)
(* preceding one is performed, in any domain that has practices.           *)
MilIsHighest ==
  \A d \in Domain :
    LET mil == DomainMil(d, Performed, Excluded)
        Complete(n) == \A p \in PracticesOf(d) \ Excluded : Mil[p] <= n => p \in Performed
    IN  PracticesOf(d) # {} =>
          /\ Complete(mil)
          /\ \A n \in Level : n > mil => ~Complete(n)

(* No score without reviewed evidence: each practice of a level a domain   *)
(* was awarded, and some practice of a domain that has any coverage, is    *)
(* cited by an accepted or edited link.                                    *)
ScoreIsTraceable ==
  \A d \in Domain :
    /\ \A p \in PracticesOf(d) :
         Mil[p] <= Scores["cumulative_mil"][d].num =>
           \E l \in Link : links[l].practice = p /\ links[l].review \in Credited
    /\ Scores["coverage"][d].num > 0 =>
         \E l \in Link : /\ links[l].practice \in PracticesOf(d)
                         /\ links[l].review \in Credited

AtMost(x, y) == x.num * y.den <= y.num * x.den

HoldOrRise == \A m \in ScoringModel, d \in Domain : AtMost(Scores[m][d], Scores'[m][d])
HoldOrFall == \A m \in ScoringModel, d \in Domain : AtMost(Scores'[m][d], Scores[m][d])

CreditGained ==
  \E l \in Link : links[l].review \notin Credited /\ links'[l].review \in Credited

Set(status) == \E p \in Practice : findings[p] # status /\ findings'[p] = status

(* Accepting a link, as proposed or corrected, lowers no domain's score,   *)
(* also where the practice is found not applicable and the acceptance      *)
(* takes it out of the denominator.                                        *)
AcceptingNeverLowers == [][CreditGained => HoldOrRise]_vars

(* A proposal, and the rejection of one, move no score.                    *)
UnreviewedMovesNothing == [][links' # links /\ ~CreditGained => Scores' = Scores]_vars

(* A negative finding lowers or holds every score, whatever the finding    *)
(* before it.                                                              *)
CautionNeverRaises == [][(\E s \in NeverPerformed : Set(s)) => HoldOrFall]_vars

(* Setting a practice to not applicable lowers no domain's level.          *)
NotApplicableNeverLowersMil ==
  [][Set("not_applicable") =>
       \A d \in Domain : AtMost(Scores["cumulative_mil"][d], Scores'["cumulative_mil"][d])]_vars

(* A finding on a practice that no accepted or edited link cites moves no  *)
(* score.                                                                  *)
FindingNeedsEvidence ==
  [][links' = links /\ (\A p \in EvidenceBacked : findings'[p] = findings[p])
       => Scores' = Scores]_vars

(* What a step may do to the scores: accepting lowers none, an unreviewed  *)
(* link moves none, a negative finding raises none, setting a practice to  *)
(* not applicable lowers no level, and a finding without reviewed evidence *)
(* moves none.                                                             *)
StepsMoveScores ==
  [][/\ CreditGained => HoldOrRise
     /\ links' # links /\ ~CreditGained => Scores' = Scores
     /\ (\E s \in NeverPerformed : Set(s)) => HoldOrFall
     /\ Set("not_applicable") =>
          \A d \in Domain : AtMost(Scores["cumulative_mil"][d], Scores'["cumulative_mil"][d])
     /\ links' = links /\ (\A p \in EvidenceBacked : findings'[p] = findings[p])
          => Scores' = Scores]_vars

=============================================================================
