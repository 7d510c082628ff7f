-------------------------------- MODULE Report --------------------------------
(***************************************************************************)
(* What the dashboard and the exports say of an assessment: its counts,    *)
(* its gaps, the progress of each domain and what blocks it, and the       *)
(* headline figures.  All of it is a function of the links and the         *)
(* findings of Scoring.                                                    *)
(***************************************************************************)
EXTENDS Scoring, Functions

LinksReviewed(review) == {l \in Link : links[l].review = review}

Existing == {l \in Link : links[l] # Absent}

(* Findings of a kind that moves scores, on practices without evidence.    *)
Unsupported(status) == {p \in Practice \ EvidenceBacked : findings[p] = status}

(* _build_situation.                                                       *)
Situation ==
  [total |-> Cardinality(Existing),
   counts |-> [review \in Review |-> Cardinality(LinksReviewed(review))],
   unpopulated |-> {d \in Domain : PracticesOf(d) = {}},
   unsupported |-> [s \in {"satisfied", "not_applicable"} |-> Unsupported(s)]]

Populated == {d \in Domain : PracticesOf(d) # {}}

(* Fault: a practice that does not apply is counted.                       *)
ApplicableOrNot(d) == PracticesOf(d)

Applicable(d) == PracticesOf(d) \ Excluded

Gaps(d) == Applicable(d) \ Performed

(* _build_complication: the unmet practices, each with its finding and all *)
(* the links that cite it.                                                 *)
GapItem(p) ==
  [practice |-> p,
   mil |-> Mil[p],
   pending |-> \E l \in LinksReviewed("pending") : links[l].practice = p,
   status |-> IF findings[p] = "none" THEN "insufficient_evidence" ELSE findings[p],
   cited |-> {l \in Existing : links[l].practice = p}]

GapGroup(d) ==
  [total |-> Cardinality(Applicable(d)),
   met |-> Cardinality(Applicable(d)) - Cardinality(Gaps(d)),
   gaps |-> {GapItem(p) : p \in Gaps(d)}]

WithGaps == {d \in Populated : Gaps(d) # {}}

Complication == [d \in WithGaps |-> GapGroup(d)]

(* _build_domain_progress, with the level that blocks a domain: the first  *)
(* of which a practice is not performed.                                   *)
Missing(d, level) == {p \in Applicable(d) : Mil[p] = level} \ Performed

Blocking(d) == {n \in Level : Missing(d, n) # {} /\ \A m \in Level : m < n => Missing(d, m) = {}}

Progress(model, d) ==
  [met |-> Cardinality(Applicable(d) \cap Performed),
   total |-> Cardinality(Applicable(d)),
   score |-> Scores[model][d],
   blocking |-> IF model = "cumulative_mil" THEN Blocking(d) ELSE {}]

Charted == {d \in Populated : Applicable(d) # {}}

DomainProgress(model) == [d \in Charted |-> Progress(model, d)]

(* _build_overall_summary.  The fraction is put together again from the    *)
(* domains' scores, each rounded to whole practices.                       *)
Rounded(x, count) == (2 * x.num * count + x.den) \div (2 * x.den)

Overall(model) ==
  LET total   == SumFunction([d \in Populated |-> Cardinality(Applicable(d))])
      covered == SumFunction([d \in Populated |->
                   Rounded(Scores["coverage"][d], Cardinality(Applicable(d)))])
  IN  [populated |-> Cardinality(Populated),
       domains |-> Cardinality(Domain),
       atMil1 |-> IF model = "cumulative_mil"
                    THEN Cardinality({d \in Populated : Scores[model][d].num >= 1}) ELSE 0,
       fraction |-> IF model = "cumulative_mil" \/ total = 0
                      THEN Nothing ELSE [num |-> covered, den |-> total]]

-----------------------------------------------------------------------------
(* Properties.                                                             *)

(* The figures of one report agree, though each is computed on its own:    *)
(* the level that blocks a domain is the one above its score, a domain     *)
(* blocked nowhere has the highest; a domain's coverage is what its chart  *)
(* shows, and a domain has gaps where the chart is not full; the headline  *)
(* fraction, put together from rounded scores, is that of the practices of *)
(* the whole framework, and what the charts add up to; and a judgment that *)
(* moves no score is named: a gap whose finding is satisfied or not        *)
(* applicable is in the list of unsupported findings.                      *)
DomainFiguresAgree(d) ==
  LET mil == Progress("cumulative_mil", d)
      cover == Progress("coverage", d)
  IN  /\ mil.blocking = IF mil.score.num = 3 THEN {} ELSE {mil.score.num + 1}
      /\ cover.score = [num |-> cover.met, den |-> cover.total]
      /\ (d \in WithGaps) = (cover.met < cover.total)
      /\ d \in WithGaps => Complication[d].met = cover.met

HeadlineAgrees ==
  LET counted == Practice \ Excluded
      headline == Overall("coverage").fraction
  IN  /\ headline = IF counted = {} THEN Nothing
                    ELSE [num |-> Cardinality(counted \cap Performed), den |-> Cardinality(counted)]
      /\ headline.num = SumFunction([d \in Charted |-> Progress("coverage", d).met])

FiguresAgree ==
  /\ \A d \in Charted : DomainFiguresAgree(d)
  /\ HeadlineAgrees
  /\ \A d \in Populated, p \in Practice :
       p \in Gaps(d) /\ findings[p] \in {"satisfied", "not_applicable"} =>
         p \in Situation.unsupported[findings[p]]

=============================================================================
