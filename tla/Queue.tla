-------------------------------- MODULE Queue --------------------------------
(***************************************************************************)
(* What is read from the evidence links of an assessment: the review queue *)
(* under its filters, the counts over the whole of it, how often reviewers *)
(* agreed with the engine, and the answers of the chat.  All of it is      *)
(* computed when it is asked for.                                          *)
(***************************************************************************)
EXTENDS Requests, FiniteSetsExt, Functions

CONSTANTS
  Limit,     \* how many hits an answer has at most
  Near       \* of each chunk, how near it is to the question, in hundredths

ReviewStatus == Decision \cup {"pending"}

ASSUME HitsAssumption == Limit \in Nat /\ Near \in [Chunk -> Int]
ASSUME ConfidenceAssumption ==
  Confidence \subseteq Int /\ None \notin Int /\ None \notin ReviewStatus

(* No definition file names a practice twice.                              *)
ASSUME DomainsAssumption ==
  \A a \in Assessment : Domains[a] # None =>
    /\ IsFiniteSet(DOMAIN Domains[a]) /\ None \notin DOMAIN Domains[a]
    /\ \A d, e \in DOMAIN Domains[a] : Domains[a][d] \cap Domains[a][e] # {} => d = e

-----------------------------------------------------------------------------
(* evidence_for_assessment.  A filter that is not given is None.           *)

NoFilter == [review |-> None, domain |-> None, atLeast |-> None, atMost |-> None]

PracticesIn(a, domain) ==
  IF Domains[a] = None \/ domain \notin DOMAIN Domains[a] THEN {} ELSE Domains[a][domain]

Shown(a, filter) == {i \in Cited(a) :
  /\ filter.review # None => links[i].review = filter.review
  /\ filter.atLeast # None => links[i].confidence # None /\ links[i].confidence >= filter.atLeast
  /\ filter.atMost # None => links[i].confidence # None /\ links[i].confidence <= filter.atMost
  /\ filter.domain # None => links[i].practice \in PracticesIn(a, filter.domain)}

(* evidence_queue_summary.  Domains with nothing in the queue are left out.*)
InDomain(a, d) == {i \in Cited(a) : links[i].practice \in Domains[a][d]}

SummaryOf(a) ==
  [total    |-> Cardinality(Cited(a)),
   byStatus |-> [s \in ReviewStatus |-> Cardinality({i \in Cited(a) : links[i].review = s})],
   byDomain |-> IF Domains[a] = None THEN <<>> ELSE
     [d \in {e \in DOMAIN Domains[a] : InDomain(a, e) # {}} |->
       [total   |-> Cardinality(InDomain(a, d)),
        pending |-> Cardinality({i \in InDomain(a, d) : links[i].review = "pending"})]],
   unmapped |-> Cardinality({i \in Cited(a) : links[i].practice \notin PracticesOf(a)})]

-----------------------------------------------------------------------------
(* compute_assessment_agreement, over some of the links; the rate is the   *)
(* pair accepted and reviewed.                                             *)
Agreement(ids) ==
  LET proposed == {i \in ids : links[i].source = "proposed"}
      Count(s) == Cardinality({i \in proposed : links[i].review = s})
      reviewed == Count("accepted") + Count("edited") + Count("rejected")
  IN  [total |-> Cardinality(proposed), pending |-> Count("pending"),
       accepted |-> Count("accepted"), edited |-> Count("edited"),
       rejected |-> Count("rejected"),
       rate |-> IF reviewed > 0 THEN <<Count("accepted"), reviewed>> ELSE None]

(* The bands, as the lowest confidence in each and the lowest above it.    *)
ConfidenceBands == <<<<None, 55>>, <<55, 65>>, <<65, 78>>, <<78, None>>>>

(* Fault: a band holds its upper bound too.                                *)
InBandInclusive(confidence, band) ==
  /\ confidence # None
  /\ band[1] # None => confidence >= band[1]
  /\ band[2] # None => confidence <= band[2]

InBand(confidence, band) ==
  /\ confidence # None
  /\ band[1] # None => confidence >= band[1]
  /\ band[2] # None => confidence < band[2]

ByBand(a) ==
  [b \in DOMAIN ConfidenceBands |->
    Agreement({i \in Cited(a) : InBand(links[i].confidence, ConfidenceBands[b])})]

-----------------------------------------------------------------------------
(* answer_question.  A link is a hit if its chunk is in the store and near *)
(* enough; the nearest come first, and of equals either may.               *)

(* Fault: every link is searched.                                          *)
SearchableUnreviewed(a) == {i \in Cited(a) : links[i].chunk # None}

Searchable(a) ==
  {i \in Cited(a) : links[i].review \in {"accepted", "edited"} /\ links[i].chunk # None}

Hits(a, threshold) ==
  {i \in Searchable(a) : links[i].chunk \in ChunksOf(links[i].doc) /\ Near[links[i].chunk] >= threshold}

Answers(a, threshold) ==
  {ids \in SUBSET Hits(a, threshold) :
    /\ Cardinality(ids) = Min({Limit, Cardinality(Hits(a, threshold))})
    /\ \A i \in ids, j \in Hits(a, threshold) \ ids : Near[links[i].chunk] >= Near[links[j].chunk]}

-----------------------------------------------------------------------------
(* Properties.                                                             *)

(* The figures shown about a queue account for each of its links once: the *)
(* counts by status add up to its length, so do the counts by domain with  *)
(* the unmapped links, which are those no domain filter ever shows; each   *)
(* proposal with a confidence is in one band, and those without are the    *)
(* rest of the overall agreement (evidence_queue_summary,                  *)
(* evidence_for_assessment, build_agreement_report).                       *)
QueueAddsUp ==
  \A a \in Assessment :
    LET summary == SummaryOf(a)
        overall == Agreement(Cited(a))
        bands   == ByBand(a)
        domains == DOMAIN summary.byDomain
        unrated == {i \in Cited(a) : links[i].source = "proposed" /\ links[i].confidence = None}
    IN
    /\ SumFunction(summary.byStatus) = summary.total
    /\ SumFunction([d \in domains |-> summary.byDomain[d].total]) + summary.unmapped = summary.total
    /\ \A i \in Cited(a) :
         (\A d \in domains : i \notin Shown(a, [NoFilter EXCEPT !.domain = d]))
           <=> links[i].practice \notin PracticesOf(a)
    /\ \A d \in domains, s \in ReviewStatus :
         s = "pending" => summary.byDomain[d].pending =
           Cardinality(Shown(a, [NoFilter EXCEPT !.domain = d, !.review = s]))
    /\ SumFunction([b \in DOMAIN bands |-> bands[b].total]) + Cardinality(unrated) = overall.total
    /\ SumFunction([b \in DOMAIN bands |-> bands[b].accepted]) <= overall.accepted
    /\ overall.pending + overall.accepted + overall.edited + overall.rejected = overall.total

(* What the chat quotes is text that is in the store now, cited by a link  *)
(* of this assessment that a reviewer has accepted, so it also counts as   *)
(* evidence of its practice; an answer leaves out a hit only for others    *)
(* that are at least as near (chat_service.answer_question).               *)
AnswersAreReviewed ==
  \A a \in Assessment, threshold \in {Near[c] : c \in Chunk} :
    /\ Answers(a, threshold) # {}
    /\ \A ids \in Answers(a, threshold), i \in UNION Answers(a, threshold) :
         /\ links[i].assessment = a
         /\ links[i].chunk \in InStore
         /\ links[i].practice \in Backed(a)
         /\ links[i].review # "pending"
         /\ i \notin ids => Cardinality(ids) = Limit

=============================================================================
