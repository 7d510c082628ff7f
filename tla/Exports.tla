------------------------------- MODULE Exports -------------------------------
(***************************************************************************)
(* The copies of a report that leave the system: sanitization and its      *)
(* approval, exports, and the question whether a copy is still current,    *)
(* while the record goes on being reviewed, renamed and finalized.         *)
(*                                                                         *)
(* A report is built from reads in sessions of their own, so that a write  *)
(* may fall between two of them.  A write itself is two steps, the check   *)
(* that lets it happen and what it then stores, so that a review or a      *)
(* finding may land on a record finalized in between; how two writes to    *)
(* one link overlap is the subject of AssessmentRecord.  A text is the set *)
(* of the phrases in it that could identify someone.                       *)
(***************************************************************************)
EXTENDS Report, Sequences

CONSTANTS
  Model,         \* the scoring model of the framework
  Client,        \* concurrent calls that build a report
  Writer,        \* and that write to the record
  Phrase,        \* phrases a reviewer may ask to hide, of equal length
  Rationales,    \* the texts a finding's rationale may be
  Names,         \* the names the organization may have
  AssessmentName,
  FirstLinks,    \* the links there are in the beginning
  MaxWrites, MaxApprovals, MaxCopies, MaxRestarts  \* bounds

ASSUME ModelAssumption == Model \in ScoringModel

ASSUME TextAssumption ==
  /\ Rationales \subseteq SUBSET Phrase /\ Names \subseteq SUBSET Phrase
  /\ AssessmentName \subseteq Phrase
  /\ FirstLinks \in [Link -> Cited \cup {Absent}]

VARIABLES
  status,     \* of the assessment
  cleared,    \* what the check of each writer has let it do
  late,       \* how many writes landed on a finalized record
  rationale,  \* of each finding
  name,       \* of the organization
  approvals,  \* sanitizationapproval rows, in rowid order
  order,      \* of the phrases, as this process' hash seed has it
  at,         \* where each call is
  got,        \* what it has read, and what it answers
  quiet,      \* nobody has written since it began
  copies,     \* the exports that were handed out
  writes, restarts

record  == <<links, findings, status, rationale, name>>
writers == <<cleared, late>>
serving == <<at, got, quiet>>
tally   == <<writers, writes, restarts>>
all     == <<record, approvals, order, serving, copies, tally>>

(* The dashboard as built from what was read.                              *)
From(l, f) == INSTANCE Report WITH links <- l, findings <- f

-----------------------------------------------------------------------------
(* Building and sanitizing a report.                                       *)

(* The practices listed as unmet, domain by domain, and all of them.       *)
Unmet(complication) ==
  [d \in DOMAIN complication |-> {item.practice : item \in complication[d].gaps}]

AllUnmet(complication) == UNION Range(Unmet(complication))

(* build_dashboard, of the values read.                                    *)
Dashboard(g) ==
  LET complication == From(g.links, g.findings)!Complication
  IN  [name |-> AssessmentName, organization |-> g.name, status |-> g.status,
       situation |-> From(g.links, g.findings)!Situation,
       complication |-> complication,
       progress |-> From(g.links, g.findings)!DomainProgress(Model),
       overall |-> From(g.links, g.findings)!Overall(Model),
       scores |-> From(g.links, g.findings)!Scores[Model],
       rationale |-> [p \in AllUnmet(complication) |-> g.rationale[p]]]

(* A phrase is hidden behind its number: the terms are numbered by length, *)
(* those of one length as they come.                                       *)
Pseudonym(x, terms) == <<"ORG-TERM", Cardinality({y \in terms : order[y] <= order[x]})>>

Hide(text, terms) == {IF x \in terms THEN Pseudonym(x, terms) ELSE x : x \in text}

(* sanitize_dashboard_report.                                              *)
Sanitize(report, terms) ==
  [report EXCEPT !.name = Hide(@, terms),
                 !.rationale = [p \in DOMAIN @ |-> Hide(@[p], terms)]]

(* The digest is taken of floats: a score of 3 of 3 is one of 2 of 2.      *)
SameValue(x, y) == x.num * y.den = y.num * x.den

SameScores(r, s) ==
  /\ [r.overall EXCEPT !.fraction = Nothing] = [s.overall EXCEPT !.fraction = Nothing]
  /\ SameValue(r.overall.fraction, s.overall.fraction)
  /\ \A d \in Domain : SameValue(r.scores[d], s.scores[d])

(* Fault: how far the reviews are is left out.                             *)
SameScoresAndGaps(r, s) ==
  /\ r.status = s.status /\ SameScores(r, s)
  /\ AllUnmet(r.complication) = AllUnmet(s.complication)

(* The digests of two reports of an assessment are equal if, and only if,  *)
(* what _payload_v1 takes from them is.                                    *)
SameDigest(r, s) ==
  /\ r.status = s.status /\ SameScores(r, s)
  /\ r.situation.counts = s.situation.counts /\ r.situation.total = s.situation.total
  /\ AllUnmet(r.complication) = AllUnmet(s.complication)

-----------------------------------------------------------------------------
(* The calls.                                                              *)

NotRead == "not read"

(* A call of which nothing is known yet but what it is to do.              *)
Asked(kind, terms, approved, copy) ==
  [kind |-> kind, terms |-> terms, approved |-> approved, copy |-> copy,
   status |-> NotRead, late |-> NotRead, links |-> NotRead, findings |-> NotRead, rationale |-> NotRead,
   name |-> NotRead]

Idle == Asked("none", {}, NotRead, NotRead)

Goto(c, label) == at' = [at EXCEPT ![c] = label]

Begin(c, call) ==
  /\ at[c] = "idle"
  /\ got' = [got EXCEPT ![c] = call]
  /\ quiet' = [quiet EXCEPT ![c] = TRUE]
  /\ Goto(c, "assessment")
  /\ UNCHANGED <<record, approvals, order, copies, tally>>

BeginApproval(c, terms) ==
  /\ Len(approvals) < MaxApprovals
  /\ Begin(c, Asked("approve", terms, NotRead, NotRead))

BeginExport(c) == Cardinality(copies) < MaxCopies /\ Begin(c, Asked("export", {}, NotRead, NotRead))

(* _approved_sanitized_report reads the latest approval first.             *)
BeginSanitizedExport(c) ==
  /\ Cardinality(copies) < MaxCopies
  /\ approvals # <<>>
  /\ LET approval == approvals[Len(approvals)]
     IN  Begin(c, Asked("sanitized", approval.terms, approval, NotRead))

(* check_report_currency, of a copy in someone's hands.                    *)
BeginCheck(c, copy) == Begin(c, Asked("check", {}, NotRead, copy))

Read(c, from, to) ==
  /\ at[c] = from
  /\ Goto(c, to)
  /\ UNCHANGED <<record, approvals, order, quiet, copies, tally>>

(* How many writes were late by then is noted with the status.             *)
ReadAssessment(c) ==
  /\ Read(c, "assessment", "links")
  /\ got' = [got EXCEPT ![c].status = status, ![c].late = late]

ReadLinks(c) ==
  Read(c, "links", "findings") /\ got' = [got EXCEPT ![c].links = links]

ReadFindings(c) ==
  /\ Read(c, "findings", "organization")
  /\ got' = [got EXCEPT ![c].findings = findings, ![c].rationale = rationale]

(* Fault: the assessment is read again when all the rest has been.         *)
ReadAssessmentLast(c) ==
  /\ Read(c, "organization", "answer")
  /\ got' = [got EXCEPT ![c].name = name, ![c].status = status, ![c].late = late]

ReadOrganization(c) ==
  Read(c, "organization", "answer") /\ got' = [got EXCEPT ![c].name = name]

(* Fault: the terms are not kept.                                          *)
ApprovalWithoutTerms(report, terms) ==
  [hash |-> Sanitize(report, terms), terms |-> {}, of |-> report, epoch |-> restarts]

(* An approval: the hash of the report and the terms are what is kept, the *)
(* other fields say what of and when it was made.                          *)
Approval(report, terms) ==
  [hash |-> Sanitize(report, terms), terms |-> terms, of |-> report, epoch |-> restarts]

(* approve_sanitization: the report was built anew, not taken from a       *)
(* preview.                                                                *)
StoreApproval(c) ==
  /\ at[c] = "answer" /\ got[c].kind = "approve"
  /\ approvals' = Append(approvals, Approval(Dashboard(got[c]), got[c].terms))
  /\ Goto(c, "idle") /\ got' = [got EXCEPT ![c] = Idle]
  /\ UNCHANGED <<record, order, quiet, copies, tally>>

Copy(kind, c, report) == [kind |-> kind, report |-> report, late |-> got[c].late]

HandOut(c) ==
  /\ at[c] = "answer" /\ got[c].kind = "export"
  /\ copies' = copies \cup {Copy("export", c, Dashboard(got[c]))}
  /\ Goto(c, "idle") /\ got' = [got EXCEPT ![c] = Idle]
  /\ UNCHANGED <<record, approvals, order, quiet, tally>>

Stale(c) == Sanitize(Dashboard(got[c]), got[c].terms) # got[c].approved.hash

(* Fault: what was approved once is exported whatever became of it.        *)
HandOutAnyway(c) ==
  /\ at[c] = "answer" /\ got[c].kind = "sanitized"
  /\ copies' = copies \cup {Copy("sanitized", c, Sanitize(Dashboard(got[c]), got[c].terms))}
  /\ Goto(c, "idle") /\ got' = [got EXCEPT ![c] = Idle]
  /\ UNCHANGED <<record, approvals, order, quiet, tally>>

HandOutSanitized(c) ==
  /\ at[c] = "answer" /\ got[c].kind = "sanitized" /\ ~Stale(c)
  /\ copies' = copies \cup {Copy("sanitized", c, Sanitize(Dashboard(got[c]), got[c].terms))}
  /\ Goto(c, "idle") /\ got' = [got EXCEPT ![c] = Idle]
  /\ UNCHANGED <<record, approvals, order, quiet, tally>>

RefuseStale(c) ==
  /\ at[c] = "answer" /\ got[c].kind = "sanitized" /\ Stale(c)
  /\ Goto(c, "refused")
  /\ UNCHANGED <<record, approvals, order, got, quiet, copies, tally>>

(* check_currency.                                                         *)
Answer(c) ==
  /\ at[c] = "answer" /\ got[c].kind = "check"
  /\ Goto(c, IF SameDigest(Dashboard(got[c]), got[c].copy.report)
               THEN "current" ELSE "superseded")
  /\ UNCHANGED <<record, approvals, order, got, quiet, copies, tally>>

Return(c) ==
  /\ at[c] \in {"refused", "current", "superseded"}
  /\ Goto(c, "idle") /\ got' = [got EXCEPT ![c] = Idle]
  /\ UNCHANGED <<record, approvals, order, quiet, copies, tally>>

Call(c) ==
  \/ \E terms \in {{}, Phrase} : BeginApproval(c, terms)
  \/ BeginExport(c) \/ BeginSanitizedExport(c)
  \/ \E copy \in copies : BeginCheck(c, copy)
  \/ ReadAssessment(c) \/ ReadLinks(c) \/ ReadFindings(c) \/ ReadOrganization(c)
  \/ StoreApproval(c) \/ HandOut(c) \/ HandOutSanitized(c) \/ RefuseStale(c)
  \/ Answer(c) \/ Return(c)

-----------------------------------------------------------------------------
(* What goes on meanwhile.                                                 *)

(* _ALLOWED_TRANSITIONS.                                                   *)
Allowed(from) ==
  CASE from = "draft" -> {"in_review"}
    [] from = "in_review" -> {"draft", "finalized"}
    [] from = "finalized" -> {}

(* Nothing may be pending, and no judgment without evidence.               *)
Ready ==
  /\ LinksReviewed("pending") = {}
  /\ Unsupported("satisfied") = {} /\ Unsupported("not_applicable") = {}

(* No more writes are let through than may still land.                     *)
Clear(w, what) ==
  /\ cleared[w] = "nothing"
  /\ writes + Cardinality({v \in Writer : cleared[v] # "nothing"}) < MaxWrites
  /\ cleared' = [cleared EXCEPT ![w] = what]
  /\ UNCHANGED <<record, approvals, order, serving, copies, late, writes, restarts>>

(* _assert_writable, whose SELECT keeps nobody else from writing.          *)
CheckWritable(w) == status # "finalized" /\ Clear(w, "write")

(* transition_status up to the call of update_status.                      *)
CheckTransition(w) ==
  \E to \in Allowed(status) :
    /\ to = "finalized" => Ready
    /\ Clear(w, to)

(* A write is committed.                                                   *)
Written ==
  /\ writes < MaxWrites /\ writes' = writes + 1
  /\ quiet' = [c \in Client |-> at[c] = "idle"]
  /\ UNCHANGED <<approvals, order, at, got, copies, restarts>>

(* What the check let the writer do is done, whatever the status is now.   *)
Landed(w) ==
  /\ cleared' = [cleared EXCEPT ![w] = "nothing"]
  /\ late' = IF status = "finalized" THEN late + 1 ELSE late
  /\ Written

ReviewLinks(w) ==
  /\ cleared[w] = "write"
  /\ \/ \E l \in Link, p \in Practice :
          \/ \E source \in {"manual", "ai_proposed"} : AddLink(l, p, source)
          \/ ReviewLink(l, "edited", p)
     \/ \E l \in Link, decision \in {"accepted", "rejected"} :
          ReviewLink(l, decision, links[l].practice)
  /\ Landed(w)
  /\ UNCHANGED <<status, rationale, name>>

Judge(w) ==
  /\ cleared[w] = "write"
  /\ \E p \in Practice, s \in FindingStatus, r \in Rationales :
       SetFinding(p, s) /\ rationale' = [rationale EXCEPT ![p] = r]
  /\ Landed(w)
  /\ UNCHANGED <<status, name>>

(* update_status: the status is set, not compared with the one checked.    *)
UpdateStatus(w) ==
  /\ cleared[w] \in {"draft", "in_review", "finalized"}
  /\ status' = cleared[w]
  /\ Landed(w)
  /\ UNCHANGED <<links, findings, rationale, name>>

Rename ==
  /\ name' \in Names \ {name}
  /\ Written
  /\ UNCHANGED <<links, findings, status, rationale, writers>>

Numberings == {o \in [Phrase -> 1..Cardinality(Phrase)] : \A x, y \in Phrase : o[x] = o[y] => x = y}

(* The server is started again, with a hash seed of its own.               *)
Restart ==
  /\ restarts < MaxRestarts /\ restarts' = restarts + 1
  /\ order' \in Numberings
  /\ at' = [c \in Client |-> "idle"] /\ got' = [c \in Client |-> Idle]
  /\ quiet' = [c \in Client |-> TRUE]
  /\ cleared' = [w \in Writer |-> "nothing"]
  /\ UNCHANGED <<record, approvals, copies, late, writes>>

ExportsInit ==
  /\ links = FirstLinks
  /\ findings = [p \in Practice |-> "none"]
  /\ status = "in_review"
  /\ cleared = [w \in Writer |-> "nothing"] /\ late = 0
  /\ rationale = [p \in Practice |-> {}]
  /\ name \in Names
  /\ approvals = <<>> /\ copies = {}
  /\ order \in Numberings
  /\ at = [c \in Client |-> "idle"] /\ got = [c \in Client |-> Idle]
  /\ quiet = [c \in Client |-> TRUE]
  /\ writes = 0 /\ restarts = 0

ExportsNext ==
  \/ \E c \in Client : Call(c)
  \/ \E w \in Writer :
       \/ CheckWritable(w) \/ CheckTransition(w)
       \/ ReviewLinks(w) \/ Judge(w) \/ UpdateStatus(w)
  \/ Rename \/ Restart

ExportsSpec == ExportsInit /\ [][ExportsNext]_all

-----------------------------------------------------------------------------
(* Properties.                                                             *)

(* ADR-0032: what leaves as a sanitized copy is what somebody approved, to *)
(* the last figure, whatever is written while it is built.                 *)
ExportWasApproved ==
  \A copy \in copies :
    copy.kind = "sanitized" => \E i \in DOMAIN approvals : approvals[i].hash = copy.report

(* An approval is found stale only when the content has changed, or when   *)
(* the server was started again and numbers the terms in another order.    *)
StaleOnlyIfChanged ==
  \A c \in Client :
    at[c] = "refused" => \/ Dashboard(got[c]) # got[c].approved.of
                         \/ restarts # got[c].approved.epoch

(* What a report built without a write in between would say now.           *)
Now == Dashboard([status |-> status, links |-> links, findings |-> findings,
                  rationale |-> rationale, name |-> name])

Figures(report) ==
  <<report.situation, report.complication, report.progress, report.overall, report.scores>>

(* A copy that says it is of a finalized assessment shows the figures of   *)
(* the finalized record, to the last one: the status is the first thing    *)
(* that is read.  Only a write that was checked before the finalization    *)
(* and landed after the status was read makes the two differ, or takes the *)
(* record out of that status again.                                        *)
FinalizedCopyIsFinal ==
  \A copy \in copies :
    copy.report.status = "finalized" /\ copy.late = late =>
      status = "finalized" /\ Figures(copy.report) = Figures(Now)

(* What the holder of a copy compares by eye with what the record says:    *)
(* status, counts of links, headline, scores, the unmet practices of each  *)
(* domain, and in a domain that has any the chart, under the cumulative    *)
(* model the level that blocks it.                                         *)
AsPrinted(page, report) ==
  /\ page.status = report.status
  /\ page.situation.total = report.situation.total
  /\ page.situation.counts = report.situation.counts
  /\ SameScores(page, report)
  /\ Unmet(page.complication) = Unmet(report.complication)
  /\ \A d \in DOMAIN page.complication :
       IF Model = "coverage"
         THEN page.progress[d] = report.progress[d]
         ELSE page.progress[d].blocking = report.progress[d].blocking

(* ADR-0077: a check that no write overlaps calls a copy current if, and   *)
(* only if, what is printed on it is what the record says, the charts that *)
(* the digest does not cover included; and a copy of a finalized           *)
(* assessment is superseded only by a write that landed late.              *)
CurrencyIsRight ==
  \A c \in Client :
    LET copy == got[c].copy
    IN  /\ at[c] = "current" /\ quiet[c] => AsPrinted(copy.report, Now)
        /\ at[c] = "superseded" =>
             /\ quiet[c] => ~AsPrinted(copy.report, Now)
             /\ copy.report.status = "finalized" => copy.late # late

=============================================================================
