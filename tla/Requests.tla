------------------------------- MODULE Requests -------------------------------
(***************************************************************************)
(* The requests a server answers about its assessments: whose rows they    *)
(* write, under whose name, and over which evidence.  A request names an   *)
(* assessment in its path and other things by ids, which may belong to     *)
(* another assessment or to none.  One that is refused writes nothing.     *)
(*                                                                         *)
(* Requests do not overlap here, that is the subject of AssessmentRecord.  *)
(* Documents come and go in between: ingestion writes the vector table     *)
(* through a handle of its own, and requests read it through one that was  *)
(* opened once and is kept.                                                *)
(***************************************************************************)
EXTENDS Refusals, FiniteSets

CONSTANTS
  Assessment, Doc, Chunk,
  DocOf,            \* the document of each chunk
  Organization,     \* of each assessment and document
  Domains,          \* of each assessment's framework, None without a schema
  Practice,         \* the practices a request may name
  Person,           \* whom the proxy may authenticate
  Claimed,          \* names a request's body may give
  Embedder,         \* whether the server has one
  Confidence,       \* of proposals, in hundredths
  MaxLinks, MaxRequests, MaxServed, MaxDeleted  \* bounds

ASSUME BoundsAssumption == {MaxLinks, MaxRequests, MaxServed, MaxDeleted} \subseteq Nat
ASSUME ChunksAssumption == DocOf \in [Chunk -> Doc] /\ Embedder \in BOOLEAN

VARIABLES
  status, links, findings, requests, attached,  \* the tables of the record
  chunks,   \* of each chunk: unwritten, stored or deleted
  handle,   \* the chunks the kept handle shows, None before it is opened
  asked,    \* the assessment last addressed, and the name the proxy gave
  served    \* how many requests changed something

record == <<status, links, findings, requests, attached>>
vars   == <<record, chunks, handle, asked, served>>

-----------------------------------------------------------------------------
(* Callers.  A blank header counts as a missing one.                       *)

Unauthenticated == "unauthenticated"
Header == Person \cup {None}
Actor(header) == IF header = None THEN Unauthenticated ELSE header

(* Fault: the name in the request's body counts first.                     *)
ClaimedBy(actor, claimed) == IF claimed # None THEN claimed ELSE actor

AttributedTo(actor, claimed) ==
  IF actor # Unauthenticated \/ claimed = None THEN actor ELSE claimed

-----------------------------------------------------------------------------
(* The vector table.  It is written through handles opened for the         *)
(* purpose and read through one that is kept, which shows the table as it  *)
(* was when it was opened or last refreshed.                               *)

InStore == {c \in Chunk : chunks[c] = "stored"}

(* Fault: the handle is kept as it was opened.                             *)
KeptAsOpened == handle

Refreshed == InStore

Opened == IF handle = None THEN InStore ELSE Refreshed

ChunksOf(d) == {c \in Opened : DocOf[c] = d}

-----------------------------------------------------------------------------
(* What a request is refused for.                                          *)

Writable(a) == status[a] # "finalized"

Cited(a) == {i \in DOMAIN links : links[i].assessment = a}
Asked(a) == {i \in DOMAIN requests : requests[i].assessment = a}

(* Fault: a link is found by its id alone.                                 *)
FoundAnywhere(a, ids) == ids \subseteq DOMAIN links

Found(a, ids) == ids \subseteq Cited(a)

PracticesOf(a) == IF Domains[a] = None THEN {} ELSE UNION {Domains[a][d] : d \in DOMAIN Domains[a]}
KnownPractice(a, p) == Domains[a] # None => p \in PracticesOf(a)

OneClient(a, d) == Organization[d] \in {Organization[a], None}

Allowed == [draft |-> {"in_review"}, in_review |-> {"draft", "finalized"}, finalized |-> {}]

Backed(a) == {links[i].practice : i \in {j \in Cited(a) : links[j].review \in {"accepted", "edited"}}}

(* finalization_readiness.                                                 *)
Ready(a) ==
  /\ \A i \in Cited(a) : links[i].review # "pending"
  /\ \A i \in Asked(a) : requests[i].resolvedBy # None
  /\ \A p \in Practice :
       findings[a][p].status \in {"satisfied", "not_applicable"} => p \in Backed(a)
  /\ Domains[a] # None

(* not_satisfied stands for the three cautious verdicts; a text is blank   *)
(* or not.                                                                 *)
Decision      == {"accepted", "edited", "rejected"}
FindingStatus == {"satisfied", "not_satisfied", "not_applicable"}
Blank         == ""
Text          == {Blank, "given"}

-----------------------------------------------------------------------------
(* What the repository writes.  attach_document keeps a row that is        *)
(* already there, a request that is resolved is resolved once more.        *)

NewLink(a, body, confidence, by) ==
  [assessment |-> a, doc |-> body.doc, chunk |-> body.chunk, practice |-> body.practice,
   source |-> body.source, review |-> IF body.source = "manual" THEN "accepted" ELSE "pending",
   confidence |-> confidence, by |-> by, reviewer |-> None]

AddLink(link) == links' = Append(links, link)

WithAttached(a, d, by) ==
  IF \E x \in attached : x.assessment = a /\ x.doc = d THEN attached
  ELSE attached \cup {[assessment |-> a, doc |-> d, by |-> by]}

WriteReview(i, decision, p, by) ==
  links' = [links EXCEPT
    ![i].review   = decision,
    ![i].reviewer = by,
    ![i].practice = IF decision = "edited" THEN p ELSE @]

RejectPending(ids, by) ==
  links' = [i \in DOMAIN links |->
    IF i \in ids /\ links[i].review = "pending"
    THEN [links[i] EXCEPT !.review = "rejected", !.reviewer = by]
    ELSE links[i]]

WriteFinding(a, p, to, by) == findings' = [findings EXCEPT ![a][p] = [status |-> to, by |-> by]]

AddRequest(a, by) ==
  requests' = Append(requests, [assessment |-> a, by |-> by, resolvedBy |-> None])

WriteResolution(i, by) == requests' = [requests EXCEPT ![i].resolvedBy = by]

-----------------------------------------------------------------------------
(* The checks of each call, in their order.                                *)

OpenRecord(a)     == <<~Writable(a), "AssessmentFinalized">>
InFramework(a, p) == <<~KnownPractice(a, p), "InvalidPracticeReference">>
SameClient(a, d)  == <<~OneClient(a, d), "CrossOrganizationAttachment">>
Ingested(d)       == <<ChunksOf(d) = {}, "EvidenceDocumentNotIngested">>

TransitionChecks(a, to) ==
  <<<<to \notin Allowed[status[a]], "InvalidStatusTransition">>,
    <<to = "finalized" /\ ~Ready(a), "AssessmentNotReadyForFinalization">>>>

AttachChecks(a, d) == <<Ingested(d), SameClient(a, d), OpenRecord(a)>>

(* Fault: a link that was rejected does not count.                         *)
DetachChecksLive(a, d) ==
  <<<<\E i \in Cited(a) : links[i].doc = d /\ links[i].review # "rejected", "DocumentStillCited">>,
    OpenRecord(a),
    <<~\E x \in attached : x.assessment = a /\ x.doc = d, "DocumentNotAttached">>>>

DetachChecks(a, d) ==
  <<<<\E i \in Cited(a) : links[i].doc = d, "DocumentStillCited">>,
    OpenRecord(a),
    <<~\E x \in attached : x.assessment = a /\ x.doc = d, "DocumentNotAttached">>>>

LinkChecks(a, body) ==
  <<OpenRecord(a), Ingested(body.doc),
    <<body.chunk \notin ChunksOf(body.doc) \cup {None}, "EvidenceDocumentNotIngested">>,
    SameClient(a, body.doc), InFramework(a, body.practice)>>

RejectionChecks(a, ids) == <<OpenRecord(a), <<~Found(a, ids), "EvidenceLinkNotFound">>>>

ReviewChecks(a, i, body) ==
  <<<<body.decision \notin Decision, "InvalidReviewDecision">>,
    OpenRecord(a),
    <<~Found(a, {i}), "EvidenceLinkNotFound">>,
    <<i \in DOMAIN links /\ links[i].review # "pending", "EvidenceAlreadyReviewed">>,
    <<body.decision = "edited" /\ body.practice = None, "ValueError">>,
    <<body.decision = "edited" /\ ~KnownPractice(a, body.practice), "InvalidPracticeReference">>>>

FindingChecks(a, p, rationale) ==
  <<OpenRecord(a), <<rationale = Blank, "MissingFindingRationale">>, InFramework(a, p)>>

RequestChecks(a, p, note) ==
  <<OpenRecord(a), <<note = Blank, "MissingEvidenceRequestNote">>, InFramework(a, p)>>

ResolutionChecks(a, i) == <<OpenRecord(a), <<i \notin Asked(a), "EvidenceRequestNotFound">>>>

ProposalChecks(a) ==
  <<OpenRecord(a), <<~Embedder, "MappingEngineUnavailable">>,
    <<Domains[a] = None, "FrameworkScoringUnavailable">>>>

Accepted(checks) == RefusedAs(checks) = None

-----------------------------------------------------------------------------
(* The service.  A call that is refused writes nothing.                    *)

Transition(a, to) ==
  /\ Accepted(TransitionChecks(a, to))
  /\ status' = [status EXCEPT ![a] = to]
  /\ UNCHANGED <<links, findings, requests, attached, handle>>

Attach(a, d, actor) ==
  /\ Accepted(AttachChecks(a, d))
  /\ attached' = WithAttached(a, d, actor)
  /\ handle' = Opened
  /\ UNCHANGED <<status, links, findings, requests>>

Detach(a, d) ==
  /\ Accepted(DetachChecks(a, d))
  /\ attached' = {x \in attached : x.assessment # a \/ x.doc # d}
  /\ UNCHANGED <<status, links, findings, requests, handle>>

LinkEvidence(a, body, actor) ==
  /\ Len(links) < MaxLinks
  /\ Accepted(LinkChecks(a, body))
  /\ AddLink(NewLink(a, body, None, actor))
  /\ attached' = WithAttached(a, body.doc, actor)
  /\ handle' = Opened
  /\ UNCHANGED <<status, findings, requests>>

BulkReject(a, ids, actor) ==
  /\ Accepted(RejectionChecks(a, ids))
  /\ RejectPending(ids, actor)
  /\ UNCHANGED <<status, findings, requests, attached, handle>>

Review(a, i, body, actor) ==
  /\ Accepted(ReviewChecks(a, i, body))
  /\ WriteReview(i, body.decision, body.practice, actor)
  /\ UNCHANGED <<status, findings, requests, attached, handle>>

SetFinding(a, p, to, rationale, actor) ==
  /\ Accepted(FindingChecks(a, p, rationale))
  /\ WriteFinding(a, p, to, actor)
  /\ UNCHANGED <<status, links, requests, attached, handle>>

RequestMore(a, p, note, requestedBy, actor) ==
  /\ Len(requests) < MaxRequests
  /\ Accepted(RequestChecks(a, p, note))
  /\ AddRequest(a, AttributedTo(actor, requestedBy))
  /\ UNCHANGED <<status, links, findings, attached, handle>>

Resolve(a, i, resolvedBy, actor) ==
  /\ Accepted(ResolutionChecks(a, i))
  /\ WriteResolution(i, AttributedTo(actor, resolvedBy))
  /\ UNCHANGED <<status, links, findings, attached, handle>>

Uncovered(a) ==
  PracticesOf(a) \ {links[i].practice : i \in {j \in Cited(a) : links[j].review # "rejected"}}

Searched(a) ==
  {c \in Opened : \E x \in attached : x.assessment = a /\ x.doc = DocOf[c]}

(* One of the engine's proposals; Mapping says which, and how many.        *)
Propose(a, actor) ==
  /\ Accepted(ProposalChecks(a))
  /\ Len(links) < MaxLinks
  /\ \E p \in Uncovered(a), c \in Searched(a), confidence \in Confidence :
       LET found == [doc |-> DocOf[c], chunk |-> c, practice |-> p, source |-> "proposed"]
       IN  AddLink(NewLink(a, found, confidence, actor))
  /\ handle' = Opened
  /\ UNCHANGED <<status, findings, requests, attached>>

-----------------------------------------------------------------------------
(* The endpoints, with all that a path and a body may name.  A client may  *)
(* call the link it posts a proposal; it has no confidence then either.    *)

PostStatus(a)           == \E to \in {"draft", "in_review", "finalized"} : Transition(a, to)
PostDocument(a, actor)  == \E d \in Doc : Attach(a, d, actor)
DeleteDocument(a)       == \E d \in Doc : Detach(a, d)

LinkBody == [doc : Doc, chunk : Chunk \cup {None}, practice : Practice,
             source : {"manual", "proposed"}]
PostEvidence(a, actor)  == \E body \in LinkBody : LinkEvidence(a, body, actor)

PostRejection(a, actor) == \E ids \in SUBSET DOMAIN links : BulkReject(a, ids, actor)

ReviewBody == [decision : Decision \cup {"pending"}, practice : Practice \cup {None}]
PostReview(a, actor) ==
  \E i \in DOMAIN links, body \in ReviewBody : Review(a, i, body, actor)

PutFinding(a, actor) ==
  \E p \in Practice, to \in FindingStatus, rationale \in Text : SetFinding(a, p, to, rationale, actor)

PostRequest(a, actor) ==
  \E p \in Practice, note \in Text, name \in Claimed \cup {None} :
    RequestMore(a, p, note, name, actor)

PostResolution(a, actor) ==
  \E i \in DOMAIN requests, name \in Claimed \cup {None} : Resolve(a, i, name, actor)

PostProposals(a, actor) == Propose(a, actor)

Serve(a, header) ==
  /\ served < MaxServed
  /\ served' = served + 1
  /\ asked' = [assessment |-> a, name |-> header]
  /\ UNCHANGED chunks
  /\ \/ PostStatus(a)
     \/ PostDocument(a, Actor(header))
     \/ DeleteDocument(a)
     \/ PostEvidence(a, Actor(header))
     \/ PostRejection(a, Actor(header))
     \/ PostReview(a, Actor(header))
     \/ PutFinding(a, Actor(header))
     \/ PostRequest(a, Actor(header))
     \/ PostResolution(a, Actor(header))
     \/ PostProposals(a, Actor(header))

-----------------------------------------------------------------------------
(* What happens to the vector table and to the process meanwhile.          *)

(* A request that only reads, or is refused after it has read.             *)
Read == handle # Opened /\ handle' = Opened /\ UNCHANGED <<record, chunks, asked, served>>

(* add_chunks of an ingestion, or of the maintenance tool cutting anew.    *)
Store ==
  \E c \in Chunk :
    /\ chunks[c] = "unwritten"
    /\ chunks' = [chunks EXCEPT ![c] = "stored"]
    /\ UNCHANGED <<record, handle, asked, served>>

(* delete_chunks: of a failed ingestion, or before the tool adds the       *)
(* chunks it has cut anew.  All the document has stored go.                *)
Withdraw ==
  \E d \in Doc :
    /\ Cardinality({c \in Chunk : chunks[c] = "deleted"}) < MaxDeleted
    /\ \E c \in InStore : DocOf[c] = d
    /\ chunks' = [c \in Chunk |->
         IF DocOf[c] = d /\ c \in InStore THEN "deleted" ELSE chunks[c]]
    /\ UNCHANGED <<record, handle, asked, served>>

Restart == handle # None /\ handle' = None /\ UNCHANGED <<record, chunks, asked, served>>

(* Each assessment starts with a document attached and a proposal to       *)
(* review.                                                                 *)
InitOf(start) ==
  /\ status = [a \in Assessment |-> "draft"]
  /\ links \in {[i \in DOMAIN start |->
       LET found == [doc |-> DocOf[start[i].chunk], chunk |-> start[i].chunk,
                     practice |-> start[i].practice, source |-> "proposed"]
       IN  NewLink(start[i].assessment, found, c[i], Unauthenticated)] :
         c \in [DOMAIN start -> Confidence]}
  /\ findings = [a \in Assessment |-> [p \in Practice |-> [status |-> None, by |-> None]]]
  /\ requests = <<>>
  /\ attached = {[assessment |-> links[i].assessment, doc |-> links[i].doc,
                  by |-> Unauthenticated] : i \in DOMAIN links}
  /\ chunks = [c \in Chunk |->
       IF \E i \in DOMAIN start : start[i].chunk = c THEN "stored" ELSE "unwritten"]
  /\ handle = None
  /\ asked = [assessment |-> None, name |-> None]
  /\ served = 0

Next ==
  \/ \E a \in Assessment, header \in Header : Serve(a, header)
  \/ Read \/ Store \/ Withdraw \/ Restart

SpecOf(start) == InitOf(start) /\ [][Next]_vars

-----------------------------------------------------------------------------
(* Properties.                                                             *)

(* What an assessment's record consists of. *)
RowsOf(a) ==
  <<status[a], findings[a], {x \in attached : x.assessment = a},
    [i \in Cited(a) |-> links[i]], [i \in Asked(a) |-> requests[i]]>>

(* Every name in the record, and where it stands. *)
Names ==
  {<<"linked", i, links[i].by>> : i \in DOMAIN links}
  \cup {<<"reviewed", i, links[i].reviewer>> : i \in DOMAIN links}
  \cup {<<"asked", i, requests[i].by>> : i \in DOMAIN requests}
  \cup {<<"resolved", i, requests[i].resolvedBy>> : i \in DOMAIN requests}
  \cup {<<"judged", x, findings[x[1]][x[2]].by>> : x \in Assessment \X Practice}
  \cup {<<"attached", <<x.assessment, x.doc>>, x.by>> : x \in attached}

(* A request that is carried out changes nothing of any assessment but the *)
(* one in its path, whichever links and requests its body names            *)
(* (bulk_reject_evidence_links, review_evidence, resolve_evidence_request),*)
(* and whoever the proxy authenticated is the only person it writes into   *)
(* the record, whatever name its body gives (request_more_evidence,        *)
(* resolve_evidence_request); a name is never taken away again.            *)
WritesItsOwn ==
  [][served' # served =>
       /\ \A a \in Assessment \ {asked'.assessment} : RowsOf(a)' = RowsOf(a)
       /\ asked'.name # None =>
            \A n \in Names' \ Names :
              \/ n[3] = asked'.name
              \/ n[3] = None /\ \A m \in Names : m[1] # n[1] \/ m[2] # n[2]]_vars

(* A request that is refused as malformed, and one that meets a finalized  *)
(* record, a link that was decided, a document of another client or one    *)
(* that was ever cited, need not be sent again.                            *)
Lasting ==
  {r \in Refusal \ {"EvidenceDocumentNotIngested"} : StatusCode[r] \in {400, 422, 503}}
  \cup {"AssessmentFinalized", "EvidenceAlreadyReviewed", "CrossOrganizationAttachment",
        "DocumentStillCited"}

Hopeless(checks) == \E i \in DOMAIN checks : checks[i][1] /\ checks[i][2] \in Lasting

(* What stands against a request for one of these reasons stands for ever, *)
(* whatever is written and reviewed in between, so that a client which     *)
(* gives up on such an answer misses nothing.  That a document which was   *)
(* cited once can never be detached is not what detach_document's          *)
(* docstring and message say.  The calls left out have no lasting reason   *)
(* but those of SetFinding.                                                *)
RefusalLasts ==
  [][\A a \in Assessment :
       /\ \A d \in Doc :
            /\ Hopeless(AttachChecks(a, d)) => Hopeless(AttachChecks(a, d))'
            /\ Hopeless(DetachChecks(a, d)) => Hopeless(DetachChecks(a, d))'
            /\ \A p \in Practice :
                 LET body == [doc |-> d, chunk |-> None, practice |-> p]
                 IN  Hopeless(LinkChecks(a, body)) => Hopeless(LinkChecks(a, body))'
       /\ \A i \in DOMAIN links :
            \A p \in Practice :
              LET body == [decision |-> "edited", practice |-> p]
              IN  Hopeless(ReviewChecks(a, i, body)) => Hopeless(ReviewChecks(a, i, body))'
       /\ \A p \in Practice :
            Hopeless(FindingChecks(a, p, "given")) => Hopeless(FindingChecks(a, p, "given"))']_record

(* A citation or attachment that is accepted is of a document that has     *)
(* chunks in the store at that moment, and of a chunk that is there: also  *)
(* after others wrote the table the kept handle shows                      *)
(* (VectorRepository._open_existing_table).                                *)
CitesWhatIsStored ==
  [][/\ \A i \in DOMAIN links' \ DOMAIN links :
          /\ \E c \in InStore : DocOf[c] = links'[i].doc
          /\ links'[i].chunk \in InStore \cup {None}
     /\ \A x \in attached' \ attached : \E c \in InStore : DocOf[c] = x.doc]_vars

=============================================================================
