---------------------------- MODULE Requests_proofs ----------------------------
(***************************************************************************)
(* The properties of Requests, and of the answers Queue reads from its     *)
(* rows, for any number of assessments, documents, people and requests.    *)
(*                                                                         *)
(* Every call that is carried out is one RecordStep: what it may do to     *)
(* each table, of one assessment and under one name, given what the checks *)
(* it passed have left.  The theorems about requests are read off it; what *)
(* is said of the queue and of answers follows from the types of the rows. *)
(***************************************************************************)
EXTENDS Queue, SequenceTheorems, FiniteSetTheorems, WellFoundedInduction, TLAPS

(* Any set of numbers that is not empty has a least one.                   *)
LEMMA LeastNat ==
  ASSUME NEW S \in SUBSET Nat, S # {}
  PROVE  \E n \in S : \A m \in S : n <= m
<1> DEFINE R == OpToRel(<, Nat)
<1>1. IsWellFoundedOn(R, Nat)
  BY NatLessThanWellFounded
<1>2. ASSUME NEW m \in Nat, NEW n \in Nat, m < n PROVE <<m, n>> \in R
  BY <1>2 DEF OpToRel
<1> HIDE DEF R
<1>3. PICK n \in S : \A m \in S : ~ (<<m, n>> \in R)
  BY <1>1, WFMin
<1>4. ASSUME NEW m \in S PROVE n <= m
  <2>1. ~(m < n)
    BY <1>2, <1>3, Zenon
  <2>q. QED BY <2>1
<1>q. QED BY <1>4

(* A call that is not refused has passed every one of its checks.          *)
LEMMA AcceptedPassesAll ==
  ASSUME NEW checks, NEW n \in Nat, DOMAIN checks = 1..n,
         \A i \in 1..n : checks[i][2] \in Refusal, Accepted(checks)
  PROVE  \A i \in 1..n : ~checks[i][1]
<1> SUFFICES ASSUME Failed(checks) # {} PROVE FALSE
  BY DEF Failed
<1>1. Failed(checks) \subseteq 1..n
  BY DEF Failed
<1>2. Failed(checks) \in SUBSET Nat
  BY <1>1
<1>3. \E i \in Failed(checks) : \A j \in Failed(checks) : i <= j
  BY <1>2, LeastNat
<1> DEFINE k == CHOOSE i \in Failed(checks) : \A j \in Failed(checks) : i <= j
<1>4. k \in Failed(checks)
  BY <1>3
<1>5. RefusedAs(checks) = checks[k][2]
  BY DEF RefusedAs
<1>6. checks[k][2] \in Refusal
  BY <1>1, <1>4
<1>q. QED BY <1>5, <1>6, NoneAssumption DEF Accepted

-----------------------------------------------------------------------------
(* What each call that is carried out was checked for.                     *)

LEMMA TransitionPasses ==
  ASSUME NEW a, NEW to, Accepted(TransitionChecks(a, to))
  PROVE  to \in Allowed[status[a]]
<1> DEFINE C == TransitionChecks(a, to)
<1>1. DOMAIN C = 1..2 /\ \A k \in 1..2 : C[k][2] \in Refusal
  BY DEF TransitionChecks, Refusal, RecordRefusal, DocumentRefusal,
    FrameworkRefusal, ReviewRefusal, SetupRefusal, SharedRefusal, ValueRefusal
<1>2. \A k \in 1..2 : ~C[k][1]
  <2>1. Accepted(C)
    OBVIOUS
  <2> HIDE DEF C
  <2>q. QED BY <1>1, <2>1, AcceptedPassesAll
<1>3. to \in Allowed[status[a]]
  <2>1. ~C[1][1]
    BY <1>2
  <2>q. QED BY <2>1 DEF TransitionChecks
<1>q. QED BY <1>3

LEMMA AttachPasses ==
  ASSUME NEW a, NEW d, Accepted(AttachChecks(a, d))
  PROVE  ChunksOf(d) # {}
<1> DEFINE C == AttachChecks(a, d)
<1>1. DOMAIN C = 1..3 /\ \A k \in 1..3 : C[k][2] \in Refusal
  BY DEF AttachChecks, OpenRecord, Ingested, SameClient, Refusal, RecordRefusal, DocumentRefusal,
    FrameworkRefusal, ReviewRefusal, SetupRefusal, SharedRefusal, ValueRefusal
<1>2. \A k \in 1..3 : ~C[k][1]
  <2>1. Accepted(C)
    OBVIOUS
  <2> HIDE DEF C
  <2>q. QED BY <1>1, <2>1, AcceptedPassesAll
<1>3. ChunksOf(d) # {}
  <2>1. ~C[1][1]
    BY <1>2
  <2>q. QED BY <2>1 DEF AttachChecks, Ingested
<1>q. QED BY <1>3

LEMMA LinkPasses ==
  ASSUME NEW a, NEW body, Accepted(LinkChecks(a, body))
  PROVE  ChunksOf(body.doc) # {} /\ body.chunk \in ChunksOf(body.doc) \cup {None}
<1> DEFINE C == LinkChecks(a, body)
<1>1. DOMAIN C = 1..5 /\ \A k \in 1..5 : C[k][2] \in Refusal
  BY DEF LinkChecks, OpenRecord, Ingested, SameClient, InFramework, Refusal, RecordRefusal, DocumentRefusal,
    FrameworkRefusal, ReviewRefusal, SetupRefusal, SharedRefusal, ValueRefusal
<1>2. \A k \in 1..5 : ~C[k][1]
  <2>1. Accepted(C)
    OBVIOUS
  <2> HIDE DEF C
  <2>q. QED BY <1>1, <2>1, AcceptedPassesAll
<1>3. ChunksOf(body.doc) # {}
  <2>1. ~C[2][1]
    BY <1>2
  <2>q. QED BY <2>1 DEF LinkChecks, Ingested
<1>4. body.chunk \in ChunksOf(body.doc) \cup {None}
  <2>1. ~C[3][1]
    BY <1>2
  <2>q. QED BY <2>1 DEF LinkChecks
<1>q. QED BY <1>3, <1>4

LEMMA RejectionPasses ==
  ASSUME NEW a, NEW ids, Accepted(RejectionChecks(a, ids))
  PROVE  ids \subseteq Cited(a)
<1> DEFINE C == RejectionChecks(a, ids)
<1>1. DOMAIN C = 1..2 /\ \A k \in 1..2 : C[k][2] \in Refusal
  BY DEF RejectionChecks, OpenRecord, Refusal, RecordRefusal, DocumentRefusal,
    FrameworkRefusal, ReviewRefusal, SetupRefusal, SharedRefusal, ValueRefusal
<1>2. \A k \in 1..2 : ~C[k][1]
  <2>1. Accepted(C)
    OBVIOUS
  <2> HIDE DEF C
  <2>q. QED BY <1>1, <2>1, AcceptedPassesAll
<1>3. ids \subseteq Cited(a)
  <2>1. ~C[2][1]
    BY <1>2
  <2>q. QED BY <2>1 DEF RejectionChecks, Found
<1>q. QED BY <1>3

LEMMA ReviewPasses ==
  ASSUME NEW a, NEW i, NEW body, Accepted(ReviewChecks(a, i, body))
  PROVE  /\ body.decision \in Decision
         /\ i \in Cited(a) /\ links[i].review = "pending"
         /\ body.decision = "edited" => body.practice # None
<1> DEFINE C == ReviewChecks(a, i, body)
<1>1. DOMAIN C = 1..6 /\ \A k \in 1..6 : C[k][2] \in Refusal
  BY DEF ReviewChecks, OpenRecord, Refusal, RecordRefusal, DocumentRefusal,
    FrameworkRefusal, ReviewRefusal, SetupRefusal, SharedRefusal, ValueRefusal
<1>2. \A k \in 1..6 : ~C[k][1]
  <2>1. Accepted(C)
    OBVIOUS
  <2> HIDE DEF C
  <2>q. QED BY <1>1, <2>1, AcceptedPassesAll
<1>3. body.decision \in Decision
  <2>1. ~C[1][1]
    BY <1>2
  <2>q. QED BY <2>1 DEF ReviewChecks
<1>4. i \in Cited(a)
  <2>1. ~C[3][1]
    BY <1>2
  <2>q. QED BY <2>1 DEF ReviewChecks, Found
<1>5. links[i].review = "pending"
  <2>1. ~C[4][1] /\ i \in DOMAIN links
    BY <1>2, <1>4 DEF Cited
  <2>q. QED BY <2>1 DEF ReviewChecks
<1>6. body.decision = "edited" => body.practice # None
  <2>1. ~C[5][1]
    BY <1>2
  <2>q. QED BY <2>1 DEF ReviewChecks
<1>q. QED BY <1>3, <1>4, <1>5, <1>6

LEMMA ResolutionPasses ==
  ASSUME NEW a, NEW i, Accepted(ResolutionChecks(a, i))
  PROVE  i \in Asked(a)
<1> DEFINE C == ResolutionChecks(a, i)
<1>1. DOMAIN C = 1..2 /\ \A k \in 1..2 : C[k][2] \in Refusal
  BY DEF ResolutionChecks, OpenRecord, Refusal, RecordRefusal, DocumentRefusal,
    FrameworkRefusal, ReviewRefusal, SetupRefusal, SharedRefusal, ValueRefusal
<1>2. \A k \in 1..2 : ~C[k][1]
  <2>1. Accepted(C)
    OBVIOUS
  <2> HIDE DEF C
  <2>q. QED BY <1>1, <2>1, AcceptedPassesAll
<1>3. i \in Asked(a)
  <2>1. ~C[2][1]
    BY <1>2
  <2>q. QED BY <2>1 DEF ResolutionChecks
<1>q. QED BY <1>3

-----------------------------------------------------------------------------
(* Types.                                                                  *)

Name == Person \cup Claimed \cup {None, Unauthenticated}

Assigned == Practice \cup UNION {PracticesOf(a) : a \in Assessment}

LinkRow ==
  [assessment : Assessment, doc : Doc, chunk : Chunk \cup {None}, practice : Assigned,
   source : {"manual", "proposed"}, review : Decision \cup {"pending"},
   confidence : Confidence \cup {None}, by : Name, reviewer : Name]

RequestRow == [assessment : Assessment, by : Name, resolvedBy : Name]

RowsOK ==
  /\ status \in [Assessment -> {"draft", "in_review", "finalized"}]
  /\ links \in Seq(LinkRow)
  /\ findings \in [Assessment -> [Practice -> [status : FindingStatus \cup {None}, by : Name]]]
  /\ requests \in Seq(RequestRow)
  /\ attached \subseteq [assessment : Assessment, doc : Doc, by : Name]

-----------------------------------------------------------------------------
(* What a call does to each table, for an assessment and under a name.     *)

IsStored(d) == \E c \in InStore : DocOf[c] = d

StatusStep(a) ==
  status' = status \/ \E to \in Allowed[status[a]] : status' = [status EXCEPT ![a] = to]

LinkAdded(a, by) ==
  \E row \in LinkRow :
    /\ row.assessment = a /\ row.by = by /\ row.reviewer = None
    /\ IsStored(row.doc) /\ row.chunk \in InStore \cup {None}
    /\ links' = Append(links, row)

Decides(row, new, a, by) ==
  /\ row.assessment = a /\ row.review = "pending"
  /\ new.review # "pending" /\ new.reviewer = by
  /\ new.assessment = a /\ new.doc = row.doc /\ new.chunk = row.chunk /\ new.by = row.by

LinksDecided(a, by) ==
  /\ links' \in Seq(LinkRow) /\ DOMAIN links' = DOMAIN links
  /\ \A i \in DOMAIN links : links'[i] = links[i] \/ Decides(links[i], links'[i], a, by)

LinksStep(a, by) == links' = links \/ LinkAdded(a, by) \/ LinksDecided(a, by)

Attaches(a, by) ==
  \E d \in Doc :
    /\ IsStored(d) /\ ~ \E x \in attached : x.assessment = a /\ x.doc = d
    /\ attached' = attached \cup {[assessment |-> a, doc |-> d, by |-> by]}

AttachedStep(a, by) ==
  \/ attached' \subseteq attached /\ \A x \in attached \ attached' : x.assessment = a
  \/ Attaches(a, by)

FindingsStep(a, by) ==
  \/ findings' = findings
  \/ \E p \in Practice, to \in FindingStatus :
       findings' = [findings EXCEPT ![a][p] = [status |-> to, by |-> by]]

RequestsStep(a, by) ==
  \/ requests' = requests
  \/ \E name \in Claimed \cup {None} :
       requests' = Append(requests, [assessment |-> a, by |-> AttributedTo(by, name),
                                     resolvedBy |-> None])
  \/ \E name \in Claimed \cup {None}, i \in Asked(a) :
       requests' = [requests EXCEPT ![i].resolvedBy = AttributedTo(by, name)]

RecordStep(a, by) ==
  /\ StatusStep(a) /\ LinksStep(a, by) /\ AttachedStep(a, by)
  /\ FindingsStep(a, by) /\ RequestsStep(a, by)

(* The kept handle shows what is stored, each time it is used.             *)
LEMMA HandleIsFresh == Opened = InStore
BY DEF Opened, Refreshed

LEMMA OpenedDocIsStored ==
  ASSUME NEW d, ChunksOf(d) # {}
  PROVE  IsStored(d) /\ ChunksOf(d) \subseteq InStore
BY HandleIsFresh DEF ChunksOf, IsStored

LEMMA WithAttachedAttaches ==
  ASSUME NEW a, NEW d \in Doc, NEW by, IsStored(d), attached' = WithAttached(a, d, by)
  PROVE  AttachedStep(a, by)
BY DEF WithAttached, AttachedStep, Attaches

LEMMA NewLinkIsRow ==
  ASSUME NEW a \in Assessment, NEW by \in Name, NEW confidence \in Confidence \cup {None},
         NEW d \in Doc, NEW c \in Chunk \cup {None}, NEW p \in Assigned,
         NEW source \in {"manual", "proposed"}, NEW body,
         body = [doc |-> d, chunk |-> c, practice |-> p, source |-> source]
  PROVE  LET row == NewLink(a, body, confidence, by)
         IN  /\ row \in LinkRow /\ row.assessment = a /\ row.by = by /\ row.reviewer = None
             /\ row.doc = d /\ row.chunk = c
<1>1. None \in Name
  BY DEF Name
<1>q. QED BY <1>1 DEF NewLink, LinkRow, Decision

LEMMA PostEvidenceStep ==
  ASSUME RowsOK, NEW a \in Assessment, NEW by \in Name, PostEvidence(a, by)
  PROVE  RecordStep(a, by)
<1>1. PICK body \in LinkBody : LinkEvidence(a, body, by)
  BY DEF PostEvidence
<1>2. /\ body.doc \in Doc /\ body.chunk \in Chunk \cup {None} /\ body.practice \in Assigned
      /\ body.source \in {"manual", "proposed"}
      /\ body = [doc |-> body.doc, chunk |-> body.chunk, practice |-> body.practice,
                 source |-> body.source]
  BY DEF LinkBody, Assigned
<1>3. ChunksOf(body.doc) # {} /\ body.chunk \in ChunksOf(body.doc) \cup {None}
  BY <1>1, LinkPasses DEF LinkEvidence
<1>4. IsStored(body.doc) /\ body.chunk \in InStore \cup {None}
  BY <1>3, OpenedDocIsStored
<1>5. LinkAdded(a, by)
  <2> DEFINE row == NewLink(a, body, None, by)
  <2>1. /\ row \in LinkRow /\ row.assessment = a /\ row.by = by /\ row.reviewer = None
        /\ row.doc = body.doc /\ row.chunk = body.chunk
    BY <1>2, NewLinkIsRow
  <2>2. links' = Append(links, row)
    BY <1>1 DEF LinkEvidence, AddLink
  <2> HIDE DEF row
  <2>q. QED BY <2>1, <2>2, <1>4 DEF LinkAdded
<1>6. AttachedStep(a, by)
  <2>1. attached' = WithAttached(a, body.doc, by)
    BY <1>1 DEF LinkEvidence
  <2>q. QED BY <2>1, <1>2, <1>4, WithAttachedAttaches
<1>q. QED BY <1>1, <1>5, <1>6 DEF LinkEvidence, RecordStep, StatusStep, LinksStep, FindingsStep,
  RequestsStep

LEMMA PostProposalsStep ==
  ASSUME RowsOK, NEW a \in Assessment, NEW by \in Name, PostProposals(a, by)
  PROVE  RecordStep(a, by)
<1>1. PICK p \in Uncovered(a), c \in Searched(a), confidence \in Confidence :
        LET found == [doc |-> DocOf[c], chunk |-> c, practice |-> p, source |-> "proposed"]
        IN  AddLink(NewLink(a, found, confidence, by))
  BY DEF PostProposals, Propose
<1>2. c \in InStore /\ c \in Chunk /\ DocOf[c] \in Doc /\ p \in Assigned
  BY HandleIsFresh, ChunksAssumption DEF Searched, InStore, Uncovered, Assigned
<1>3. LinkAdded(a, by)
  <2> DEFINE found == [doc |-> DocOf[c], chunk |-> c, practice |-> p, source |-> "proposed"]
             row   == NewLink(a, found, confidence, by)
  <2>1. /\ row \in LinkRow /\ row.assessment = a /\ row.by = by /\ row.reviewer = None
        /\ row.doc = DocOf[c] /\ row.chunk = c
    BY <1>2, NewLinkIsRow
  <2>2. links' = Append(links, row)
    BY <1>1 DEF AddLink
  <2> HIDE DEF row
  <2>q. QED BY <2>1, <2>2, <1>2 DEF LinkAdded, IsStored
<1>4. UNCHANGED <<status, findings, requests, attached>>
  BY DEF PostProposals, Propose
<1>q. QED BY <1>3, <1>4 DEF RecordStep, StatusStep, LinksStep, AttachedStep, FindingsStep,
  RequestsStep

LEMMA PostReviewStep ==
  ASSUME RowsOK, NEW a \in Assessment, NEW by \in Name, PostReview(a, by)
  PROVE  RecordStep(a, by)
<1>1. PICK i \in DOMAIN links, body \in ReviewBody : Review(a, i, body, by)
  BY DEF PostReview
<1>2. /\ body.decision \in Decision /\ i \in Cited(a) /\ links[i].review = "pending"
      /\ body.decision = "edited" => body.practice # None
  BY <1>1, ReviewPasses DEF Review
<1>3. body.practice \in Practice \cup {None}
  BY DEF ReviewBody
<1> DEFINE new == [links[i] EXCEPT !.review = body.decision, !.reviewer = by,
                     !.practice = IF body.decision = "edited" THEN body.practice ELSE @]
<1>4. links' = [links EXCEPT ![i] = new] /\ UNCHANGED <<status, findings, requests, attached>>
  <2>1. links' = [links EXCEPT ![i].review = body.decision, ![i].reviewer = by,
                    ![i].practice = IF body.decision = "edited" THEN body.practice ELSE @]
        /\ UNCHANGED <<status, findings, requests, attached>>
    BY <1>1 DEF Review, WriteReview
  <2>q. QED BY <2>1
<1>5. links \in Seq(LinkRow) /\ links[i] \in LinkRow
  BY DEF RowsOK
<1>6. new \in LinkRow /\ Decides(links[i], new, a, by)
  BY <1>2, <1>3, <1>5 DEF LinkRow, Decides, Cited, Assigned, Decision
<1> HIDE DEF new
<1>7. LinksDecided(a, by)
  BY <1>4, <1>5, <1>6 DEF LinksDecided
<1>q. QED BY <1>4, <1>7 DEF RecordStep, StatusStep, LinksStep, AttachedStep, FindingsStep,
  RequestsStep

LEMMA PostRejectionStep ==
  ASSUME RowsOK, NEW a \in Assessment, NEW by \in Name, PostRejection(a, by)
  PROVE  RecordStep(a, by)
<1>1. PICK ids \in SUBSET DOMAIN links : BulkReject(a, ids, by)
  BY DEF PostRejection
<1>2. ids \subseteq Cited(a)
  BY <1>1, RejectionPasses DEF BulkReject
<1>3. /\ links' = [i \in DOMAIN links |->
                    IF i \in ids /\ links[i].review = "pending"
                    THEN [links[i] EXCEPT !.review = "rejected", !.reviewer = by]
                    ELSE links[i]]
      /\ UNCHANGED <<status, findings, requests, attached>>
  BY <1>1 DEF BulkReject, RejectPending
<1>4. links \in Seq(LinkRow) /\ \A i \in DOMAIN links : links[i] \in LinkRow
  BY DEF RowsOK
<1>5. ASSUME NEW i \in DOMAIN links
      PROVE  /\ links'[i] \in LinkRow
             /\ links'[i] = links[i] \/ Decides(links[i], links'[i], a, by)
  <2>1. CASE i \in ids /\ links[i].review = "pending"
    <3>1. links'[i] = [links[i] EXCEPT !.review = "rejected", !.reviewer = by]
      BY <2>1, <1>3
    <3>q. QED BY <2>1, <3>1, <1>2, <1>4 DEF LinkRow, Decides, Cited, Decision
  <2>2. CASE ~ (i \in ids /\ links[i].review = "pending")
    BY <2>2, <1>3, <1>4
  <2>q. QED BY <2>1, <2>2
<1>6. LinksDecided(a, by)
  <2>0. DOMAIN links' = DOMAIN links
    BY <1>3, Zenon
  <2>1. DOMAIN links = 1..Len(links) /\ Len(links) \in Nat /\ DOMAIN links' = DOMAIN links
    BY <2>0, <1>4
  <2>2. links' \in [1..Len(links) -> LinkRow]
    BY <2>1, <1>3, <1>5
  <2>3. links' \in Seq(LinkRow)
    BY <2>1, <2>2, SeqDef
  <2>q. QED BY <2>1, <2>3, <1>5 DEF LinksDecided
<1>q. QED BY <1>3, <1>6 DEF RecordStep, StatusStep, LinksStep, AttachedStep, FindingsStep,
  RequestsStep

LEMMA OtherCallsStep ==
  ASSUME RowsOK, NEW a \in Assessment, NEW by \in Name,
         \/ PostStatus(a) \/ PostDocument(a, by) \/ DeleteDocument(a)
         \/ PutFinding(a, by) \/ PostRequest(a, by) \/ PostResolution(a, by)
  PROVE  RecordStep(a, by)
<1> USE DEF RecordStep, StatusStep, LinksStep, AttachedStep, FindingsStep, RequestsStep
<1>1. CASE PostStatus(a)
  <2>1. PICK to : Transition(a, to)
    BY <1>1 DEF PostStatus
  <2>2. to \in Allowed[status[a]]
    BY <2>1, TransitionPasses DEF Transition
  <2>q. QED BY <2>1, <2>2 DEF Transition
<1>2. CASE PostDocument(a, by)
  <2>1. PICK d \in Doc : Attach(a, d, by)
    BY <1>2 DEF PostDocument
  <2>2. IsStored(d)
    BY <2>1, AttachPasses, OpenedDocIsStored DEF Attach
  <2>3. attached' = WithAttached(a, d, by)
    BY <2>1 DEF Attach
  <2>4. AttachedStep(a, by)
    BY <2>2, <2>3, WithAttachedAttaches
  <2>q. QED BY <2>1, <2>4 DEF Attach
<1>3. CASE DeleteDocument(a)
  <2>1. PICK d \in Doc : Detach(a, d)
    BY <1>3 DEF DeleteDocument
  <2>2. attached' = {x \in attached : x.assessment # a \/ x.doc # d}
    BY <2>1 DEF Detach
  <2>3. AttachedStep(a, by)
    BY <2>2
  <2>q. QED BY <2>1, <2>3 DEF Detach
<1>4. CASE PutFinding(a, by)
  BY <1>4 DEF PutFinding, SetFinding, WriteFinding
<1>5. CASE PostRequest(a, by)
  BY <1>5 DEF PostRequest, RequestMore, AddRequest
<1>6. CASE PostResolution(a, by)
  <2>1. PICK i \in DOMAIN requests, name \in Claimed \cup {None} : Resolve(a, i, name, by)
    BY <1>6 DEF PostResolution
  <2>2. i \in Asked(a)
    BY <2>1, ResolutionPasses DEF Resolve
  <2>q. QED BY <2>1, <2>2 DEF Resolve, WriteResolution
<1>q. QED BY <1>1, <1>2, <1>3, <1>4, <1>5, <1>6

Service(a, by) ==
  \/ PostStatus(a) \/ PostDocument(a, by) \/ DeleteDocument(a) \/ PostEvidence(a, by)
  \/ PostRejection(a, by) \/ PostReview(a, by) \/ PutFinding(a, by) \/ PostRequest(a, by)
  \/ PostResolution(a, by) \/ PostProposals(a, by)

LEMMA ServeStep ==
  ASSUME RowsOK, NEW a \in Assessment, NEW header \in Header, Serve(a, header)
  PROVE  /\ RecordStep(a, Actor(header)) /\ Actor(header) \in Name
         /\ asked' = [assessment |-> a, name |-> header] /\ chunks' = chunks
<1>1. Actor(header) \in Name
  BY DEF Actor, Name, Header
<1>2. /\ Service(a, Actor(header)) /\ chunks' = chunks
      /\ asked' = [assessment |-> a, name |-> header]
  BY DEF Serve, Service
<1> DEFINE by == Actor(header)
<1> HIDE DEF by
<1>3. Service(a, by) => RecordStep(a, by)
  BY <1>1, PostEvidenceStep, PostProposalsStep, PostReviewStep, PostRejectionStep, OtherCallsStep
    DEF Service, by
<1>q. QED BY <1>1, <1>2, <1>3 DEF by

LEMMA NextCases ==
  ASSUME [Next]_vars
  PROVE  \/ \E a \in Assessment, header \in Header : Serve(a, header)
         \/ UNCHANGED <<record, served>>
BY DEF Next, Read, Store, Withdraw, Restart, vars

LEMMA RowsStep ==
  ASSUME RowsOK, NEW a \in Assessment, NEW by \in Name, RecordStep(a, by)
  PROVE  RowsOK'
<1>1. status' \in [Assessment -> {"draft", "in_review", "finalized"}]
  <2>1. CASE status' = status
    BY <2>1 DEF RowsOK
  <2>2. ASSUME NEW to \in Allowed[status[a]], status' = [status EXCEPT ![a] = to]
        PROVE  status' \in [Assessment -> {"draft", "in_review", "finalized"}]
    <3>1. to \in {"draft", "in_review", "finalized"}
      <4>1. status[a] \in {"draft", "in_review", "finalized"}
        BY DEF RowsOK
      <4>q. QED BY <4>1 DEF Allowed
    <3>q. QED BY <2>2, <3>1 DEF RowsOK
  <2>q. QED BY <2>1, <2>2 DEF RecordStep, StatusStep
<1>2. links' \in Seq(LinkRow)
  <2>1. links \in Seq(LinkRow)
    BY DEF RowsOK
  <2>2. LinkAdded(a, by) => links' \in Seq(LinkRow)
    BY <2>1 DEF LinkAdded
  <2>3. LinksDecided(a, by) => links' \in Seq(LinkRow)
    BY DEF LinksDecided
  <2>q. QED BY <2>1, <2>2, <2>3 DEF RecordStep, LinksStep
<1>3. findings' \in [Assessment -> [Practice -> [status : FindingStatus \cup {None}, by : Name]]]
  <2>1. CASE findings' = findings
    BY <2>1 DEF RowsOK
  <2>2. ASSUME NEW p \in Practice, NEW to \in FindingStatus,
               findings' = [findings EXCEPT ![a][p] = [status |-> to, by |-> by]]
        PROVE  findings' \in [Assessment -> [Practice -> [status : FindingStatus \cup {None}, by : Name]]]
    BY <2>2 DEF RowsOK
  <2>q. QED BY <2>1, <2>2 DEF RecordStep, FindingsStep
<1>4. requests' \in Seq(RequestRow)
  <2>1. \A name \in Claimed \cup {None} : AttributedTo(by, name) \in Name
    BY DEF AttributedTo, Name
  <2>2. CASE requests' = requests
    BY <2>2 DEF RowsOK
  <2>3. ASSUME NEW name \in Claimed \cup {None},
               requests' = Append(requests, [assessment |-> a, by |-> AttributedTo(by, name),
                                             resolvedBy |-> None])
        PROVE  requests' \in Seq(RequestRow)
    <3>1. [assessment |-> a, by |-> AttributedTo(by, name), resolvedBy |-> None] \in RequestRow
      BY <2>1 DEF RequestRow, Name
    <3>q. QED BY <2>3, <3>1 DEF RowsOK
  <2>4. ASSUME NEW name \in Claimed \cup {None}, NEW i \in Asked(a),
               requests' = [requests EXCEPT ![i].resolvedBy = AttributedTo(by, name)]
        PROVE  requests' \in Seq(RequestRow)
    <3> DEFINE new == [requests[i] EXCEPT !.resolvedBy = AttributedTo(by, name)]
    <3>1. requests \in Seq(RequestRow) /\ i \in DOMAIN requests /\ requests[i] \in RequestRow
      BY DEF RowsOK, Asked
    <3>2. new \in RequestRow
      BY <2>1, <3>1 DEF RequestRow
    <3>3. requests' = [requests EXCEPT ![i] = new]
      BY <2>4
    <3> HIDE DEF new
    <3>q. QED BY <3>1, <3>2, <3>3
  <2>q. QED BY <2>2, <2>3, <2>4 DEF RecordStep, RequestsStep
<1>5. attached' \subseteq [assessment : Assessment, doc : Doc, by : Name]
  BY DEF RecordStep, AttachedStep, Attaches, RowsOK
<1>q. QED BY <1>1, <1>2, <1>3, <1>4, <1>5 DEF RowsOK

(* What a start may be given: proposals, by any practices.                 *)
StartsRight(start) ==
  start \in Seq([assessment : Assessment, chunk : Chunk, practice : Assigned])

LEMMA RowsStart ==
  ASSUME NEW start, StartsRight(start), InitOf(start)
  PROVE  RowsOK
<1>0. None \in Name /\ Unauthenticated \in Name
  BY DEF Name
<1>1. PICK c \in [DOMAIN start -> Confidence] :
        links = [i \in DOMAIN start |->
          LET found == [doc |-> DocOf[start[i].chunk], chunk |-> start[i].chunk,
                        practice |-> start[i].practice, source |-> "proposed"]
          IN  NewLink(start[i].assessment, found, c[i], Unauthenticated)]
  BY DEF InitOf
<1>2. /\ Len(start) \in Nat /\ DOMAIN start = 1..Len(start)
      /\ \A i \in DOMAIN start : /\ start[i].assessment \in Assessment /\ start[i].chunk \in Chunk
                                 /\ start[i].practice \in Assigned
  <2>1. /\ Len(start) \in Nat /\ DOMAIN start = 1..Len(start)
        /\ \A i \in DOMAIN start :
             start[i] \in [assessment : Assessment, chunk : Chunk, practice : Assigned]
    <3> DEFINE Row == [assessment : Assessment, chunk : Chunk, practice : Assigned]
    <3>1. start \in Seq(Row)
      BY DEF StartsRight
    <3> HIDE DEF Row
    <3>2. /\ Len(start) \in Nat /\ DOMAIN start = 1..Len(start)
          /\ \A i \in DOMAIN start : start[i] \in Row
      BY <3>1
    <3>q. QED BY <3>2 DEF Row
  <2>q. QED BY <2>1
<1>3. ASSUME NEW i \in DOMAIN start PROVE links[i] \in LinkRow
  <2> DEFINE found == [doc |-> DocOf[start[i].chunk], chunk |-> start[i].chunk,
                       practice |-> start[i].practice, source |-> "proposed"]
  <2>1. links[i] = NewLink(start[i].assessment, found, c[i], Unauthenticated)
    BY <1>1
  <2>2. DocOf[start[i].chunk] \in Doc /\ c[i] \in Confidence
    BY <1>2, ChunksAssumption
  <2>q. QED BY <1>0, <1>2, <2>1, <2>2, NewLinkIsRow
<1>4. links \in Seq(LinkRow) /\ DOMAIN links = DOMAIN start
  <2>1. DOMAIN links = DOMAIN start
    BY <1>1
  <2>2. links \in [1..Len(start) -> LinkRow]
    BY <1>1, <1>2, <1>3
  <2>q. QED BY <1>2, <2>1, <2>2, SeqDef
<1>5. attached \subseteq [assessment : Assessment, doc : Doc, by : Name]
  <2>1. attached = {[assessment |-> links[i].assessment, doc |-> links[i].doc,
                     by |-> Unauthenticated] : i \in DOMAIN links}
    BY DEF InitOf
  <2>2. \A i \in DOMAIN links : links[i].assessment \in Assessment /\ links[i].doc \in Doc
    BY <1>3, <1>4 DEF LinkRow
  <2>q. QED BY <2>1, <2>2, <1>0
<1>6. findings \in [Assessment -> [Practice -> [status : FindingStatus \cup {None}, by : Name]]]
  BY <1>0 DEF InitOf
<1>7. status \in [Assessment -> {"draft", "in_review", "finalized"}] /\ requests \in Seq(RequestRow)
  BY DEF InitOf
<1>q. QED BY <1>4, <1>5, <1>6, <1>7 DEF RowsOK

LEMMA RowsNext == RowsOK /\ [Next]_vars => RowsOK'
<1> SUFFICES ASSUME RowsOK, [Next]_vars PROVE RowsOK'
  OBVIOUS
<1>1. ASSUME NEW a \in Assessment, NEW header \in Header, Serve(a, header)
      PROVE  RowsOK'
  BY <1>1, ServeStep, RowsStep
<1>2. CASE UNCHANGED <<record, served>>
  BY <1>2 DEF RowsOK, record
<1>q. QED BY <1>1, <1>2, NextCases

(* The rows have their types, whatever the requests name: no call writes a *)
(* row of an assessment, a document or a practice that does not exist, and *)
(* every name in the record is one somebody may bear (assessment_service). *)
THEOREM RequestsTypeCorrect ==
  ASSUME NEW start, StartsRight(start)
  PROVE  SpecOf(start) => []RowsOK
<1>1. InitOf(start) => RowsOK
  BY RowsStart
<1>q. QED BY <1>1, RowsNext, PTL DEF SpecOf

-----------------------------------------------------------------------------
(* Citations are of what is stored.                                        *)

(* Whatever ingestion and maintenance write in between, and whenever the   *)
(* kept handle was opened, a citation or attachment that is accepted is of *)
(* a document with chunks in the store, and of a chunk that is there       *)
(* (VectorRepository._open_existing_table).                                *)
THEOREM CitesWhatIsStoredTheorem ==
  ASSUME NEW start, StartsRight(start)
  PROVE  SpecOf(start) => CitesWhatIsStored
<1> DEFINE Stored ==
      /\ \A i \in DOMAIN links' \ DOMAIN links :
           /\ \E c \in InStore : DocOf[c] = links'[i].doc
           /\ links'[i].chunk \in InStore \cup {None}
      /\ \A x \in attached' \ attached : \E c \in InStore : DocOf[c] = x.doc
<1>1. ASSUME RowsOK, [Next]_vars PROVE Stored
  <2>1. CASE UNCHANGED <<record, served>>
    BY <2>1 DEF record
  <2>2. ASSUME NEW a \in Assessment, NEW by, RecordStep(a, by) PROVE Stored
    <3>1. links \in Seq(LinkRow) /\ Len(links) \in Nat
      BY <1>1 DEF RowsOK
    <3>2. ASSUME NEW i \in DOMAIN links' \ DOMAIN links
          PROVE  IsStored(links'[i].doc) /\ links'[i].chunk \in InStore \cup {None}
      <4>1. LinkAdded(a, by)
        BY <2>2, <3>2 DEF RecordStep, LinksStep, LinksDecided
      <4>2. PICK row \in LinkRow : /\ IsStored(row.doc) /\ row.chunk \in InStore \cup {None}
                                  /\ links' = Append(links, row)
        BY <4>1 DEF LinkAdded
      <4>3. links'[i] = row
        BY <4>2, <3>1, <3>2
      <4>q. QED BY <4>2, <4>3
    <3>3. ASSUME NEW x \in attached' \ attached PROVE IsStored(x.doc)
      BY <2>2, <3>3 DEF RecordStep, AttachedStep, Attaches
    <3>q. QED BY <3>2, <3>3 DEF IsStored
  <2>q. QED BY <1>1, <2>1, <2>2, NextCases, ServeStep
<1>2. RowsOK /\ [Next]_vars => [Stored]_vars
  BY <1>1
<1>q. QED BY <1>2, RequestsTypeCorrect, PTL DEF SpecOf, CitesWhatIsStored

-----------------------------------------------------------------------------
(* A request writes one record, and under one name.                        *)

LEMMA OthersAreKept ==
  ASSUME RowsOK, NEW a \in Assessment, NEW by, RecordStep(a, by),
         NEW b \in Assessment, b # a
  PROVE  RowsOf(b)' = RowsOf(b)
<1>1. status'[b] = status[b]
  BY DEF RecordStep, StatusStep, RowsOK
<1>2. findings'[b] = findings[b]
  BY DEF RecordStep, FindingsStep, RowsOK
<1>3. {x \in attached' : x.assessment = b} = {x \in attached : x.assessment = b}
  <2>1. CASE attached' \subseteq attached /\ \A x \in attached \ attached' : x.assessment = a
    BY <2>1
  <2>2. CASE Attaches(a, by)
    BY <2>2 DEF Attaches
  <2>q. QED BY <2>1, <2>2 DEF RecordStep, AttachedStep
<1>4. Cited(b)' = Cited(b) /\ \A i \in Cited(b) : links'[i] = links[i]
  <2>0. links \in Seq(LinkRow) /\ Len(links) \in Nat /\ DOMAIN links = 1..Len(links)
    BY DEF RowsOK
  <2>1. CASE links' = links
    BY <2>1 DEF Cited
  <2>2. CASE LinkAdded(a, by)
    <3>1. PICK row \in LinkRow : row.assessment = a /\ links' = Append(links, row)
      BY <2>2 DEF LinkAdded
    <3>2. /\ DOMAIN links' = 1..(Len(links) + 1) /\ links'[Len(links) + 1] = row
          /\ \A i \in DOMAIN links : links'[i] = links[i]
      BY <2>0, <3>1
    <3>q. QED BY <2>0, <3>1, <3>2 DEF Cited
  <2>3. CASE LinksDecided(a, by)
    BY <2>3 DEF LinksDecided, Decides, Cited
  <2>q. QED BY <2>1, <2>2, <2>3 DEF RecordStep, LinksStep
<1>5. Asked(b)' = Asked(b) /\ \A i \in Asked(b) : requests'[i] = requests[i]
  <2>0. requests \in Seq(RequestRow) /\ Len(requests) \in Nat /\ DOMAIN requests = 1..Len(requests)
    BY DEF RowsOK
  <2>1. CASE requests' = requests
    BY <2>1 DEF Asked
  <2>2. ASSUME NEW row, row.assessment = a, requests' = Append(requests, row)
        PROVE  Asked(b)' = Asked(b) /\ \A i \in Asked(b) : requests'[i] = requests[i]
    <3>2. /\ DOMAIN requests' = 1..(Len(requests) + 1) /\ requests'[Len(requests) + 1] = row
          /\ \A i \in DOMAIN requests : requests'[i] = requests[i]
      BY <2>0, <2>2
    <3>q. QED BY <2>0, <2>2, <3>2 DEF Asked
  <2>3. ASSUME NEW name, NEW i \in Asked(a), requests' = [requests EXCEPT ![i].resolvedBy = name]
        PROVE  Asked(b)' = Asked(b) /\ \A j \in Asked(b) : requests'[j] = requests[j]
    <3>1. /\ DOMAIN requests' = DOMAIN requests
          /\ \A j \in DOMAIN requests : j # i => requests'[j] = requests[j]
          /\ requests'[i].assessment = a /\ requests[i].assessment = a
      BY <2>0, <2>3 DEF Asked, RequestRow
    <3>q. QED BY <3>1 DEF Asked
  <2>q. QED BY <2>1, <2>2, <2>3 DEF RecordStep, RequestsStep
<1>6. [i \in Cited(b)' |-> links'[i]] = [i \in Cited(b) |-> links[i]]
  BY <1>4
<1>7. [i \in Asked(b)' |-> requests'[i]] = [i \in Asked(b) |-> requests[i]]
  BY <1>5
<1>q. QED BY <1>1, <1>2, <1>3, <1>6, <1>7 DEF RowsOf

(* Nobody is authenticated under the name of those who are not.            *)
NobodyIsCalledThat == Unauthenticated \notin Person

UnderOneName(name) ==
  \A n \in Names' \ Names :
    \/ n[3] = name
    \/ n[3] = None /\ \A m \in Names : m[1] # n[1] \/ m[2] # n[2]

LEMMA NamesOfOne ==
  ASSUME RowsOK, NEW a \in Assessment, NEW by, RecordStep(a, by),
         \A name : AttributedTo(by, name) = by
  PROVE  UnderOneName(by)
<1> SUFFICES ASSUME NEW n \in Names', n \notin Names
             PROVE  \/ n[3] = by
                    \/ n[3] = None /\ \A m \in Names : m[1] # n[1] \/ m[2] # n[2]
  BY DEF UnderOneName
<1>0. /\ links \in Seq(LinkRow) /\ Len(links) \in Nat /\ DOMAIN links = 1..Len(links)
      /\ requests \in Seq(RequestRow) /\ Len(requests) \in Nat /\ DOMAIN requests = 1..Len(requests)
  BY DEF RowsOK
<1>1. ASSUME NEW i \in DOMAIN links', n = <<"linked", i, links'[i].by>>
      PROVE  n[3] = by
  <2>1. n[3] = links'[i].by
    BY <1>1
  <2>2. ~ (i \in DOMAIN links /\ links'[i].by = links[i].by)
    BY <1>1 DEF Names
  <2>3. LinkAdded(a, by)
    BY <2>2, <1>1 DEF RecordStep, LinksStep, LinksDecided, Decides
  <2>4. PICK row \in LinkRow : row.by = by /\ links' = Append(links, row)
    BY <2>3 DEF LinkAdded
  <2>q. QED BY <2>1, <2>2, <2>4, <1>0, <1>1
<1>2. ASSUME NEW i \in DOMAIN links', n = <<"reviewed", i, links'[i].reviewer>>
      PROVE  \/ n[3] = by
             \/ n[3] = None /\ \A m \in Names : m[1] # n[1] \/ m[2] # n[2]
  <2>1. n[3] = links'[i].reviewer /\ n[1] = "reviewed" /\ n[2] = i
    BY <1>2
  <2>2. ~ (i \in DOMAIN links /\ links'[i].reviewer = links[i].reviewer)
    BY <1>2 DEF Names
  <2>3. CASE LinkAdded(a, by)
    <3>1. PICK row \in LinkRow : row.reviewer = None /\ links' = Append(links, row)
      BY <2>3 DEF LinkAdded
    <3>2. i \notin DOMAIN links /\ links'[i].reviewer = None
      BY <3>1, <2>2, <1>0, <1>2
    <3>3. ASSUME NEW m \in Names PROVE m[1] # n[1] \/ m[2] # n[2]
      BY <2>1, <3>2 DEF Names
    <3>q. QED BY <2>1, <3>2, <3>3
  <2>4. CASE LinksDecided(a, by)
    BY <2>1, <2>2, <2>4, <1>2 DEF LinksDecided, Decides
  <2>q. QED BY <2>2, <2>3, <2>4, <1>2 DEF RecordStep, LinksStep
<1>3. ASSUME NEW i \in DOMAIN requests', n = <<"asked", i, requests'[i].by>>
      PROVE  n[3] = by
  <2>1. n[3] = requests'[i].by
    BY <1>3
  <2>2. ~ (i \in DOMAIN requests /\ requests'[i].by = requests[i].by)
    BY <1>3 DEF Names
  <2>3. ASSUME NEW name, NEW j \in Asked(a), requests' = [requests EXCEPT ![j].resolvedBy = name]
        PROVE  FALSE
    BY <2>2, <2>3, <1>0, <1>3 DEF Asked, RequestRow
  <2>4. ASSUME NEW name,
               requests' = Append(requests, [assessment |-> a, by |-> AttributedTo(by, name),
                                             resolvedBy |-> None])
        PROVE  n[3] = by
    <3>1. i = Len(requests) + 1
      BY <2>2, <2>4, <1>0, <1>3
    <3>2. requests'[i].by = AttributedTo(by, name)
      BY <3>1, <2>4, <1>0
    <3>q. QED BY <2>1, <3>2
  <2>q. QED BY <2>2, <2>3, <2>4, <1>3 DEF RecordStep, RequestsStep
<1>4. ASSUME NEW i \in DOMAIN requests', n = <<"resolved", i, requests'[i].resolvedBy>>
      PROVE  \/ n[3] = by
             \/ n[3] = None /\ \A m \in Names : m[1] # n[1] \/ m[2] # n[2]
  <2>1. n[3] = requests'[i].resolvedBy /\ n[1] = "resolved" /\ n[2] = i
    BY <1>4
  <2>2. ~ (i \in DOMAIN requests /\ requests'[i].resolvedBy = requests[i].resolvedBy)
    BY <1>4 DEF Names
  <2>3. ASSUME NEW name, NEW j \in Asked(a),
               requests' = [requests EXCEPT ![j].resolvedBy = AttributedTo(by, name)]
        PROVE  n[3] = by
    <3>1. requests'[j].resolvedBy = by /\ \A k \in DOMAIN requests : k # j => requests'[k] = requests[k]
      BY <2>3, <1>0 DEF Asked, RequestRow
    <3>2. DOMAIN requests' = DOMAIN requests
      BY <2>3
    <3>q. QED BY <2>1, <2>2, <3>1, <3>2, <1>4
  <2>4. ASSUME NEW name,
               requests' = Append(requests, [assessment |-> a, by |-> AttributedTo(by, name),
                                             resolvedBy |-> None])
        PROVE  n[3] = None /\ \A m \in Names : m[1] # n[1] \/ m[2] # n[2]
    <3>1. i = Len(requests) + 1
      BY <2>2, <2>4, <1>0, <1>4
    <3>2. requests'[i].resolvedBy = None /\ i \notin DOMAIN requests
      BY <3>1, <2>4, <1>0
    <3>3. ASSUME NEW m \in Names PROVE m[1] # n[1] \/ m[2] # n[2]
      BY <2>1, <3>2 DEF Names
    <3>q. QED BY <2>1, <3>2, <3>3
  <2>q. QED BY <2>2, <2>3, <2>4, <1>4 DEF RecordStep, RequestsStep
<1>5. ASSUME NEW x \in Assessment \X Practice, n = <<"judged", x, findings'[x[1]][x[2]].by>>
      PROVE  n[3] = by
  <2>1. n[3] = findings'[x[1]][x[2]].by
    BY <1>5
  <2>2. findings'[x[1]][x[2]].by # findings[x[1]][x[2]].by
    BY <1>5 DEF Names
  <2>3. PICK p \in Practice, to \in FindingStatus :
          findings' = [findings EXCEPT ![a][p] = [status |-> to, by |-> by]]
    BY <2>2 DEF RecordStep, FindingsStep
  <2>q. QED BY <2>1, <2>2, <2>3 DEF RowsOK
<1>6. ASSUME NEW x \in attached', n = <<"attached", <<x.assessment, x.doc>>, x.by>>
      PROVE  n[3] = by
  <2>1. x \notin attached
    BY <1>6 DEF Names
  <2>2. x.by = by
    BY <2>1, <1>6 DEF RecordStep, AttachedStep, Attaches
  <2>q. QED BY <2>2, <1>6
<1>q. QED BY <1>1, <1>2, <1>3, <1>4, <1>5, <1>6 DEF Names

(* A request writes the record of the assessment in its path and no other, *)
(* and writes no name but the one the proxy authenticated, if it           *)
(* authenticated one (review_evidence, request_more_evidence,              *)
(* resolve_evidence_request). It needs that nobody is authenticated under  *)
(* the name kept for those who are not.                                    *)
THEOREM WritesItsOwnTheorem ==
  ASSUME NEW start, StartsRight(start), NobodyIsCalledThat
  PROVE  SpecOf(start) => WritesItsOwn
<1> DEFINE Own ==
      served' # served =>
        /\ \A a \in Assessment \ {asked'.assessment} : RowsOf(a)' = RowsOf(a)
        /\ asked'.name # None =>
             \A n \in Names' \ Names :
               \/ n[3] = asked'.name
               \/ n[3] = None /\ \A m \in Names : m[1] # n[1] \/ m[2] # n[2]
<1>1. ASSUME RowsOK, NEW a \in Assessment, NEW header \in Header, Serve(a, header)
      PROVE  Own
  <2>1. /\ RecordStep(a, Actor(header))
        /\ asked' = [assessment |-> a, name |-> header]
    BY <1>1, ServeStep
  <2>2. ASSUME NEW b \in Assessment \ {asked'.assessment} PROVE RowsOf(b)' = RowsOf(b)
    <3>1. b # a
      BY <2>1, <2>2
    <3>q. QED BY <1>1, <2>1, <3>1, OthersAreKept
  <2>3. ASSUME header # None PROVE UnderOneName(header)
    <3>1. Actor(header) = header /\ header # Unauthenticated
      BY <2>3 DEF NobodyIsCalledThat, Actor, Header
    <3>2. \A name : AttributedTo(header, name) = header
      BY <3>1 DEF AttributedTo
    <3>q. QED BY <1>1, <2>1, <3>1, <3>2, NamesOfOne
  <2>4. asked'.name = header
    BY <2>1
  <2>q. QED BY <2>2, <2>3, <2>4, Zenon DEF UnderOneName
<1>2. ASSUME RowsOK, [Next]_vars PROVE Own
  BY <1>1, <1>2, NextCases
<1>3. RowsOK /\ [Next]_vars => [Own]_vars
  BY <1>2
<1>q. QED BY <1>3, RequestsTypeCorrect, PTL DEF SpecOf, WritesItsOwn

-----------------------------------------------------------------------------
(* Refusals that stand.                                                    *)

(* What a request leaves standing, of all records: a finalized one stays   *)
(* so, and a link keeps its document, and its decision once it has one.    *)
Stands ==
  /\ \A a \in Assessment : status[a] = "finalized" => status'[a] = "finalized"
  /\ \A i \in DOMAIN links :
       /\ i \in DOMAIN links'
       /\ links'[i].assessment = links[i].assessment /\ links'[i].doc = links[i].doc
       /\ links[i].review # "pending" => links'[i].review # "pending"

LEMMA RecordStands ==
  ASSUME RowsOK, NEW a \in Assessment, NEW by, RecordStep(a, by)
  PROVE  Stands
<1>1. ASSUME NEW b \in Assessment, status[b] = "finalized" PROVE status'[b] = "finalized"
  <2>1. status' = status \/ \E to \in Allowed[status[a]] : status' = [status EXCEPT ![a] = to]
    BY DEF RecordStep, StatusStep
  <2>2. Allowed["finalized"] = {}
    BY DEF Allowed
  <2>q. QED BY <1>1, <2>1, <2>2 DEF RowsOK
<1>2. ASSUME NEW i \in DOMAIN links
      PROVE  /\ i \in DOMAIN links'
             /\ links'[i].assessment = links[i].assessment /\ links'[i].doc = links[i].doc
             /\ links[i].review # "pending" => links'[i].review # "pending"
  <2>1. CASE links' = links
    BY <1>2, <2>1
  <2>2. CASE LinkAdded(a, by)
    <3>1. PICK row : links' = Append(links, row)
      BY <2>2 DEF LinkAdded
    <3>2. links \in Seq(LinkRow)
      BY DEF RowsOK
    <3>3. i \in DOMAIN links' /\ links'[i] = links[i]
      BY <3>1, <3>2, <1>2
    <3>q. QED BY <3>3
  <2>3. CASE LinksDecided(a, by)
    BY <1>2, <2>3 DEF LinksDecided, Decides
  <2>q. QED BY <2>1, <2>2, <2>3 DEF RecordStep, LinksStep
<1>q. QED BY <1>1, <1>2 DEF Stands

LEMMA NotLasting ==
  /\ "EvidenceDocumentNotIngested" \notin Lasting
  /\ "DocumentNotAttached" \notin Lasting
  /\ "EvidenceLinkNotFound" \notin Lasting
<1>1. {"DocumentNotAttached", "EvidenceLinkNotFound"} \subseteq Refusal
  BY DEF Refusal, DocumentRefusal, SharedRefusal
<1>2. StatusCode["DocumentNotAttached"] = 404 /\ StatusCode["EvidenceLinkNotFound"] = 404
  BY <1>1 DEF StatusCode
<1>q. QED BY <1>2 DEF Lasting

(* Checks stay hopeless if each one that has a lasting reason keeps it and *)
(* fails again where it failed.                                            *)
LEMMA HopelessLasts ==
  ASSUME NEW before, NEW after, DOMAIN after = DOMAIN before, Hopeless(before),
         \A i \in DOMAIN before : before[i][2] \in Lasting =>
           after[i][2] = before[i][2] /\ (before[i][1] => after[i][1])
  PROVE  Hopeless(after)
BY DEF Hopeless

(* What refuses a request for a lasting reason refuses it for ever: the    *)
(* finalized status has no way out, a link keeps its document and a        *)
(* decision it was given, and frameworks and owners do not change          *)
(* (assessment_service._ensure_writable, detach_document,                  *)
(* review_evidence).                                                       *)
THEOREM RefusalLastsTheorem ==
  ASSUME NEW start, StartsRight(start)
  PROVE  SpecOf(start) => RefusalLasts
<1> DEFINE Lasts ==
      \A a \in Assessment :
        /\ \A d \in Doc :
             /\ Hopeless(AttachChecks(a, d)) => Hopeless(AttachChecks(a, d))'
             /\ Hopeless(DetachChecks(a, d)) => Hopeless(DetachChecks(a, d))'
             /\ \A p \in Practice :
                  LET body == [doc |-> d, chunk |-> None, practice |-> p]
                  IN  Hopeless(LinkChecks(a, body)) => Hopeless(LinkChecks(a, body))'
        /\ \A i \in DOMAIN links :
             \A p \in Practice :
               LET body == [decision |-> "edited", practice |-> p]
               IN  Hopeless(ReviewChecks(a, i, body)) => Hopeless(ReviewChecks(a, i, body))'
        /\ \A p \in Practice :
             Hopeless(FindingChecks(a, p, "given")) => Hopeless(FindingChecks(a, p, "given"))'
<1>1. ASSUME Stands PROVE Lasts
  <2> SUFFICES ASSUME NEW a \in Assessment
               PROVE  /\ \A d \in Doc :
                           /\ Hopeless(AttachChecks(a, d)) => Hopeless(AttachChecks(a, d))'
                           /\ Hopeless(DetachChecks(a, d)) => Hopeless(DetachChecks(a, d))'
                           /\ \A p \in Practice :
                                LET body == [doc |-> d, chunk |-> None, practice |-> p]
                                IN  Hopeless(LinkChecks(a, body)) => Hopeless(LinkChecks(a, body))'
                      /\ \A i \in DOMAIN links :
                           \A p \in Practice :
                             LET body == [decision |-> "edited", practice |-> p]
                             IN  Hopeless(ReviewChecks(a, i, body)) => Hopeless(ReviewChecks(a, i, body))'
                      /\ \A p \in Practice :
                           Hopeless(FindingChecks(a, p, "given")) => Hopeless(FindingChecks(a, p, "given"))'
    OBVIOUS
  <2>0. ~Writable(a) => (~Writable(a))'
    BY <1>1 DEF Stands, Writable
  <2>1. ASSUME NEW d \in Doc, Hopeless(AttachChecks(a, d)) PROVE Hopeless(AttachChecks(a, d))'
    <3> DEFINE C == AttachChecks(a, d)
    <3>1. /\ DOMAIN C = 1..3 /\ DOMAIN C' = 1..3 /\ C[1][2] = "EvidenceDocumentNotIngested"
          /\ \A k \in 1..3 : C'[k][2] = C[k][2]
      BY DEF AttachChecks, Ingested, SameClient, OpenRecord
    <3>2. /\ C[2][1] <=> ~OneClient(a, d)
          /\ C'[2][1] <=> ~OneClient(a, d)
          /\ C[3][1] <=> ~Writable(a)
          /\ C'[3][1] <=> (~Writable(a))'
      BY Zenon DEF AttachChecks, SameClient, OneClient, OpenRecord
    <3>3. \A k \in DOMAIN C : C[k][2] \in Lasting => C'[k][2] = C[k][2] /\ (C[k][1] => C'[k][1])
      <4> HIDE DEF C
      <4>q. QED BY <3>1, <3>2, <2>0, NotLasting
    <3>4. Hopeless(C)
      BY <2>1
    <3> HIDE DEF C
    <3>5. Hopeless(C')
      BY <3>1, <3>3, <3>4, HopelessLasts
    <3>q. QED BY <3>5 DEF C, Hopeless
  <2>2. ASSUME NEW d \in Doc, Hopeless(DetachChecks(a, d)) PROVE Hopeless(DetachChecks(a, d))'
    <3> DEFINE C == DetachChecks(a, d)
    <3>0. (\E i \in Cited(a) : links[i].doc = d) => (\E i \in Cited(a) : links[i].doc = d)'
      BY <1>1 DEF Stands, Cited
    <3>1. /\ DOMAIN C = 1..3 /\ DOMAIN C' = 1..3 /\ C[3][2] = "DocumentNotAttached"
          /\ \A k \in 1..3 : C'[k][2] = C[k][2]
      BY DEF DetachChecks, OpenRecord
    <3>2. /\ C[1][1] <=> \E i \in Cited(a) : links[i].doc = d
          /\ C'[1][1] <=> (\E i \in Cited(a) : links[i].doc = d)'
          /\ C[2][1] <=> ~Writable(a)
          /\ C'[2][1] <=> (~Writable(a))'
      BY Zenon DEF DetachChecks, OpenRecord
    <3>3. \A k \in DOMAIN C : C[k][2] \in Lasting => C'[k][2] = C[k][2] /\ (C[k][1] => C'[k][1])
      <4> HIDE DEF C
      <4>q. QED BY <3>0, <3>1, <3>2, <2>0, NotLasting
    <3>4. Hopeless(C)
      BY <2>2
    <3> HIDE DEF C
    <3>5. Hopeless(C')
      BY <3>1, <3>3, <3>4, HopelessLasts
    <3>q. QED BY <3>5 DEF C, Hopeless
  <2>3. ASSUME NEW body, Hopeless(LinkChecks(a, body)) PROVE Hopeless(LinkChecks(a, body)')
    <3> DEFINE C == LinkChecks(a, body)
               D == LinkChecks(a, body)'
    <3>1. /\ DOMAIN C = 1..5 /\ DOMAIN D = 1..5
          /\ C[2][2] = "EvidenceDocumentNotIngested" /\ C[3][2] = "EvidenceDocumentNotIngested"
          /\ \A k \in 1..5 : D[k][2] = C[k][2]
      BY DEF LinkChecks, Ingested, SameClient, InFramework, OpenRecord
    <3>2. /\ C[1][1] <=> ~Writable(a)
          /\ D[1][1] <=> (~Writable(a))'
          /\ C[4][1] <=> ~OneClient(a, body.doc)
          /\ D[4][1] <=> ~OneClient(a, body.doc)
          /\ C[5][1] <=> ~KnownPractice(a, body.practice)
          /\ D[5][1] <=> ~KnownPractice(a, body.practice)
      BY Zenon DEF LinkChecks, SameClient, OneClient, InFramework, KnownPractice, PracticesOf, OpenRecord
    <3>3. \A k \in DOMAIN C : C[k][2] \in Lasting => D[k][2] = C[k][2] /\ (C[k][1] => D[k][1])
      <4> HIDE DEF C, D
      <4>q. QED BY <3>1, <3>2, <2>0, NotLasting
    <3>4. Hopeless(C)
      BY <2>3
    <3> HIDE DEF C, D
    <3>5. Hopeless(D)
      BY <3>1, <3>3, <3>4, HopelessLasts
    <3>q. QED BY <3>5 DEF D
  <2>4. ASSUME NEW i \in DOMAIN links, NEW body, Hopeless(ReviewChecks(a, i, body))
        PROVE  Hopeless(ReviewChecks(a, i, body)')
    <3> DEFINE C == ReviewChecks(a, i, body)
               D == ReviewChecks(a, i, body)'
    <3>0. /\ i \in DOMAIN links'
          /\ links[i].review # "pending" => links'[i].review # "pending"
      BY <1>1, <2>4 DEF Stands
    <3>1. /\ DOMAIN C = 1..6 /\ DOMAIN D = 1..6 /\ C[3][2] = "EvidenceLinkNotFound"
          /\ \A k \in 1..6 : D[k][2] = C[k][2]
      BY DEF ReviewChecks, OpenRecord
    <3>2. /\ C[1][1] <=> body.decision \notin Decision
          /\ D[1][1] <=> body.decision \notin Decision
          /\ C[2][1] <=> ~Writable(a)
          /\ D[2][1] <=> (~Writable(a))'
          /\ C[4][1] <=> i \in DOMAIN links /\ links[i].review # "pending"
          /\ D[4][1] <=> i \in DOMAIN links' /\ links'[i].review # "pending"
          /\ C[5][1] <=> body.decision = "edited" /\ body.practice = None
          /\ D[5][1] <=> body.decision = "edited" /\ body.practice = None
          /\ C[6][1] <=> body.decision = "edited" /\ ~KnownPractice(a, body.practice)
          /\ D[6][1] <=> body.decision = "edited" /\ ~KnownPractice(a, body.practice)
      BY Zenon DEF ReviewChecks, Decision, KnownPractice, PracticesOf, OpenRecord
    <3>3. \A k \in DOMAIN C : C[k][2] \in Lasting => D[k][2] = C[k][2] /\ (C[k][1] => D[k][1])
      <4> HIDE DEF C, D
      <4>q. QED BY <3>0, <3>1, <3>2, <2>0, NotLasting
    <3>4. Hopeless(C)
      BY <2>4
    <3> HIDE DEF C, D
    <3>5. Hopeless(D)
      BY <3>1, <3>3, <3>4, HopelessLasts
    <3>q. QED BY <3>5 DEF D
  <2>5. ASSUME NEW p \in Practice, Hopeless(FindingChecks(a, p, "given"))
        PROVE  Hopeless(FindingChecks(a, p, "given"))'
    <3> DEFINE C == FindingChecks(a, p, "given")
    <3>1. /\ DOMAIN C = 1..3 /\ DOMAIN C' = 1..3
          /\ \A k \in 1..3 : C'[k][2] = C[k][2]
      BY DEF FindingChecks, InFramework, OpenRecord
    <3>2. /\ C[1][1] <=> ~Writable(a)
          /\ C'[1][1] <=> (~Writable(a))'
          /\ C[2][1] <=> "given" = Blank
          /\ C'[2][1] <=> "given" = Blank
          /\ C[3][1] <=> ~KnownPractice(a, p)
          /\ C'[3][1] <=> ~KnownPractice(a, p)
      BY Zenon DEF FindingChecks, InFramework, KnownPractice, PracticesOf, OpenRecord, Blank
    <3>3. \A k \in DOMAIN C : C[k][2] \in Lasting => C'[k][2] = C[k][2] /\ (C[k][1] => C'[k][1])
      <4> HIDE DEF C
      <4>q. QED BY <3>1, <3>2, <2>0
    <3>4. Hopeless(C)
      BY <2>5
    <3> HIDE DEF C
    <3>5. Hopeless(C')
      BY <3>1, <3>3, <3>4, HopelessLasts
    <3>q. QED BY <3>5 DEF C, Hopeless
  <2>6. ASSUME NEW d \in Doc, NEW p \in Practice
        PROVE  LET body == [doc |-> d, chunk |-> None, practice |-> p]
               IN  Hopeless(LinkChecks(a, body)) => Hopeless(LinkChecks(a, body))'
    BY <2>3 DEF Hopeless
  <2>7. ASSUME NEW i \in DOMAIN links, NEW p \in Practice
        PROVE  LET body == [decision |-> "edited", practice |-> p]
               IN  Hopeless(ReviewChecks(a, i, body)) => Hopeless(ReviewChecks(a, i, body))'
    BY <2>4 DEF Hopeless
  <2>q. QED BY <2>1, <2>2, <2>5, <2>6, <2>7
<1>2. RowsOK /\ [Next]_vars => [Lasts]_record
  <2>1. ASSUME RowsOK, NEW a \in Assessment, NEW header \in Header, Serve(a, header)
        PROVE  Lasts
    BY <1>1, <2>1, ServeStep, RecordStands
  <2>2. UNCHANGED <<record, served>> => UNCHANGED record
    OBVIOUS
  <2> HIDE DEF Lasts
  <2>q. QED BY <2>1, <2>2, NextCases
<1>q. QED BY <1>2, RequestsTypeCorrect, PTL DEF SpecOf, RefusalLasts

-----------------------------------------------------------------------------
(* Answers quote what a reviewer has accepted.                             *)

(* A finite set has a nearest element.                                     *)
LEMMA NearestExists ==
  ASSUME NEW R, IsFiniteSet(R), R # {}, NEW near \in [R -> Int]
  PROVE  \E x \in R : \A y \in R : near[x] >= near[y]
<1> DEFINE Above(x) == {y \in R : near[y] > near[x]}
           Counts   == {Cardinality(Above(x)) : x \in R}
<1>1. \A x \in R : IsFiniteSet(Above(x)) /\ Cardinality(Above(x)) \in Nat
  BY FS_Subset, FS_CardinalityType
<1>2. PICK n \in Counts : \A m \in Counts : n <= m
  <2>1. Counts \in SUBSET Nat /\ Counts # {}
    BY <1>1
  <2> HIDE DEF Counts
  <2>q. QED BY <2>1, LeastNat
<1>3. PICK x \in R : n = Cardinality(Above(x))
  BY <1>2
<1>4. ASSUME NEW y \in R, near[y] > near[x] PROVE FALSE
  <2>1. Above(y) \subseteq Above(x) /\ y \in Above(x) /\ y \notin Above(y)
    BY <1>4
  <2>2. Cardinality(Above(y)) < Cardinality(Above(x))
    <3>1. /\ IsFiniteSet(Above(x)) /\ IsFiniteSet(Above(y))
          /\ Cardinality(Above(x)) \in Nat /\ Cardinality(Above(y)) \in Nat
      BY <1>1
    <3> HIDE DEF Above
    <3>2. /\ Cardinality(Above(y)) <= Cardinality(Above(x))
          /\ Cardinality(Above(y)) = Cardinality(Above(x)) => Above(y) = Above(x)
      BY <2>1, <3>1, FS_Subset
    <3>q. QED BY <2>1, <3>1, <3>2
  <2>3. n <= Cardinality(Above(y))
    BY <1>2
  <2>q. QED BY <1>1, <1>3, <2>2, <2>3
<1>q. QED BY <1>4

(* Of the elements of a finite set as many as there are room for can be    *)
(* taken so that none left out is nearer than one taken.                   *)
LEMMA TopExists ==
  ASSUME NEW H, IsFiniteSet(H), NEW near \in [H -> Int],
         NEW n \in Nat, n <= Cardinality(H)
  PROVE  \E ids \in SUBSET H :
           Cardinality(ids) = n /\ \A i \in ids, j \in H \ ids : near[i] >= near[j]
<1> DEFINE Top(ids, k) ==
      Cardinality(ids) = k /\ \A i \in ids, j \in H \ ids : near[i] >= near[j]
           Missing == {k \in Nat : k <= Cardinality(H) /\ ~ \E ids \in SUBSET H : Top(ids, k)}
<1>0. Cardinality(H) \in Nat
  BY FS_CardinalityType
<1>1. SUFFICES ASSUME Missing # {} PROVE FALSE
  OBVIOUS
<1>2. PICK k \in Missing : \A m \in Missing : k <= m
  <2>1. Missing \in SUBSET Nat
    OBVIOUS
  <2> HIDE DEF Missing
  <2>q. QED BY <1>1, <2>1, LeastNat
<1>3. CASE k = 0
  <2>1. Top({}, 0)
    BY FS_EmptySet
  <2>q. QED BY <1>2, <1>3, <2>1
<1>4. CASE k # 0
  <2>1. k - 1 \in Nat /\ k - 1 <= Cardinality(H) /\ k - 1 \notin Missing
    BY <1>0, <1>2, <1>4
  <2>2. PICK ids \in SUBSET H : Top(ids, k - 1)
    BY <2>1
  <2>3. IsFiniteSet(ids) /\ IsFiniteSet(H \ ids) /\ H \ ids # {}
    <3>1. IsFiniteSet(ids) /\ IsFiniteSet(H \ ids)
      BY FS_Subset
    <3>2. ids # H
      BY <1>0, <1>2, <2>2
    <3>q. QED BY <3>1, <3>2
  <2>4. PICK x \in H \ ids : \A y \in H \ ids : near[x] >= near[y]
    <3> DEFINE R == H \ ids
               f == [y \in R |-> near[y]]
    <3>1. IsFiniteSet(R) /\ R # {} /\ f \in [R -> Int]
      BY <2>3
    <3>2. \E z \in R : \A y \in R : f[z] >= f[y]
      <4> HIDE DEF R, f
      <4>q. QED BY <3>1, NearestExists
    <3>q. QED BY <3>2
  <2>5. Top(ids \cup {x}, k)
    <3>1. Cardinality(ids \cup {x}) = k
      <4>1. Cardinality(ids \cup {x}) = Cardinality(ids) + 1
        BY <2>3, <2>4, FS_AddElement
      <4>q. QED BY <4>1, <2>2, <1>2
    <3>q. QED BY <3>1, <2>2, <2>4
  <2>q. QED BY <1>2, <2>4, <2>5
<1>q. QED BY <1>3, <1>4

LEMMA HitsAreReviewed ==
  ASSUME RowsOK, NEW a \in Assessment, NEW threshold
  PROVE  /\ IsFiniteSet(Hits(a, threshold))
         /\ \A i \in Hits(a, threshold) :
              /\ links[i].assessment = a /\ links[i].chunk \in InStore
              /\ links[i].practice \in Backed(a) /\ links[i].review # "pending"
<1>1. links \in Seq(LinkRow) /\ Len(links) \in Nat /\ DOMAIN links = 1..Len(links)
  BY DEF RowsOK
<1>2. Hits(a, threshold) \subseteq 1..Len(links)
  BY <1>1 DEF Hits, Searchable, Cited
<1>3. IsFiniteSet(1..Len(links))
  BY <1>1, FS_Interval
<1>4. ASSUME NEW i \in Hits(a, threshold)
      PROVE  /\ links[i].assessment = a /\ links[i].chunk \in InStore
             /\ links[i].practice \in Backed(a) /\ links[i].review # "pending"
  <2>1. i \in Cited(a) /\ links[i].review \in {"accepted", "edited"}
    BY <1>4 DEF Hits, Searchable
  <2>2. links[i].chunk \in InStore
    BY <1>4, HandleIsFresh DEF Hits, ChunksOf
  <2>3. links[i].practice \in Backed(a)
    BY <2>1 DEF Backed
  <2>q. QED BY <2>1, <2>2, <2>3 DEF Cited
<1>q. QED BY <1>2, <1>3, <1>4, FS_Subset

LEMMA MinOfTwo ==
  ASSUME NEW m \in Nat, NEW n \in Nat
  PROVE  Min({m, n}) \in {m, n} /\ Min({m, n}) <= n /\ Min({m, n}) <= m
<1>1. \E x \in {m, n} : \A y \in {m, n} : x =< y
  OBVIOUS
<1>2. Min({m, n}) \in {m, n} /\ \A y \in {m, n} : Min({m, n}) =< y
  BY <1>1 DEF Min
<1>q. QED BY <1>2

LEMMA AnswersFollow == RowsOK => AnswersAreReviewed
<1> SUFFICES ASSUME RowsOK, NEW a \in Assessment, NEW threshold
             PROVE  /\ Answers(a, threshold) # {}
                    /\ \A ids \in Answers(a, threshold), i \in UNION Answers(a, threshold) :
                         /\ links[i].assessment = a
                         /\ links[i].chunk \in InStore
                         /\ links[i].practice \in Backed(a)
                         /\ links[i].review # "pending"
                         /\ i \notin ids => Cardinality(ids) = Limit
  BY DEF AnswersAreReviewed
<1> DEFINE H    == Hits(a, threshold)
           room == Min({Limit, Cardinality(H)})
           near == [i \in H |-> Near[links[i].chunk]]
<1>1. /\ IsFiniteSet(H) /\ Cardinality(H) \in Nat
      /\ \A i \in H : /\ links[i].assessment = a /\ links[i].chunk \in InStore
                      /\ links[i].practice \in Backed(a) /\ links[i].review # "pending"
  BY HitsAreReviewed, FS_CardinalityType
<1>2. room \in Nat /\ room <= Cardinality(H) /\ room \in {Limit, Cardinality(H)}
  <2> HIDE DEF H
  <2>q. QED BY <1>1, MinOfTwo, HitsAssumption
<1>3. near \in [H -> Int]
  BY <1>1, HitsAssumption DEF InStore
<1>4. PICK best \in SUBSET H :
        Cardinality(best) = room /\ \A i \in best, j \in H \ best : near[i] >= near[j]
  <2> HIDE DEF H, room, near
  <2>q. QED BY <1>1, <1>2, <1>3, TopExists
<1>5. best \in Answers(a, threshold)
  <2>1. \A i \in best, j \in H \ best : Near[links[i].chunk] >= Near[links[j].chunk]
    BY <1>4
  <2>q. QED BY <1>4, <2>1 DEF Answers
<1>6. ASSUME NEW ids \in Answers(a, threshold), NEW i \in UNION Answers(a, threshold)
      PROVE  i \in H /\ (i \notin ids => Cardinality(ids) = Limit)
  <2>1. i \in H /\ ids \subseteq H /\ Cardinality(ids) = room
    BY <1>6 DEF Answers
  <2>2. Cardinality(ids) = Cardinality(H) => ids = H
    <3> HIDE DEF H
    <3>q. QED BY <1>1, <2>1, FS_Subset
  <2> HIDE DEF H, room
  <2>q. QED BY <1>2, <2>1, <2>2
<1>q. QED BY <1>1, <1>5, <1>6

(* Whatever is asked, there is an answer, of links of this assessment that *)
(* a reviewer accepted and whose text is in the store, and what it leaves  *)
(* out had no room (chat_service.answer_question).                         *)
THEOREM AnswersAreReviewedTheorem ==
  ASSUME NEW start, StartsRight(start)
  PROVE  SpecOf(start) => []AnswersAreReviewed
BY RequestsTypeCorrect, AnswersFollow, PTL

-----------------------------------------------------------------------------
(* Sums over finite sets, as the community modules define them.            *)

(* Induction over the subsets of a finite set, those that are good so far  *)
(* given as a set.                                                         *)
LEMMA SubsetInduction ==
  ASSUME NEW S, IsFiniteSet(S), NEW Good,
         \A T \in SUBSET S : (\A x \in T : T \ {x} \in Good) => T \in Good
  PROVE  \A T \in SUBSET S : T \in Good
<1> DEFINE Bad == (SUBSET S) \ Good
           R   == StrictSubsetOrdering(S)
<1> SUFFICES ASSUME Bad # {} PROVE FALSE
  OBVIOUS
<1>1. IsWellFoundedOn(R, SUBSET S)
  <2>1. FiniteSubsetsOf(S) = SUBSET S
    BY FS_FiniteSubsetsOfFinite
  <2>2. IsWellFoundedOn(R, FiniteSubsetsOf(S))
    BY FS_StrictSubsetOrderingWellFounded, Zenon
  <2>q. QED BY <2>1, <2>2
<1>2. ASSUME NEW T \in SUBSET S, NEW x \in T PROVE <<T \ {x}, T>> \in R
  BY DEF StrictSubsetOrdering
<1>3. Bad \subseteq SUBSET S
  OBVIOUS
<1> HIDE DEF R, Bad
<1>4. PICK T \in Bad : \A U \in Bad : ~ (<<U, T>> \in R)
  BY <1>1, <1>3, WFMin
<1>q. QED BY <1>2, <1>4 DEF Bad

(* What a sum takes from the partial sums it is made of.                   *)
IsSum(it, f, S) ==
  it = [s \in SUBSET S |->
         IF s = {} THEN 0 ELSE LET x == CHOOSE x \in s : TRUE IN f[x] + it[s \ {x}]]

LEMMA TwoClasses ==
  ASSUME NEW S, NEW T, IsFiniteSet(S), IsFiniteSet(T), S \cap T = {}
  PROVE  Cardinality(S \cup T) = Cardinality(S) + Cardinality(T) /\ IsFiniteSet(S \cup T)
<1>1. Cardinality(S \cap T) = 0
  BY FS_EmptySet
<1>2. Cardinality(S) \in Nat /\ Cardinality(T) \in Nat
  BY FS_CardinalityType
<1>3. /\ IsFiniteSet(S \cup T)
      /\ Cardinality(S \cup T) = Cardinality(S) + Cardinality(T) - Cardinality(S \cap T)
  BY FS_Union
<1>q. QED BY <1>1, <1>2, <1>3

(* A finite set, split into classes that do not overlap, with their sizes. *)
Split(whole, D, class, size) ==
  /\ IsFiniteSet(D)
  /\ \A d \in D : IsFiniteSet(class[d]) /\ size[d] = Cardinality(class[d])
  /\ \A d, e \in D : d # e => class[d] \cap class[e] = {}
  /\ \A d \in D : class[d] \subseteq whole
  /\ \A i \in whole : \E d \in D : i \in class[d]

(* The sizes of the classes add up to that of the whole.                   *)
LEMMA SizesAddUp ==
  ASSUME NEW whole, NEW D, NEW class, NEW size, Split(whole, D, class, size)
  PROVE  IsFiniteSet(whole) /\ SumFunctionOnSet(size, D) = Cardinality(whole)
<1>0. /\ IsFiniteSet(D)
      /\ \A d \in D : IsFiniteSet(class[d]) /\ size[d] = Cardinality(class[d])
      /\ \A d, e \in D : d # e => class[d] \cap class[e] = {}
  BY DEF Split
<1> DEFINE All(T) == UNION {class[d] : d \in T}
           sums   == [T \in SUBSET D |-> Cardinality(All(T))]
<1>1. \A T \in SUBSET D : IsFiniteSet(All(T))
  <2> DEFINE Good == {T \in SUBSET D : IsFiniteSet(All(T))}
  <2>1. ASSUME NEW T \in SUBSET D, \A x \in T : T \ {x} \in Good PROVE T \in Good
    <3>1. CASE T = {}
      <4>1. All(T) = {}
        BY <3>1
      <4>q. QED BY <4>1, FS_EmptySet
    <3>2. ASSUME NEW x \in T PROVE T \in Good
      <4>1. IsFiniteSet(All(T \ {x}))
        BY <2>1
      <4>2. All(T) = class[x] \cup All(T \ {x}) /\ class[x] \cap All(T \ {x}) = {}
        BY <1>0
      <4>3. IsFiniteSet(class[x])
        BY <1>0
      <4> HIDE DEF All
      <4>4. IsFiniteSet(class[x] \cup All(T \ {x}))
        BY <4>1, <4>2, <4>3, TwoClasses
      <4>q. QED BY <4>2, <4>4
    <3>q. QED BY <3>1, <3>2
  <2> HIDE DEF Good
  <2>2. \A T \in SUBSET D : T \in Good
    BY <1>0, <2>1, SubsetInduction
  <2>q. QED BY <2>2 DEF Good
<1>2. ASSUME NEW T \in SUBSET D, NEW x \in T PROVE sums[T] = size[x] + sums[T \ {x}]
  <2>1. All(T) = class[x] \cup All(T \ {x}) /\ class[x] \cap All(T \ {x}) = {}
    BY <1>0
  <2>2. IsFiniteSet(class[x]) /\ IsFiniteSet(All(T \ {x})) /\ size[x] = Cardinality(class[x])
    BY <1>0, <1>1
  <2>3. sums[T] = Cardinality(All(T)) /\ sums[T \ {x}] = Cardinality(All(T \ {x}))
    OBVIOUS
  <2> HIDE DEF All, sums
  <2>4. Cardinality(class[x] \cup All(T \ {x})) = Cardinality(class[x]) + Cardinality(All(T \ {x}))
    BY <2>1, <2>2, TwoClasses
  <2>q. QED BY <2>1, <2>2, <2>3, <2>4
<1>3. sums[{}] = 0
  <2>1. All({}) = {}
    OBVIOUS
  <2>q. QED BY <2>1, FS_EmptySet
<1>4. whole = All(D) /\ sums[D] = Cardinality(whole)
  <2>1. whole = All(D)
    BY DEF Split
  <2>q. QED BY <2>1
<1>5. IsSum(sums, size, D)
  <2>1. sums = [T \in SUBSET D |-> sums[T]]
    OBVIOUS
  <2> HIDE DEF sums
  <2>2. ASSUME NEW T \in SUBSET D
        PROVE  sums[T] = IF T = {} THEN 0
                         ELSE LET x == CHOOSE x \in T : TRUE IN size[x] + sums[T \ {x}]
    BY <1>2, <1>3
  <2>q. QED BY <2>1, <2>2, Zenon DEF IsSum
<1> HIDE DEF sums
<1>6. ASSUME NEW it, IsSum(it, size, D) PROVE it[D] = sums[D]
  <2> DEFINE Good == {T \in SUBSET D : it[T] = sums[T]}
  <2>1. ASSUME NEW T \in SUBSET D, \A x \in T : T \ {x} \in Good PROVE T \in Good
    <3>1. it[T] = IF T = {} THEN 0
                  ELSE LET x == CHOOSE x \in T : TRUE IN size[x] + it[T \ {x}]
      BY <1>6 DEF IsSum
    <3>2. CASE T = {}
      BY <1>3, <3>1, <3>2
    <3>3. CASE T # {}
      <4> DEFINE x == CHOOSE x \in T : TRUE
      <4>1. x \in T /\ it[T] = size[x] + it[T \ {x}]
        BY <3>1, <3>3
      <4> HIDE DEF x
      <4>2. it[T \ {x}] = sums[T \ {x}] /\ sums[T] = size[x] + sums[T \ {x}]
        BY <1>2, <2>1, <4>1
      <4>q. QED BY <4>1, <4>2
    <3>q. QED BY <3>2, <3>3
  <2> HIDE DEF Good
  <2>2. \A T \in SUBSET D : T \in Good
    BY <1>0, <2>1, SubsetInduction
  <2>q. QED BY <2>2 DEF Good
<1>7. SumFunctionOnSet(size, D) = (CHOOSE it : IsSum(it, size, D))[D]
  BY DEF SumFunctionOnSet, FoldFunctionOnSet, MapThenFoldSet, IsSum
<1>q. QED BY <1>1, <1>4, <1>5, <1>6, <1>7

-----------------------------------------------------------------------------
(* The figures about a queue add up.                                       *)

LEMMA QueueIsFinite ==
  ASSUME RowsOK, NEW a
  PROVE  /\ IsFiniteSet(Cited(a)) /\ \A ids \in SUBSET Cited(a) : IsFiniteSet(ids)
         /\ \A i \in Cited(a) : /\ links[i] \in LinkRow /\ links[i].review \in ReviewStatus
                                /\ links[i].confidence \in Confidence \cup {None}
<1>1. links \in Seq(LinkRow) /\ Len(links) \in Nat /\ DOMAIN links = 1..Len(links)
  BY DEF RowsOK
<1>2. Cited(a) \subseteq 1..Len(links) /\ \A i \in Cited(a) : links[i] \in LinkRow
  BY <1>1 DEF Cited
<1>3. IsFiniteSet(1..Len(links))
  BY <1>1, FS_Interval
<1>4. IsFiniteSet(Cited(a))
  BY <1>2, <1>3, FS_Subset
<1>q. QED BY <1>2, <1>4, FS_Subset DEF LinkRow, ReviewStatus

LEMMA SmallSetsFinite == IsFiniteSet(ReviewStatus) /\ IsFiniteSet(1..4)
<1>1. IsFiniteSet({"accepted", "edited", "rejected", "pending"})
  <2>1. IsFiniteSet({} \cup {"accepted"})
    BY FS_EmptySet, FS_AddElement
  <2>2. IsFiniteSet(({} \cup {"accepted"}) \cup {"edited"})
    BY <2>1, FS_AddElement
  <2>3. IsFiniteSet((({} \cup {"accepted"}) \cup {"edited"}) \cup {"rejected"})
    BY <2>2, FS_AddElement
  <2>4. IsFiniteSet(((({} \cup {"accepted"}) \cup {"edited"}) \cup {"rejected"}) \cup {"pending"})
    BY <2>3, FS_AddElement
  <2>5. ((({} \cup {"accepted"}) \cup {"edited"}) \cup {"rejected"}) \cup {"pending"}
          = {"accepted", "edited", "rejected", "pending"}
    OBVIOUS
  <2>q. QED BY <2>4, <2>5
<1>2. ReviewStatus = {"accepted", "edited", "rejected", "pending"}
  BY DEF ReviewStatus, Decision
<1>3. IsFiniteSet(1..4)
  <2>1. 1 \in Int /\ 4 \in Int
    OBVIOUS
  <2>q. QED BY <2>1, FS_Interval, Zenon
<1>q. QED BY <1>1, <1>2, <1>3

(* The counts by status.                                                   *)
LEMMA StatusesAddUp ==
  ASSUME RowsOK, NEW a
  PROVE  SumFunction(SummaryOf(a).byStatus) = SummaryOf(a).total
<1> DEFINE class == [s \in ReviewStatus |-> {i \in Cited(a) : links[i].review = s}]
           size  == [s \in ReviewStatus |-> Cardinality({i \in Cited(a) : links[i].review = s})]
<1>1. SummaryOf(a).byStatus = size /\ SummaryOf(a).total = Cardinality(Cited(a))
  BY DEF SummaryOf
<1>2. \A s \in ReviewStatus : IsFiniteSet(class[s]) /\ size[s] = Cardinality(class[s])
  <2>1. \A s \in ReviewStatus : class[s] \in SUBSET Cited(a)
    OBVIOUS
  <2>q. QED BY <2>1, QueueIsFinite
<1>3. \A s, t \in ReviewStatus : s # t => class[s] \cap class[t] = {}
  OBVIOUS
<1>4. UNION {class[s] : s \in ReviewStatus} = Cited(a)
  BY QueueIsFinite
<1>5. DOMAIN size = ReviewStatus
  OBVIOUS
<1> HIDE DEF class, size
<1>6. SumFunctionOnSet(size, ReviewStatus) = Cardinality(Cited(a))
  <2>1. Split(Cited(a), ReviewStatus, class, size)
    BY <1>2, <1>3, <1>4, SmallSetsFinite DEF Split
  <2>q. QED BY <2>1, SizesAddUp
<1>q. QED BY <1>1, <1>4, <1>5, <1>6 DEF SumFunction

(* The counts by domain.                                                   *)
LEMMA DomainsAddUp ==
  ASSUME RowsOK, NEW a \in Assessment
  PROVE  LET summary == SummaryOf(a)
             domains == DOMAIN summary.byDomain
         IN  SumFunction([d \in domains |-> summary.byDomain[d].total]) + summary.unmapped
               = summary.total
<1> DEFINE summary  == SummaryOf(a)
           domains  == DOMAIN summary.byDomain
           class    == [d \in domains |-> InDomain(a, d)]
           size     == [d \in domains |-> summary.byDomain[d].total]
           mapped   == UNION {class[d] : d \in domains}
           unmapped == {i \in Cited(a) : links[i].practice \notin PracticesOf(a)}
<1>1. /\ summary.total = Cardinality(Cited(a))
      /\ summary.unmapped = Cardinality(unmapped)
      /\ Domains[a] = None => domains = {}
      /\ Domains[a] # None =>
           /\ domains = {e \in DOMAIN Domains[a] : InDomain(a, e) # {}}
           /\ \A d \in domains : summary.byDomain[d].total = Cardinality(InDomain(a, d))
  BY DEF SummaryOf
<1>2. IsFiniteSet(domains)
  BY <1>1, DomainsAssumption, FS_Subset, FS_EmptySet
<1>3. \A d \in domains : IsFiniteSet(class[d]) /\ size[d] = Cardinality(class[d])
  <2>1. \A d \in domains : class[d] \in SUBSET Cited(a) /\ size[d] = Cardinality(class[d])
    BY <1>1 DEF InDomain
  <2>q. QED BY <2>1, QueueIsFinite
<1>4. \A d, e \in domains : d # e => class[d] \cap class[e] = {}
  BY <1>1, DomainsAssumption DEF InDomain
<1>5. mapped \cup unmapped = Cited(a) /\ mapped \cap unmapped = {}
  <2>1. CASE Domains[a] = None
    BY <1>1, <2>1 DEF PracticesOf
  <2>2. CASE Domains[a] # None
    <3>1. mapped = {i \in Cited(a) : \E d \in DOMAIN Domains[a] : links[i].practice \in Domains[a][d]}
      <4>1. \A d \in domains : d \in DOMAIN Domains[a] /\ class[d] = InDomain(a, d)
        BY <1>1, <2>2
      <4>2. ASSUME NEW i \in Cited(a), NEW d \in DOMAIN Domains[a],
                   links[i].practice \in Domains[a][d]
            PROVE  i \in mapped
        <5>1. i \in InDomain(a, d)
          BY <4>2 DEF InDomain
        <5>2. d \in domains
          BY <5>1, <1>1, <2>2
        <5>q. QED BY <4>1, <5>1, <5>2
      <4> HIDE DEF domains, class
      <4>q. QED BY <4>1, <4>2 DEF InDomain
    <3>q. QED BY <2>2, <3>1 DEF PracticesOf
  <2>q. QED BY <2>1, <2>2
<1>6. DOMAIN size = domains
  OBVIOUS
<1> HIDE DEF class, size, domains
<1>7. IsFiniteSet(mapped) /\ SumFunctionOnSet(size, domains) = Cardinality(mapped)
  <2>1. Split(mapped, domains, class, size)
    BY <1>2, <1>3, <1>4 DEF Split
  <2>q. QED BY <2>1, SizesAddUp
<1>8. IsFiniteSet(unmapped)
  BY QueueIsFinite
<1> HIDE DEF mapped, unmapped
<1>9. Cardinality(mapped \cup unmapped) = Cardinality(mapped) + Cardinality(unmapped)
  BY <1>5, <1>7, <1>8, TwoClasses
<1>10. SumFunction(size) + summary.unmapped = summary.total
  BY <1>1, <1>5, <1>6, <1>7, <1>9 DEF SumFunction
<1>q. QED BY <1>10 DEF size, domains

(* What the filters by domain show.                                        *)
LEMMA FiltersShow ==
  ASSUME RowsOK, NEW a \in Assessment
  PROVE  LET summary == SummaryOf(a)
             domains == DOMAIN summary.byDomain
         IN  /\ \A i \in Cited(a) :
                  (\A d \in domains : i \notin Shown(a, [NoFilter EXCEPT !.domain = d]))
                    <=> links[i].practice \notin PracticesOf(a)
             /\ \A d \in domains, s \in ReviewStatus :
                  s = "pending" => summary.byDomain[d].pending =
                    Cardinality(Shown(a, [NoFilter EXCEPT !.domain = d, !.review = s]))
<1> DEFINE summary == SummaryOf(a)
           domains == DOMAIN summary.byDomain
<1>1. CASE Domains[a] = None
  <2>1. domains = {} /\ PracticesOf(a) = {}
    BY <1>1 DEF SummaryOf, PracticesOf
  <2> HIDE DEF domains
  <2>q. QED BY <2>1 DEF domains
<1>2. CASE Domains[a] # None
  <2>1. /\ domains = {e \in DOMAIN Domains[a] : InDomain(a, e) # {}}
        /\ \A d \in domains : summary.byDomain[d].pending =
             Cardinality({i \in InDomain(a, d) : links[i].review = "pending"})
    BY <1>2 DEF SummaryOf
  <2> HIDE DEF domains
  <2>2. ASSUME NEW d \in domains
        PROVE  Shown(a, [NoFilter EXCEPT !.domain = d]) = InDomain(a, d)
    <3> DEFINE filter == [NoFilter EXCEPT !.domain = d]
    <3>1. filter.domain = d /\ filter.review = None /\ filter.atLeast = None /\ filter.atMost = None
      BY DEF NoFilter
    <3>2. d # None /\ PracticesIn(a, d) = Domains[a][d]
      BY <1>2, <2>1, <2>2, DomainsAssumption DEF PracticesIn
    <3> HIDE DEF filter
    <3>3. Shown(a, filter) = InDomain(a, d)
      BY <3>1, <3>2 DEF Shown, InDomain
    <3>q. QED BY <3>3 DEF filter
  <2>3. ASSUME NEW d \in domains
        PROVE  Shown(a, [NoFilter EXCEPT !.domain = d, !.review = "pending"])
                 = {i \in InDomain(a, d) : links[i].review = "pending"}
    <3> DEFINE filter == [NoFilter EXCEPT !.domain = d, !.review = "pending"]
    <3>1. /\ filter.domain = d /\ filter.review = "pending"
          /\ filter.atLeast = None /\ filter.atMost = None
      BY DEF NoFilter
    <3>2. d # None /\ PracticesIn(a, d) = Domains[a][d]
      BY <1>2, <2>1, <2>3, DomainsAssumption DEF PracticesIn
    <3>3. None # "pending"
      BY ConfidenceAssumption DEF ReviewStatus
    <3> HIDE DEF filter
    <3>4. Shown(a, filter) = {i \in InDomain(a, d) : links[i].review = "pending"}
      BY <3>1, <3>2, <3>3 DEF Shown, InDomain
    <3>q. QED BY <3>4 DEF filter
  <2>4. ASSUME NEW i \in Cited(a)
        PROVE  (\A d \in domains : i \notin InDomain(a, d)) <=> links[i].practice \notin PracticesOf(a)
    <3>1. \A d \in DOMAIN Domains[a] : i \in InDomain(a, d) <=> links[i].practice \in Domains[a][d]
      BY DEF InDomain
    <3>2. links[i].practice \in PracticesOf(a)
            <=> \E d \in DOMAIN Domains[a] : links[i].practice \in Domains[a][d]
      BY <1>2 DEF PracticesOf
    <3>q. QED BY <2>1, <3>1, <3>2
  <2>5. ASSUME NEW i \in Cited(a)
        PROVE  (\A d \in domains : i \notin Shown(a, [NoFilter EXCEPT !.domain = d]))
                 <=> links[i].practice \notin PracticesOf(a)
    <3>1. (\A d \in domains : i \notin Shown(a, [NoFilter EXCEPT !.domain = d]))
            <=> (\A d \in domains : i \notin InDomain(a, d))
      BY <2>2
    <3>q. QED BY <2>4, <3>1
  <2>6. ASSUME NEW d \in domains, NEW s \in ReviewStatus, s = "pending"
        PROVE  summary.byDomain[d].pending =
                 Cardinality(Shown(a, [NoFilter EXCEPT !.domain = d, !.review = s]))
    <3>1. Shown(a, [NoFilter EXCEPT !.domain = d, !.review = s])
            = {i \in InDomain(a, d) : links[i].review = "pending"}
      BY <2>3, <2>6
    <3>q. QED BY <2>1, <3>1
  <2>q. QED BY <2>5, <2>6 DEF domains
<1>q. QED BY <1>1, <1>2

(* The decisions on some of the links.                                     *)
LEMMA DecisionsAddUp ==
  ASSUME RowsOK, NEW a \in Assessment, NEW ids \in SUBSET Cited(a)
  PROVE  LET agreement == Agreement(ids)
         IN  agreement.pending + agreement.accepted + agreement.edited + agreement.rejected
               = agreement.total
<1> DEFINE proposed == {i \in ids : links[i].source = "proposed"}
           Of(s)    == {i \in proposed : links[i].review = s}
<1>1. /\ Agreement(ids).total = Cardinality(proposed)
      /\ Agreement(ids).pending = Cardinality(Of("pending"))
      /\ Agreement(ids).accepted = Cardinality(Of("accepted"))
      /\ Agreement(ids).edited = Cardinality(Of("edited"))
      /\ Agreement(ids).rejected = Cardinality(Of("rejected"))
  BY DEF Agreement
<1> DEFINE P == Of("pending")
           A == Of("accepted")
           E == Of("edited")
           R == Of("rejected")
<1>2. IsFiniteSet(P) /\ IsFiniteSet(A) /\ IsFiniteSet(E) /\ IsFiniteSet(R)
  BY QueueIsFinite
<1>3. proposed = ((P \cup A) \cup E) \cup R
  BY QueueIsFinite DEF ReviewStatus, Decision
<1>4. P \cap A = {} /\ (P \cup A) \cap E = {} /\ ((P \cup A) \cup E) \cap R = {}
  OBVIOUS
<1>5. /\ Agreement(ids).total = Cardinality(((P \cup A) \cup E) \cup R)
      /\ Agreement(ids).pending = Cardinality(P) /\ Agreement(ids).accepted = Cardinality(A)
      /\ Agreement(ids).edited = Cardinality(E) /\ Agreement(ids).rejected = Cardinality(R)
  BY <1>1, <1>3
<1> HIDE DEF P, A, E, R
<1>6. IsFiniteSet(P \cup A) /\ Cardinality(P \cup A) = Cardinality(P) + Cardinality(A)
  BY <1>2, <1>4, TwoClasses
<1>7. /\ IsFiniteSet((P \cup A) \cup E)
      /\ Cardinality((P \cup A) \cup E) = Cardinality(P \cup A) + Cardinality(E)
  BY <1>2, <1>4, <1>6, TwoClasses
<1>8. Cardinality(((P \cup A) \cup E) \cup R) = Cardinality((P \cup A) \cup E) + Cardinality(R)
  BY <1>2, <1>4, <1>7, TwoClasses
<1>q. QED BY <1>5, <1>6, <1>7, <1>8

(* The bands.                                                              *)
LEMMA OneBandEach ==
  /\ DOMAIN ConfidenceBands = 1..4
  /\ \A b \in 1..4 : ~ InBand(None, ConfidenceBands[b])
  /\ \A confidence \in Int : \E b \in 1..4 :
       /\ InBand(confidence, ConfidenceBands[b])
       /\ \A e \in 1..4 : InBand(confidence, ConfidenceBands[e]) => e = b
<1>1. DOMAIN ConfidenceBands = 1..4
  BY DEF ConfidenceBands
<1>2. None \notin Int
  BY ConfidenceAssumption
<1>3. \A confidence \in Int :
        /\ InBand(confidence, ConfidenceBands[1]) <=> confidence < 55
        /\ InBand(confidence, ConfidenceBands[2]) <=> confidence >= 55 /\ confidence < 65
        /\ InBand(confidence, ConfidenceBands[3]) <=> confidence >= 65 /\ confidence < 78
        /\ InBand(confidence, ConfidenceBands[4]) <=> confidence >= 78
  BY <1>2 DEF InBand, ConfidenceBands
<1>4. ASSUME NEW confidence \in Int
      PROVE  \E b \in 1..4 :
               /\ InBand(confidence, ConfidenceBands[b])
               /\ \A e \in 1..4 : InBand(confidence, ConfidenceBands[e]) => e = b
  BY <1>3
<1>5. \A b \in 1..4 : ~ InBand(None, ConfidenceBands[b])
  BY DEF InBand
<1>q. QED BY <1>1, <1>4, <1>5

LEMMA BandsAddUp ==
  ASSUME RowsOK, NEW a \in Assessment
  PROVE  LET overall == Agreement(Cited(a))
             bands   == ByBand(a)
             unrated == {i \in Cited(a) : links[i].source = "proposed" /\ links[i].confidence = None}
         IN  /\ SumFunction([b \in DOMAIN bands |-> bands[b].total]) + Cardinality(unrated)
                  = overall.total
             /\ SumFunction([b \in DOMAIN bands |-> bands[b].accepted]) <= overall.accepted
<1> DEFINE proposed == {i \in Cited(a) : links[i].source = "proposed"}
           accepted == {i \in proposed : links[i].review = "accepted"}
           unrated  == {i \in Cited(a) : links[i].source = "proposed" /\ links[i].confidence = None}
           bands    == ByBand(a)
           rated    == [b \in 1..4 |->
                         {i \in proposed : InBand(links[i].confidence, ConfidenceBands[b])}]
           agreed   == [b \in 1..4 |->
                         {i \in accepted : InBand(links[i].confidence, ConfidenceBands[b])}]
           totals   == [b \in DOMAIN bands |-> bands[b].total]
           accepts  == [b \in DOMAIN bands |-> bands[b].accepted]
           allRated == UNION {rated[b] : b \in 1..4}
           allAgreed == UNION {agreed[b] : b \in 1..4}
<1>1. /\ DOMAIN totals = 1..4 /\ DOMAIN accepts = 1..4
      /\ \A b \in 1..4 : totals[b] = Cardinality(rated[b]) /\ accepts[b] = Cardinality(agreed[b])
  <2>1. DOMAIN bands = 1..4
    BY OneBandEach DEF ByBand
  <2>2. ASSUME NEW b \in 1..4
        PROVE  /\ bands[b].total = Cardinality(rated[b])
               /\ bands[b].accepted = Cardinality(agreed[b])
    <3> DEFINE ids == {i \in Cited(a) : InBand(links[i].confidence, ConfidenceBands[b])}
    <3>1. bands[b] = Agreement(ids)
      BY <2>1 DEF ByBand
    <3>2. /\ {i \in ids : links[i].source = "proposed"} = rated[b]
          /\ {i \in {j \in ids : links[j].source = "proposed"} : links[i].review = "accepted"} = agreed[b]
      OBVIOUS
    <3>3. /\ Agreement(ids).total = Cardinality({i \in ids : links[i].source = "proposed"})
          /\ Agreement(ids).accepted = Cardinality(
               {i \in {j \in ids : links[j].source = "proposed"} : links[i].review = "accepted"})
      <4> HIDE DEF ids
      <4>q. QED BY DEF Agreement
    <3> HIDE DEF ids, rated, agreed, bands
    <3>q. QED BY <3>1, <3>2, <3>3
  <2> HIDE DEF bands, rated, agreed
  <2>q. QED BY <2>1, <2>2
<1>2. \A i \in proposed : links[i].confidence = None \/ links[i].confidence \in Int
  BY QueueIsFinite, ConfidenceAssumption
<1>3. \A b \in 1..4 : IsFiniteSet(rated[b]) /\ IsFiniteSet(agreed[b])
  <2>1. \A b \in 1..4 : rated[b] \in SUBSET Cited(a) /\ agreed[b] \in SUBSET Cited(a)
    OBVIOUS
  <2> HIDE DEF rated, agreed
  <2>q. QED BY <2>1, QueueIsFinite
<1>4. ASSUME NEW b \in 1..4, NEW e \in 1..4, b # e
      PROVE  rated[b] \cap rated[e] = {} /\ agreed[b] \cap agreed[e] = {}
  <2>1. rated[b] \cap rated[e] = {}
    BY <1>2, <1>4, OneBandEach
  <2>2. agreed[b] \subseteq rated[b] /\ agreed[e] \subseteq rated[e]
    OBVIOUS
  <2> HIDE DEF rated, agreed
  <2>q. QED BY <2>1, <2>2
<1>5. allRated \cup unrated = proposed /\ allRated \cap unrated = {} /\ allAgreed \subseteq accepted
  <2>1. allRated = {i \in proposed : links[i].confidence # None}
    BY <1>2, OneBandEach
  <2>2. allAgreed \subseteq accepted
    OBVIOUS
  <2> HIDE DEF allRated, allAgreed
  <2>q. QED BY <2>1, <2>2
<1>6. /\ Agreement(Cited(a)).total = Cardinality(proposed)
      /\ Agreement(Cited(a)).accepted = Cardinality(accepted)
  BY DEF Agreement
<1>7. IsFiniteSet(unrated) /\ IsFiniteSet(accepted)
  BY QueueIsFinite
<1>8. allRated = UNION {rated[b] : b \in 1..4} /\ allAgreed = UNION {agreed[b] : b \in 1..4}
  OBVIOUS
<1> HIDE DEF rated, agreed, totals, accepts, allRated, allAgreed, unrated, proposed, accepted
<1>9. Split(allRated, 1..4, rated, totals) /\ Split(allAgreed, 1..4, agreed, accepts)
  <2>1. Split(allRated, 1..4, rated, totals)
    BY <1>1, <1>3, <1>4, <1>8, SmallSetsFinite DEF Split
  <2>2. Split(allAgreed, 1..4, agreed, accepts)
    BY <1>1, <1>3, <1>4, <1>8, SmallSetsFinite DEF Split
  <2>q. QED BY <2>1, <2>2
<1>10. IsFiniteSet(allRated) /\ SumFunctionOnSet(totals, 1..4) = Cardinality(allRated)
  BY <1>9, SizesAddUp
<1>11. IsFiniteSet(allAgreed) /\ SumFunctionOnSet(accepts, 1..4) = Cardinality(allAgreed)
  BY <1>9, SizesAddUp
<1>12. Cardinality(allRated \cup unrated) = Cardinality(allRated) + Cardinality(unrated)
  BY <1>5, <1>7, <1>10, TwoClasses
<1>13. Cardinality(allAgreed) <= Cardinality(accepted)
  BY <1>5, <1>7, FS_Subset
<1>14. /\ SumFunction(totals) + Cardinality(unrated) = Agreement(Cited(a)).total
       /\ SumFunction(accepts) <= Agreement(Cited(a)).accepted
  BY <1>1, <1>5, <1>6, <1>10, <1>11, <1>12, <1>13 DEF SumFunction
<1>q. QED BY <1>14 DEF totals, accepts, unrated

LEMMA QueueFollows == RowsOK => QueueAddsUp
BY StatusesAddUp, DomainsAddUp, FiltersShow, BandsAddUp, DecisionsAddUp DEF QueueAddsUp

(* The figures about a queue account for each of its links once, however   *)
(* many there are, and whatever the framework (evidence_queue_summary,     *)
(* evidence_for_assessment, build_agreement_report).                       *)
THEOREM QueueAddsUpTheorem ==
  ASSUME NEW start, StartsRight(start)
  PROVE  SpecOf(start) => []QueueAddsUp
BY RequestsTypeCorrect, QueueFollows, PTL
=============================================================================
