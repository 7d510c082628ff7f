-------------------------- MODULE AssessmentRecord --------------------------
(***************************************************************************)
(* One assessment's record in the SQLite database, and the HTTP request    *)
(* threads that read and write it through AssessmentService and            *)
(* AssessmentRepository.                                                   *)
(*                                                                         *)
(* Every repository method opens a session of its own, so a service call   *)
(* is a sequence of transactions, and FastAPI runs the calls in a thread   *)
(* pool: any two of them interleave between transactions.  Inside a        *)
(* writing method the SELECTs come first and take no lock that outlives    *)
(* them (the sqlite3 driver opens a transaction only before the first      *)
(* INSERT, UPDATE or DELETE), so a method is two steps, its reads ("load") *)
(* and its flush and commit ("commit").                                    *)
(*                                                                         *)
(* Timestamps, notes, actors and rationales are left out; frameworks,      *)
(* chunks and organisations are taken to resolve.                          *)
(***************************************************************************)
EXTENDS Naturals, Sequences, FiniteSets

CONSTANTS
  Thread,         \* the request threads of the server
  Kinds,          \* Kinds[t]: the kinds of call thread t is given to run
  MaxCalls,       \* MaxCalls[k]: how many calls of kind k are made, a bound
  Practice,       \* practice ids of the assessment's framework
  Doc,            \* ingested documents
  FindingStatus,  \* the judgments reviewers use, see AllFindingStatus
  MaxProposals,   \* candidates one mapping run returns, a bound
  MaxRestarts,    \* how often the server is killed and started, a bound
  MaxFailures,    \* how often a session raises, a bound
  None            \* SQL NULL: no practice, no finding, no seal

CallKind == {"transition", "link", "propose", "review", "bulk_reject",
             "finding", "request", "resolve", "attach", "detach"}

AllFindingStatus == {"satisfied", "partially_satisfied", "not_satisfied",
                     "insufficient_evidence", "not_applicable"}

ASSUME KindsAssumption == Kinds \in [Thread -> SUBSET CallKind]

ASSUME BoundsAssumption ==
  /\ MaxCalls \in [CallKind -> Nat]
  /\ MaxProposals \in Nat
  /\ MaxRestarts \in Nat
  /\ MaxFailures \in Nat

ASSUME FindingStatusAssumption == FindingStatus \subseteq AllFindingStatus

ASSUME NoneAssumption == None \notin Practice \cup AllFindingStatus

VARIABLES
  status,         \* assessment.status
  history,        \* assessmentstatuschange rows, in rowid order
  links,          \* evidencelink rows, in rowid order
  findings,       \* practicefinding rows, by practice
  findingHistory, \* practicefindingchange rows, in rowid order
  requests,       \* evidencerequest rows, in rowid order
  attached,       \* assessmentdocument rows: the association's id, 0 if none
  seal,           \* assessment.sealed_digest: the content it is a digest of
  attachments,    \* association ids handed out so far
  pc,             \* where each thread is in its call
  call,           \* the call each thread runs
  seen,           \* what a thread's earlier SELECTs of this call returned
  reads,          \* the tables a thread still has to read
  todo,           \* the mapping candidates a thread still has to store
  issued,         \* calls made so far, by kind
  restarts,       \* restarts so far
  failures,       \* sessions that raised so far
  unsealed,       \* whether a call ended between finalizing and sealing
  unattached,     \* documents whose call ended between link and attachment
  late            \* writes of each thread that landed on a finalized record

record  == <<status, history, links, findings, findingHistory, requests>>
store   == <<record, attached, seal, attachments>>
locals  == <<pc, call, seen, reads, todo>>
cuts    == <<restarts, failures, unsealed, unattached>>
bookkeeping == <<issued, cuts, late>>
vars    == <<store, locals, bookkeeping>>

-----------------------------------------------------------------------------
(* Rows and tables.                                                        *)

Status == {"draft", "in_review", "finalized"}

Allowed == [draft     |-> {"in_review"},
            in_review |-> {"draft", "finalized"},
            finalized |-> {}]

Decision == {"accepted", "edited", "rejected"}
Credited == {"accepted", "edited"}

StatusChange == [from: Status \cup {None}, to: Status]

Link == [practice: Practice, original: Practice \cup {None}, doc: Doc,
         source: {"manual", "ai_proposed"}, review: Decision \cup {"pending"}]

FindingChange == [practice: Practice, from: FindingStatus \cup {None},
                  to: FindingStatus]

Table == {"status", "history", "links", "findings", "findingHistory",
          "requests", "attached"}

Payload == [status: Status, history: Seq(StatusChange), links: Seq(Link),
            findings: [Practice -> FindingStatus \cup {None}],
            findingHistory: Seq(FindingChange),
            requests: Seq({"open", "resolved"})]

ASSUME NoneIsNoPayload == None \notin Payload

(* The tables as a session reads them.                                     *)

View == [status |-> status, history |-> history, links |-> links,
         findings |-> findings, findingHistory |-> findingHistory,
         requests |-> requests, attached |-> attached]

NoView == [status |-> "draft", history |-> <<>>, links |-> <<>>,
           findings |-> [p \in Practice |-> None], findingHistory |-> <<>>,
           requests |-> <<>>, attached |-> [d \in Doc |-> 0]]

(* A thread's view v after a SELECT on one table.                          *)
Refreshed(v, table) == [v EXCEPT ![table] = View[table]]

(* Fault: a seal that leaves the evidence requests out.                    *)
SealPayloadPartial(v) ==
  [status |-> v.status, history |-> v.history, links |-> v.links,
   findings |-> v.findings, findingHistory |-> v.findingHistory,
   requests |-> <<>>]

(* What compute_seal hashes, of the rows in view v.  The digest is         *)
(* modelled by its input: two records with one digest are one record.      *)
SealPayload(v) ==
  [status |-> v.status, history |-> v.history, links |-> v.links,
   findings |-> v.findings, findingHistory |-> v.findingHistory,
   requests |-> v.requests]

(* The object-relational mapper writes a column only when the value set    *)
(* differs from the value the session loaded.                              *)
Flush(stored, loaded, set) == IF set # loaded THEN set ELSE stored

-----------------------------------------------------------------------------
(* finalization_readiness and the scoring credit it asks about.            *)

EvidenceBacked(rows) ==
  {rows[i].practice : i \in {j \in DOMAIN rows : rows[j].review \in Credited}}

UnsupportedFindings(rows, judged) ==
  {p \in Practice : /\ judged[p] \in {"satisfied", "not_applicable"}
                    /\ p \notin EvidenceBacked(rows)}

Ready(v) ==
  /\ \A i \in DOMAIN v.links : v.links[i].review # "pending"
  /\ \A i \in DOMAIN v.requests : v.requests[i] # "open"
  /\ UnsupportedFindings(v.links, v.findings) = {}

-----------------------------------------------------------------------------
(* Calls.                                                                  *)

NoCall == [kind |-> "none"]

TransitionCall == [kind: {"transition"}, to: Status]
LinkCall       == [kind: {"link"}, practice: Practice, doc: Doc,
                   source: {"manual", "ai_proposed"}]
ProposeCall    == [kind: {"propose"}]
ReviewCall     == [kind: {"review"}, link: Nat \ {0}, decision: {"accepted", "rejected"}]
                  \cup [kind: {"review"}, link: Nat \ {0}, decision: {"edited"},
                        practice: Practice]
BulkRejectCall == [kind: {"bulk_reject"}, links: SUBSET (Nat \ {0})]
FindingCall    == [kind: {"finding"}, practice: Practice, to: FindingStatus]
RequestCall    == [kind: {"request"}]
ResolveCall    == [kind: {"resolve"}, request: Nat \ {0}]
AttachCall     == [kind: {"attach", "detach"}, doc: Doc]

Call == TransitionCall \cup LinkCall \cup ProposeCall \cup ReviewCall
        \cup BulkRejectCall \cup FindingCall \cup RequestCall
        \cup ResolveCall \cup AttachCall \cup {NoCall}

Step == {"idle", "lookup", "readiness", "survey", "load", "commit",
         "load_attach", "commit_attach", "sealing", "commit_seal"}

Goto(t, l) == pc' = [pc EXCEPT ![t] = l]

(* The call ends: it returns, or an error is mapped to a response.         *)
Return(t) ==
  /\ Goto(t, "idle")
  /\ call'  = [call EXCEPT ![t] = NoCall]
  /\ seen'  = [seen EXCEPT ![t] = NoView]
  /\ reads' = [reads EXCEPT ![t] = <<>>]
  /\ todo'  = [todo EXCEPT ![t] = {}]

(* A call starts at step l, with the tables in r to read first.            *)
Start(t, c, l, r) ==
  /\ pc[t] = "idle"
  /\ c.kind \in Kinds[t]
  /\ issued[c.kind] < MaxCalls[c.kind]
  /\ issued' = [issued EXCEPT ![c.kind] = @ + 1]
  /\ call'   = [call EXCEPT ![t] = c]
  /\ reads'  = [reads EXCEPT ![t] = r]
  /\ Goto(t, l)
  /\ UNCHANGED <<store, seen, todo, cuts, late>>

(* The service's first session: the assessment, and its refusal if it is   *)
(* finalized.  A refused call reads and changes nothing else, so it is not *)
(* a step.                                                                 *)
Writable == status # "finalized"

(* Fault: the readiness check does not read the evidence requests.         *)
BeginTransitionUnasked(t) ==
  \E to \in Allowed[status] :
    LET c == [kind |-> "transition", to |-> to]
    IN  Start(t, c, IF to = "finalized" THEN "readiness" ELSE "load",
              IF to = "finalized" THEN <<"links", "findings">> ELSE <<>>)

(* transition_status: the target must be allowed from the status read; to  *)
(* finalize, the readiness check reads three tables, a session each.       *)
BeginTransition(t) ==
  \E to \in Allowed[status] :
    LET c == [kind |-> "transition", to |-> to]
    IN  IF to = "finalized"
          THEN Start(t, c, "readiness", <<"links", "requests", "findings">>)
          ELSE Start(t, c, "load", <<>>)

BeginLink(t) ==
  /\ Writable
  /\ \E c \in LinkCall : Start(t, c, "load", <<>>)

BeginPropose(t) ==
  /\ Writable
  /\ Start(t, [kind |-> "propose"], "survey", <<"links", "attached">>)

(* review_evidence, for a link some earlier call stored.                   *)
BeginReview(t) ==
  /\ Writable
  /\ \E i \in DOMAIN links :
       \/ \E d \in {"accepted", "rejected"} :
            Start(t, [kind |-> "review", link |-> i, decision |-> d],
                  "lookup", <<"links">>)
       \/ \E p \in Practice :
            Start(t, [kind |-> "review", link |-> i, decision |-> "edited",
                      practice |-> p], "lookup", <<"links">>)

BeginBulkReject(t) ==
  /\ Writable
  /\ \E s \in SUBSET DOMAIN links \ {{}} :
       Start(t, [kind |-> "bulk_reject", links |-> s], "load", <<>>)

BeginFinding(t) ==
  /\ Writable
  /\ \E c \in FindingCall : Start(t, c, "load", <<>>)

BeginRequest(t) ==
  /\ Writable
  /\ Start(t, [kind |-> "request"], "load", <<>>)

BeginResolve(t) ==
  /\ Writable
  /\ \E i \in DOMAIN requests :
       Start(t, [kind |-> "resolve", request |-> i], "lookup", <<"requests">>)

(* attach_document and detach_document do not look at the status first.    *)
BeginAttach(t) ==
  \E d \in Doc : Start(t, [kind |-> "attach", doc |-> d], "load_attach", <<>>)

BeginDetach(t) ==
  \E d \in Doc :
    Start(t, [kind |-> "detach", doc |-> d], "lookup", <<"links">>)

Begin(t) ==
  \/ BeginTransition(t)  \/ BeginLink(t)    \/ BeginPropose(t)
  \/ BeginReview(t)      \/ BeginBulkReject(t)
  \/ BeginFinding(t)     \/ BeginRequest(t) \/ BeginResolve(t)
  \/ BeginAttach(t)      \/ BeginDetach(t)

-----------------------------------------------------------------------------
(* Reads between the first session and the write.                          *)

(* One session of the service that reads one table.                        *)
ReadTable(t) ==
  /\ reads[t] # <<>>
  /\ seen' = [seen EXCEPT ![t] = Refreshed(@, Head(reads[t]))]
  /\ reads' = [reads EXCEPT ![t] = Tail(@)]
  /\ UNCHANGED <<store, pc, call, todo, bookkeeping>>

(* Fault: a rejected link does not hold its document.                      *)
ApprovedLoose(c, v) ==
  CASE c.kind = "review"     -> v.links[c.link].review = "pending"
    [] c.kind = "detach"     -> \A i \in DOMAIN v.links :
                                  v.links[i].doc # c.doc \/ v.links[i].review = "rejected"
    [] c.kind = "transition" -> Ready(v)
    [] OTHER                 -> TRUE

(* What the service decides on what it read before it goes on to write:    *)
(* review_evidence takes a pending link only, detach_document a document   *)
(* no link cites, transition_status a record with no blocker.              *)
Approved(c, v) ==
  CASE c.kind = "review"     -> v.links[c.link].review = "pending"
    [] c.kind = "detach"     -> \A i \in DOMAIN v.links : v.links[i].doc # c.doc
    [] c.kind = "transition" -> Ready(v)
    [] OTHER                 -> TRUE

(* Fault: a refused call tries again instead of returning.                 *)
DecideRetry(t) ==
  /\ pc[t] \in {"lookup", "readiness"}
  /\ reads[t] = <<>>
  /\ IF Approved(call[t], seen[t])
       THEN Goto(t, "load") /\ UNCHANGED reads
       ELSE reads' = [reads EXCEPT ![t] = <<"links", "requests", "findings">>]
            /\ UNCHANGED pc
  /\ UNCHANGED <<store, call, seen, todo, bookkeeping>>

Decide(t) ==
  /\ pc[t] \in {"lookup", "readiness"}
  /\ reads[t] = <<>>
  /\ IF Approved(call[t], seen[t])
       THEN Goto(t, "load") /\ UNCHANGED <<call, seen, reads, todo>>
       ELSE Return(t)
  /\ UNCHANGED <<store, bookkeeping>>

(* propose_mappings computes its candidates from the links and the         *)
(* attached documents it read: any set of practices no live link covers,   *)
(* each with a passage of an attached document.                            *)
Candidates(v) ==
  LET covered == {v.links[i].practice :
                    i \in {j \in DOMAIN v.links : v.links[j].review # "rejected"}}
  IN  {s \in SUBSET [practice: Practice \ covered,
                     doc: {d \in Doc : v.attached[d] # 0}] :
         Cardinality(s) <= MaxProposals}

FindCandidates(t) ==
  /\ pc[t] = "survey"
  /\ reads[t] = <<>>
  /\ \E s \in Candidates(seen[t]) :
       IF s = {} THEN Return(t)
       ELSE /\ todo' = [todo EXCEPT ![t] = s]
            /\ Goto(t, "load")
            /\ UNCHANGED <<call, seen, reads>>
  /\ UNCHANGED <<store, bookkeeping>>

-----------------------------------------------------------------------------
(* The repository's sessions: reads first, then flush and commit.          *)

(* Fault: update_status works on a row it did not load itself.             *)
RowTableStale(kind) ==
  CASE kind \in {"review", "bulk_reject"} -> "links"
    [] kind = "finding"                   -> "findings"
    [] kind = "detach"                    -> "attached"
    [] OTHER                              -> "requests"

(* The table whose row the method loads to change it.                      *)
RowTable(kind) ==
  CASE kind = "transition"                -> "status"
    [] kind \in {"review", "bulk_reject"} -> "links"
    [] kind = "finding"                   -> "findings"
    [] kind = "detach"                    -> "attached"
    [] OTHER                              -> "requests"

(* _assert_writable: every writing method but update_status reads the      *)
(* status again in its own session and refuses a finalized assessment.     *)
AssertWritable(t) == call[t].kind = "transition" \/ status # "finalized"

Load(t) ==
  /\ pc[t] = "load"
  /\ IF AssertWritable(t)
       THEN /\ seen' = [seen EXCEPT ![t] = Refreshed(@, RowTable(call[t].kind))]
            /\ Goto(t, "commit")
            /\ UNCHANGED <<call, reads, todo>>
       ELSE Return(t)
  /\ UNCHANGED <<store, bookkeeping>>

CountLate(t) ==
  late' = [late EXCEPT ![t] = IF status = "finalized" THEN @ + 1 ELSE @]

Commits(t, kind) == pc[t] = "commit" /\ call[t].kind = kind

(* Fault: a finalization that is not followed by a seal.                   *)
CommitTransitionUnsealed(t) ==
  /\ Commits(t, "transition")
  /\ status'  = Flush(status, seen[t].status, call[t].to)
  /\ history' = Append(history, [from |-> seen[t].status, to |-> call[t].to])
  /\ Return(t)
  /\ UNCHANGED <<links, findings, findingHistory, requests,
                 attached, seal, attachments, bookkeeping>>

(* Fault: the seal is computed from the row as it was before the update.   *)
CommitTransitionEarly(t) ==
  /\ Commits(t, "transition")
  /\ status'  = Flush(status, seen[t].status, call[t].to)
  /\ history' = Append(history, [from |-> seen[t].status, to |-> call[t].to])
  /\ IF call[t].to = "finalized"
       THEN /\ Goto(t, "sealing")
            /\ reads' = [reads EXCEPT ![t] =
                 <<"history", "links", "findings", "findingHistory", "requests">>]
            /\ UNCHANGED <<call, seen, todo>>
       ELSE Return(t)
  /\ UNCHANGED <<links, findings, findingHistory, requests,
                 attached, seal, attachments, bookkeeping>>

(* update_status: no second look at the allowed transitions.               *)
CommitTransition(t) ==
  /\ Commits(t, "transition")
  /\ status'  = Flush(status, seen[t].status, call[t].to)
  /\ history' = Append(history, [from |-> seen[t].status, to |-> call[t].to])
  /\ IF call[t].to = "finalized"
       THEN /\ Goto(t, "sealing")
            /\ reads' = [reads EXCEPT ![t] =
                 <<"status", "history", "links", "findings",
                   "findingHistory", "requests">>]
            /\ UNCHANGED <<call, seen, todo>>
       ELSE Return(t)
  /\ UNCHANGED <<links, findings, findingHistory, requests,
                 attached, seal, attachments, bookkeeping>>

NewLink(practice, doc, source) ==
  [practice |-> practice, original |-> None, doc |-> doc, source |-> source,
   review |-> IF source = "ai_proposed" THEN "pending" ELSE "accepted"]

(* link_evidence stores the link and then, in another session, attaches    *)
(* its document.                                                           *)
CommitLink(t) ==
  /\ Commits(t, "link")
  /\ links' = Append(links, NewLink(call[t].practice, call[t].doc, call[t].source))
  /\ CountLate(t)
  /\ Goto(t, "load_attach")
  /\ UNCHANGED <<status, history, findings, findingHistory, requests, attached,
                 seal, attachments, call, seen, reads, todo, issued, cuts>>

(* propose_mappings stores its candidates one session at a time.           *)
CommitProposal(t) ==
  /\ Commits(t, "propose")
  /\ \E c \in todo[t] :
       /\ links' = Append(links, NewLink(c.practice, c.doc, "ai_proposed"))
       /\ IF todo[t] = {c}
            THEN Return(t)
            ELSE /\ todo' = [todo EXCEPT ![t] = @ \ {c}]
                 /\ Goto(t, "load")
                 /\ UNCHANGED <<call, seen, reads>>
  /\ CountLate(t)
  /\ UNCHANGED <<status, history, findings, findingHistory, requests,
                 attached, seal, attachments, issued, cuts>>

(* Fault: each correction keeps what it corrects as the original.          *)
ReviewedAnew(row, c) ==
  IF c.decision = "edited"
    THEN [row EXCEPT !.review = c.decision, !.original = row.practice, !.practice = c.practice]
    ELSE [row EXCEPT !.review = c.decision]

(* The columns update_evidence_link_review sets on the row it loaded.      *)
Reviewed(row, c) ==
  IF c.decision = "edited"
    THEN [row EXCEPT !.review = c.decision,
                     !.original = IF @ = None THEN row.practice ELSE @,
                     !.practice = c.practice]
    ELSE [row EXCEPT !.review = c.decision]

FlushLink(stored, loaded, set) ==
  [stored EXCEPT !.review   = Flush(@, loaded.review, set.review),
                 !.original = Flush(@, loaded.original, set.original),
                 !.practice = Flush(@, loaded.practice, set.practice)]

CommitReview(t) ==
  /\ Commits(t, "review")
  /\ LET i == call[t].link
         loaded == seen[t].links[i]
     IN  links' = [links EXCEPT ![i] = FlushLink(@, loaded, Reviewed(loaded, call[t]))]
  /\ CountLate(t)
  /\ Return(t)
  /\ UNCHANGED <<status, history, findings, findingHistory, requests,
                 attached, seal, attachments, issued, cuts>>

(* bulk_reject_evidence_links: a link its own session read as reviewed is  *)
(* skipped.                                                                *)
CommitBulkReject(t) ==
  /\ Commits(t, "bulk_reject")
  /\ links' = [i \in DOMAIN links |->
                 IF i \in call[t].links /\ seen[t].links[i].review = "pending"
                   THEN [links[i] EXCEPT !.review = "rejected"]
                   ELSE links[i]]
  /\ CountLate(t)
  /\ Return(t)
  /\ UNCHANGED <<status, history, findings, findingHistory, requests,
                 attached, seal, attachments, issued, cuts>>

(* set_practice_finding: an upsert and its history row in one commit.  An  *)
(* INSERT for a practice that got its row meanwhile breaks the unique      *)
(* constraint, and the whole transaction is rolled back.                   *)
CommitFinding(t) ==
  /\ Commits(t, "finding")
  /\ LET p == call[t].practice
         loaded == seen[t].findings[p]
     IN  IF loaded = None /\ findings[p] # None
           THEN UNCHANGED <<findings, findingHistory, late>>
           ELSE /\ findings' = [findings EXCEPT ![p] = Flush(@, loaded, call[t].to)]
                /\ findingHistory' = Append(findingHistory,
                     [practice |-> p, from |-> loaded, to |-> call[t].to])
                /\ CountLate(t)
  /\ Return(t)
  /\ UNCHANGED <<status, history, links, requests, attached, seal,
                 attachments, issued, cuts>>

CommitRequest(t) ==
  /\ Commits(t, "request")
  /\ requests' = Append(requests, "open")
  /\ CountLate(t)
  /\ Return(t)
  /\ UNCHANGED <<status, history, links, findings, findingHistory,
                 attached, seal, attachments, issued, cuts>>

(* resolve_evidence_request does not ask whether it is resolved already.   *)
CommitResolve(t) ==
  /\ Commits(t, "resolve")
  /\ requests' = [requests EXCEPT ![call[t].request] = "resolved"]
  /\ CountLate(t)
  /\ Return(t)
  /\ UNCHANGED <<status, history, links, findings, findingHistory,
                 attached, seal, attachments, issued, cuts>>

(* The repository's attach_document, called by attach_document and by      *)
(* link_evidence: an association found is returned, none is inserted.      *)
LoadAttach(t) ==
  /\ pc[t] = "load_attach"
  /\ IF AssertWritable(t) /\ attached[call[t].doc] = 0
       THEN Goto(t, "commit_attach") /\ UNCHANGED <<call, seen, reads, todo>>
       ELSE Return(t)
  /\ UNCHANGED <<store, bookkeeping>>

(* A second INSERT of one pair breaks the unique constraint.               *)
CommitAttach(t) ==
  /\ pc[t] = "commit_attach"
  /\ IF attached[call[t].doc] # 0
       THEN UNCHANGED <<attached, attachments, late>>
       ELSE /\ attachments' = attachments + 1
            /\ attached' = [attached EXCEPT ![call[t].doc] = attachments + 1]
            /\ CountLate(t)
  /\ Return(t)
  /\ UNCHANGED <<record, seal, issued, cuts>>

(* detach_document deletes the association it loaded, by its id.           *)
CommitDetach(t) ==
  /\ Commits(t, "detach")
  /\ LET d == call[t].doc
     IN  IF attached[d] # 0 /\ attached[d] = seen[t].attached[d]
           THEN attached' = [attached EXCEPT ![d] = 0] /\ CountLate(t)
           ELSE UNCHANGED <<attached, late>>
  /\ Return(t)
  /\ UNCHANGED <<record, seal, attachments, issued, cuts>>

-----------------------------------------------------------------------------
(* _seal: six reads, a session each (the first is the refresh of the row   *)
(* update_status returns), then store_finalization_seal, whose own session *)
(* looks for a seal before it writes one.                                  *)

LoadSeal(t) ==
  /\ pc[t] = "sealing"
  /\ reads[t] = <<>>
  /\ IF seal # None
       THEN Return(t)
       ELSE Goto(t, "commit_seal") /\ UNCHANGED <<call, seen, reads, todo>>
  /\ UNCHANGED <<store, bookkeeping>>

CommitSeal(t) ==
  /\ pc[t] = "commit_seal"
  /\ seal' = SealPayload(seen[t])
  /\ Return(t)
  /\ UNCHANGED <<record, attached, attachments, bookkeeping>>

-----------------------------------------------------------------------------
(* Calls that end before their time.                                       *)

Cited == {links[i].doc : i \in DOMAIN links}

(* The status is committed and the seal is not.                            *)
Sealing(t) == pc[t] \in {"sealing", "commit_seal"}

(* A link is committed and its attachment may not be.                      *)
Attaching(t) == pc[t] \in {"load_attach", "commit_attach"} /\ call[t].kind = "link"

(* A session raises, on a locked database say: what it has not committed   *)
(* is rolled back, what earlier sessions of the call committed stays, and  *)
(* the error is the call's answer.                                         *)
Fail(t) ==
  /\ pc[t] # "idle" /\ failures < MaxFailures
  /\ failures' = failures + 1
  /\ unsealed' = (unsealed \/ Sealing(t))
  /\ unattached' = unattached \cup {call[u].doc : u \in {v \in {t} : Attaching(v)}}
  /\ Return(t)
  /\ UNCHANGED <<store, issued, restarts, late>>

(* The process dies and is started again: every call in flight is gone,    *)
(* and the new repository attaches every document a link cites.            *)
Restart ==
  /\ restarts < MaxRestarts
  /\ restarts' = restarts + 1
  /\ unsealed' = (unsealed \/ \E t \in Thread : Sealing(t))
  /\ unattached' = {}
  /\ attachments' = attachments + 1
  /\ attached' = [d \in Doc |-> IF d \in Cited /\ attached[d] = 0
                                  THEN attachments + 1 ELSE attached[d]]
  /\ pc'    = [t \in Thread |-> "idle"]
  /\ call'  = [t \in Thread |-> NoCall]
  /\ seen'  = [t \in Thread |-> NoView]
  /\ reads' = [t \in Thread |-> <<>>]
  /\ todo'  = [t \in Thread |-> {}]
  /\ UNCHANGED <<record, seal, issued, failures, late>>

Quiet == \A t \in Thread : pc[t] = "idle"

(* No request in flight: the server waits for the next one.                *)
AwaitRequest == Quiet /\ UNCHANGED vars

-----------------------------------------------------------------------------
Init ==
  /\ status = "draft"
  /\ history = <<[from |-> None, to |-> "draft"]>>
  /\ links = <<>>
  /\ findings = [p \in Practice |-> None]
  /\ findingHistory = <<>>
  /\ requests = <<>>
  /\ attached = [d \in Doc |-> 0]
  /\ seal = None
  /\ attachments = 0
  /\ pc = [t \in Thread |-> "idle"]
  /\ call = [t \in Thread |-> NoCall]
  /\ seen = [t \in Thread |-> NoView]
  /\ reads = [t \in Thread |-> <<>>]
  /\ todo = [t \in Thread |-> {}]
  /\ issued = [k \in CallKind |-> 0]
  /\ restarts = 0
  /\ failures = 0
  /\ unsealed = FALSE
  /\ unattached = {}
  /\ late = [t \in Thread |-> 0]

(* A step of a call already begun.                                         *)
Proceed(t) ==
  \/ ReadTable(t)     \/ Decide(t)        \/ FindCandidates(t)
  \/ Load(t)          \/ CommitTransition(t)
  \/ CommitLink(t)    \/ CommitProposal(t)
  \/ CommitReview(t)  \/ CommitBulkReject(t)
  \/ CommitFinding(t) \/ CommitRequest(t) \/ CommitResolve(t)
  \/ LoadAttach(t)    \/ CommitAttach(t)  \/ CommitDetach(t)
  \/ LoadSeal(t)      \/ CommitSeal(t)

Next ==
  \/ \E t \in Thread : Begin(t) \/ Proceed(t) \/ Fail(t)
  \/ Restart
  \/ AwaitRequest

Spec == Init /\ [][Next]_vars

(* A thread that has begun a call goes on with it: no step of a call waits *)
(* for another thread.                                                     *)
FairSpec == Spec /\ \A t \in Thread : WF_vars(Proceed(t))

-----------------------------------------------------------------------------
(* Properties.                                                             *)

Views == [status: Status, history: Seq(StatusChange), links: Seq(Link),
          findings: [Practice -> FindingStatus \cup {None}],
          findingHistory: Seq(FindingChange),
          requests: Seq({"open", "resolved"}), attached: [Doc -> Nat]]

RecordType ==
  /\ status \in Status
  /\ history \in Seq(StatusChange)
  /\ links \in Seq(Link)
  /\ findings \in [Practice -> FindingStatus \cup {None}]
  /\ findingHistory \in Seq(FindingChange)
  /\ requests \in Seq({"open", "resolved"})
  /\ attached \in [Doc -> Nat]
  /\ attachments \in Nat
  /\ seal \in Payload \cup {None}

CallsType ==
  /\ pc \in [Thread -> Step]
  /\ call \in [Thread -> Call]
  /\ seen \in [Thread -> Views]
  /\ reads \in [Thread -> Seq(Table)]
  /\ todo \in [Thread -> SUBSET [practice: Practice, doc: Doc]]

CountsType ==
  /\ issued \in [CallKind -> Nat]
  /\ restarts \in 0..MaxRestarts
  /\ failures \in 0..MaxFailures
  /\ unsealed \in BOOLEAN
  /\ unattached \subseteq Doc
  /\ late \in [Thread -> Nat]

(* Every table holds rows of its shape, and every thread is at a step of a *)
(* call, with a view of the tables.                                        *)
TypeOK == RecordType /\ CallsType /\ CountsType

(* verify_finalization_seal's answer for the record as it stands.          *)
Verification ==
  IF seal = None THEN "unsealed"
  ELSE IF seal = SealPayload(View) THEN "verified" ELSE "altered"

(* A finalized record has no pending link, no open request and no finding  *)
(* that claims credit without evidence: what the readiness gate of         *)
(* transition_status is for, whatever else was called in between.          *)
FinalizedIsComplete == status = "finalized" => Ready(View)

(* The status history is one walk through the allowed transitions, each    *)
(* row leaving from where the row before arrived, and it ends at the       *)
(* status the assessment has.                                              *)
HistoryIsWalk ==
  /\ history[Len(history)].to = status
  /\ \A i \in 2..Len(history) :
       /\ history[i].from = history[i-1].to
       /\ history[i].to \in Allowed[history[i].from]

(* With no call in flight every cited document is attached: link_evidence  *)
(* attaches what it cites, detach_document refuses while a link cites, and *)
(* a start repairs what a kill between the two sessions left.  Only the    *)
(* document of a link whose call failed between them stays out until the   *)
(* next start.                                                             *)
CitedIsAttached ==
  Quiet => \A d \in Cited : attached[d] # 0 \/ d \in unattached

(* A finalized record no call is working on has its seal, unless the call  *)
(* that finalized it was cut off, by an error or a kill, after             *)
(* update_status and before store_finalization_seal: no failure elsewhere  *)
(* and no overlap with other calls leaves it out.  No later call, and no   *)
(* start, makes up for it.                                                 *)
UnsealedIsExplained ==
  Quiet /\ status = "finalized" /\ seal = None => unsealed

(* The repository's own status check lets at most one write of a thread    *)
(* land after finalization: the one whose session had passed the check     *)
(* before.  A mapping run stops there, and a link stays without its        *)
(* attachment.                                                             *)
OneLateWriteAtMost == \A t \in Thread : late[t] <= 1

(* A seal that does not verify is explained by such a write, wherever it   *)
(* falls among the six reads the seal is computed from.                    *)
AlteredOnlyByLateWrite ==
  Verification = "altered" => \E t \in Thread : late[t] > 0

(* No write lands on a finalized assessment, which the comment on          *)
(* _assert_writable says the read lock of its session ensures.             *)
NoLateWrite == \A t \in Thread : late[t] = 0

(* FINALIZED is a terminal state: no transition leads out of it, not even  *)
(* one whose caller saw the assessment in review.                          *)
FinalizedIsTerminal == [][status # "finalized"]_status

(* A seal is written once: store_finalization_seal refuses to overwrite.   *)
SealIsPermanent == [][seal # None => seal' = seal]_seal

(* What the mapping engine proposed survives every correction: the first   *)
(* time a link's practice is changed the old one is kept as its original,  *)
(* and the original is never changed again, whoever else reviews the link  *)
(* at the same time.                                                       *)
ProposalIsKept ==
  [][\A i \in DOMAIN links :
       LET old == links[i]
           new == links'[i]
       IN  IF old.original # None THEN new.original = old.original
           ELSE /\ new.original \in {None, old.practice}
                /\ new.practice # old.practice => new.original = old.practice
    ]_links

(* Every call returns.                                                     *)
CallsReturn == \A t \in Thread : pc[t] # "idle" ~> pc[t] = "idle"

-----------------------------------------------------------------------------
(* The promise this record makes, and the record as an instance of it.     *)

Promise == INSTANCE FinalizedRecord WITH
  content <- [links |-> links, findings |-> findings,
              findingHistory |-> findingHistory, requests |-> requests],
  seal    <- IF seal = None THEN None
             ELSE [links |-> seal.links, findings |-> seal.findings,
                   findingHistory |-> seal.findingHistory,
                   requests |-> seal.requests],
  Complete <- Ready

(* The record keeps the promise.                                           *)
KeepsPromise == Promise!Spec

=============================================================================
