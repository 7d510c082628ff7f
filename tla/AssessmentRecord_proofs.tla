------------------------ MODULE AssessmentRecord_proofs ------------------------
(***************************************************************************)
(* What holds of AssessmentRecord for every value of its constants.        *)
(***************************************************************************)
EXTENDS AssessmentRecord, SequenceTheorems, TLAPS

-----------------------------------------------------------------------------
(* Type correctness.                                                       *)

(* A SELECT leaves a view a view.                                          *)
LEMMA RefreshedType ==
  ASSUME RecordType, NEW v \in Views, NEW x \in Table
  PROVE  Refreshed(v, x) \in Views
<1>1. CASE x = "status"
  BY <1>1 DEF RecordType, Views, Refreshed, View
<1>2. CASE x = "history"
  BY <1>2 DEF RecordType, Views, Refreshed, View
<1>3. CASE x = "links"
  BY <1>3 DEF RecordType, Views, Refreshed, View
<1>4. CASE x = "findings"
  BY <1>4 DEF RecordType, Views, Refreshed, View
<1>5. CASE x = "findingHistory"
  BY <1>5 DEF RecordType, Views, Refreshed, View
<1>6. CASE x = "requests"
  BY <1>6 DEF RecordType, Views, Refreshed, View
<1>7. CASE x = "attached"
  BY <1>7 DEF RecordType, Views, Refreshed, View
<1>q. QED BY <1>1, <1>2, <1>3, <1>4, <1>5, <1>6, <1>7 DEF Table

LEMMA NoViewType == NoView \in Views
<1>1. <<>> \in Seq(StatusChange) /\ <<>> \in Seq(Link) /\ <<>> \in Seq(FindingChange)
      /\ <<>> \in Seq({"open", "resolved"})
  BY EmptySeq
<1>2. [p \in Practice |-> None] \in [Practice -> FindingStatus \cup {None}]
  OBVIOUS
<1>3. [d \in Doc |-> 0] \in [Doc -> Nat]
  OBVIOUS
<1>q. QED BY <1>1, <1>2, <1>3 DEF NoView, Views, Status

(* A call that ends leaves its thread idle and empty-handed.               *)
LEMMA ReturnType ==
  ASSUME CallsType, NEW t \in Thread, Return(t)
  PROVE  CallsType'
<1>1. pc' \in [Thread -> Step]
  BY DEF CallsType, Return, Goto, Step
<1>2. call' \in [Thread -> Call]
  BY DEF CallsType, Return, Call
<1>3. seen' \in [Thread -> Views]
  BY NoViewType DEF CallsType, Return
<1>4. reads' \in [Thread -> Seq(Table)]
  BY EmptySeq DEF CallsType, Return
<1>5. todo' \in [Thread -> SUBSET [practice: Practice, doc: Doc]]
  BY DEF CallsType, Return
<1>q. QED BY <1>1, <1>2, <1>3, <1>4, <1>5 DEF CallsType

LEMMA StartType ==
  ASSUME TypeOK, NEW t \in Thread, NEW c \in Call, NEW l \in Step,
         NEW r \in Seq(Table), Start(t, c, l, r)
  PROVE  TypeOK'
<1>1. RecordType'
  BY DEF TypeOK, RecordType, Start, store, record
<1>2. CallsType'
  BY DEF TypeOK, CallsType, Start, Goto
<1>3. CountsType'
  <2>1. c.kind \in CallKind
    BY KindsAssumption DEF Start
  <2>q. QED BY <2>1 DEF TypeOK, CountsType, Start, cuts
<1>q. QED BY <1>1, <1>2, <1>3 DEF TypeOK

LEMMA InitType == Init => TypeOK
<1> SUFFICES ASSUME Init PROVE TypeOK
  OBVIOUS
<1>1. RecordType
  <2>1. history \in Seq(StatusChange)
    BY DEF Init, StatusChange, Status
  <2>2. links \in Seq(Link) /\ findingHistory \in Seq(FindingChange)
        /\ requests \in Seq({"open", "resolved"})
    BY EmptySeq DEF Init
  <2>q. QED BY <2>1, <2>2 DEF Init, RecordType, Status
<1>2. CallsType
  BY NoViewType, EmptySeq DEF Init, CallsType, Call, Step
<1>3. CountsType
  <2>1. unsealed \in BOOLEAN
    BY DEF Init
  <2>q. QED BY <2>1, BoundsAssumption DEF Init, CountsType
<1>q. QED BY <1>1, <1>2, <1>3 DEF TypeOK

LEMMA BeginType ==
  ASSUME TypeOK, NEW t \in Thread, Begin(t)
  PROVE  TypeOK'
<1>a. <<>> \in Seq(Table) /\ {"load", "survey", "lookup", "readiness", "load_attach"} \subseteq Step
  BY EmptySeq DEF Step
<1>b. /\ <<"links">> \in Seq(Table) /\ <<"requests">> \in Seq(Table)
      /\ <<"links", "attached">> \in Seq(Table)
      /\ <<"links", "requests", "findings">> \in Seq(Table)
  BY DEF Table
<1>1. CASE BeginTransition(t)
  <2> PICK to \in Allowed[status] :
        LET c == [kind |-> "transition", to |-> to]
        IN  IF to = "finalized"
              THEN Start(t, c, "readiness", <<"links", "requests", "findings">>)
              ELSE Start(t, c, "load", <<>>)
    BY <1>1 DEF BeginTransition
  <2>1. to \in Status
    BY DEF TypeOK, RecordType, Allowed, Status
  <2>2. [kind |-> "transition", to |-> to] \in Call
    BY <2>1 DEF Call, TransitionCall
  <2>q. QED BY <1>a, <1>b, <2>2, StartType
<1>2. CASE BeginLink(t)
  BY <1>2, <1>a, StartType DEF BeginLink, Call
<1>3. CASE BeginPropose(t)
  <2>1. [kind |-> "propose"] \in Call
    BY DEF Call, ProposeCall
  <2>q. QED BY <1>3, <1>a, <1>b, <2>1, StartType DEF BeginPropose
<1>4. CASE BeginReview(t)
  <2> PICK i \in DOMAIN links :
       \/ \E d \in {"accepted", "rejected"} :
            Start(t, [kind |-> "review", link |-> i, decision |-> d],
                  "lookup", <<"links">>)
       \/ \E p \in Practice :
            Start(t, [kind |-> "review", link |-> i, decision |-> "edited",
                      practice |-> p], "lookup", <<"links">>)
    BY <1>4 DEF BeginReview
  <2>1. i \in Nat \ {0}
    BY ElementOfSeq DEF TypeOK, RecordType
  <2>2. \A d \in {"accepted", "rejected"} :
          [kind |-> "review", link |-> i, decision |-> d] \in Call
    BY <2>1 DEF Call, ReviewCall
  <2>3. \A p \in Practice :
          [kind |-> "review", link |-> i, decision |-> "edited", practice |-> p] \in Call
    BY <2>1 DEF Call, ReviewCall
  <2>q. QED BY <1>a, <1>b, <2>2, <2>3, StartType
<1>5. CASE BeginBulkReject(t)
  <2> PICK s \in SUBSET DOMAIN links :
        Start(t, [kind |-> "bulk_reject", links |-> s], "load", <<>>)
    BY <1>5 DEF BeginBulkReject
  <2>1. DOMAIN links \subseteq Nat \ {0}
    BY DEF TypeOK, RecordType
  <2>2. [kind |-> "bulk_reject", links |-> s] \in Call
    BY <2>1 DEF Call, BulkRejectCall
  <2>q. QED BY <1>a, <2>2, StartType
<1>6. CASE BeginFinding(t)
  BY <1>6, <1>a, StartType DEF BeginFinding, Call
<1>7. CASE BeginRequest(t)
  <2>1. [kind |-> "request"] \in Call
    BY DEF Call, RequestCall
  <2>q. QED BY <1>7, <1>a, <2>1, StartType DEF BeginRequest
<1>8. CASE BeginResolve(t)
  <2> PICK i \in DOMAIN requests :
        Start(t, [kind |-> "resolve", request |-> i], "lookup", <<"requests">>)
    BY <1>8 DEF BeginResolve
  <2>1. i \in Nat \ {0}
    BY DEF TypeOK, RecordType
  <2>2. [kind |-> "resolve", request |-> i] \in Call
    BY <2>1 DEF Call, ResolveCall
  <2>q. QED BY <1>a, <1>b, <2>2, StartType
<1>9. CASE BeginAttach(t)
  <2>1. \A d \in Doc : [kind |-> "attach", doc |-> d] \in Call
    BY DEF Call, AttachCall
  <2>q. QED BY <1>9, <1>a, <2>1, StartType DEF BeginAttach
<1>10. CASE BeginDetach(t)
  <2>1. \A d \in Doc : [kind |-> "detach", doc |-> d] \in Call
    BY DEF Call, AttachCall
  <2>q. QED BY <1>10, <1>a, <1>b, <2>1, StartType DEF BeginDetach
<1>q. QED
  BY <1>1, <1>2, <1>3, <1>4, <1>5, <1>6, <1>7, <1>8, <1>9, <1>10 DEF Begin

(* What a call does when a step of it ends it or moves it on to step l.    *)
LEMMA MoveType ==
  ASSUME CallsType, NEW t \in Thread, NEW l \in Step,
         Goto(t, l) /\ UNCHANGED <<call, seen, reads, todo>>
  PROVE  CallsType'
  BY DEF CallsType, Goto

LEMMA CountLateType ==
  ASSUME CountsType, NEW t \in Thread,
         CountLate(t) \/ UNCHANGED late, UNCHANGED <<issued, cuts>>
  PROVE  CountsType'
  BY DEF CountsType, CountLate, cuts

(* A review's link exists, and existed when its session loaded it.         *)
ReviewTarget ==
  \A t \in Thread : call[t].kind = "review" =>
    /\ call[t].link \in DOMAIN links
    /\ pc[t] = "commit" => call[t].link \in DOMAIN seen[t].links

LEMMA NewLinkType ==
  ASSUME NEW p \in Practice, NEW d \in Doc, NEW s \in {"manual", "ai_proposed"}
  PROVE  NewLink(p, d, s) \in Link
  BY DEF NewLink, Link, Decision

LEMMA FlushLinkType ==
  ASSUME NEW row \in Link, NEW loaded \in Link, NEW c \in ReviewCall
  PROVE  FlushLink(row, loaded, Reviewed(loaded, c)) \in Link
<1>1. Reviewed(loaded, c) \in Link
  BY DEF Reviewed, Link, ReviewCall, Decision
<1>q. QED BY <1>1 DEF FlushLink, Flush, Link

LEMMA SealPayloadType ==
  ASSUME NEW v \in Views
  PROVE  SealPayload(v) \in Payload
  BY DEF SealPayload, Views, Payload

(* A call's kind tells its shape.                                          *)
LEMMA CallShape ==
  ASSUME NEW c \in Call
  PROVE  /\ c.kind = "transition" => c \in TransitionCall
         /\ c.kind = "link" => c \in LinkCall
         /\ c.kind = "review" => c \in ReviewCall
         /\ c.kind = "finding" => c \in FindingCall
<1>1. \A x \in TransitionCall : x.kind = "transition"
  BY DEF TransitionCall
<1>2. \A x \in LinkCall : x.kind = "link"
  BY DEF LinkCall
<1>3. \A x \in ReviewCall : x.kind = "review"
  BY DEF ReviewCall
<1>4. \A x \in FindingCall : x.kind = "finding"
  BY DEF FindingCall
<1>5. \A x \in ProposeCall \cup BulkRejectCall \cup RequestCall \cup ResolveCall
               \cup AttachCall \cup {NoCall} :
        x.kind \notin {"transition", "link", "review", "finding"}
  BY DEF ProposeCall, BulkRejectCall, RequestCall, ResolveCall, AttachCall, NoCall
<1>q. QED BY <1>1, <1>2, <1>3, <1>4, <1>5 DEF Call

LEMMA ProceedType ==
  ASSUME TypeOK, ReviewTarget, NEW t \in Thread, Proceed(t)
  PROVE  TypeOK'
<1> USE DEF TypeOK
<1>0. /\ call[t].kind = "transition" => call[t] \in TransitionCall
      /\ call[t].kind = "link" => call[t] \in LinkCall
      /\ call[t].kind = "review" => call[t] \in ReviewCall
      /\ call[t].kind = "finding" => call[t] \in FindingCall
  BY CallShape DEF CallsType
<1>1. CASE ReadTable(t)
  <2>1. Head(reads[t]) \in Table /\ Tail(reads[t]) \in Seq(Table)
    BY <1>1, HeadTailProperties DEF ReadTable, CallsType
  <2>2. Refreshed(seen[t], Head(reads[t])) \in Views
    BY <2>1, RefreshedType DEF CallsType
  <2>3. CallsType'
    BY <1>1, <2>1, <2>2 DEF ReadTable, CallsType
  <2>q. QED
    BY <1>1, <2>3 DEF ReadTable, store, record, bookkeeping, cuts, RecordType, CountsType
<1>2. CASE Decide(t)
  <2>1. CallsType'
    BY <1>2, ReturnType, MoveType DEF Decide, Step
  <2>q. QED
    BY <1>2, <2>1 DEF Decide, store, record, bookkeeping, cuts, RecordType, CountsType
<1>3. CASE FindCandidates(t)
  <2>1. PICK s \in Candidates(seen[t]) :
          IF s = {} THEN Return(t)
          ELSE /\ todo' = [todo EXCEPT ![t] = s]
               /\ Goto(t, "load")
               /\ UNCHANGED <<call, seen, reads>>
    BY <1>3 DEF FindCandidates
  <2>2. s \in SUBSET [practice: Practice, doc: Doc]
    BY DEF Candidates
  <2>3. CallsType'
    <3>1. CASE s = {}
      BY <2>1, <3>1, ReturnType
    <3>2. CASE s # {}
      BY <2>1, <2>2, <3>2 DEF CallsType, Goto, Step
    <3>q. QED BY <3>1, <3>2
  <2>q. QED
    BY <1>3, <2>3 DEF FindCandidates, store, record, bookkeeping, cuts, RecordType, CountsType
<1>4. CASE Load(t)
  <2>1. CASE AssertWritable(t)
    <3>1. RowTable(call[t].kind) \in Table
      BY DEF RowTable, Table
    <3>2. Refreshed(seen[t], RowTable(call[t].kind)) \in Views
      BY <3>1, RefreshedType DEF CallsType
    <3>3. CallsType'
      BY <1>4, <2>1, <3>2 DEF Load, CallsType, Goto, Step
    <3>q. QED
      BY <1>4, <3>3 DEF Load, store, record, bookkeeping, cuts, RecordType, CountsType
  <2>2. CASE ~AssertWritable(t)
    <3>1. CallsType'
      BY <1>4, <2>2, ReturnType DEF Load
    <3>q. QED
      BY <1>4, <3>1 DEF Load, store, record, bookkeeping, cuts, RecordType, CountsType
  <2>q. QED BY <2>1, <2>2
<1>5. CASE CommitTransition(t)
  <2>1. call[t].to \in Status /\ seen[t].status \in Status
    BY <1>0, <1>5 DEF CommitTransition, Commits, TransitionCall, CallsType, Views
  <2>2. history' \in Seq(StatusChange)
    BY <1>5, <2>1, AppendProperties DEF CommitTransition, StatusChange, RecordType
  <2>3. RecordType'
    BY <1>5, <2>1, <2>2 DEF CommitTransition, RecordType, Flush
  <2>4. CallsType'
    <3>1. CASE call[t].to = "finalized"
      <4>1. <<"status", "history", "links", "findings", "findingHistory", "requests">>
              \in Seq(Table)
        BY DEF Table
      <4>q. QED BY <1>5, <3>1, <4>1 DEF CommitTransition, CallsType, Goto, Step
    <3>2. CASE call[t].to # "finalized"
      BY <1>5, <3>2, ReturnType DEF CommitTransition
    <3>q. QED BY <3>1, <3>2
  <2>q. QED BY <1>5, <2>3, <2>4 DEF CommitTransition, bookkeeping, cuts, CountsType
<1>6. CASE CommitLink(t)
  <2>1. NewLink(call[t].practice, call[t].doc, call[t].source) \in Link
    BY <1>0, <1>6, NewLinkType DEF CommitLink, Commits, LinkCall
  <2>2. RecordType'
    BY <1>6, <2>1, AppendProperties DEF CommitLink, RecordType
  <2>3. CallsType'
    BY <1>6, MoveType DEF CommitLink, Step
  <2>q. QED BY <1>6, <2>2, <2>3, CountLateType DEF CommitLink
<1>7. CASE CommitProposal(t)
  <2>1. PICK c \in todo[t] :
         /\ links' = Append(links, NewLink(c.practice, c.doc, "ai_proposed"))
         /\ IF todo[t] = {c}
              THEN Return(t)
              ELSE /\ todo' = [todo EXCEPT ![t] = @ \ {c}]
                   /\ Goto(t, "load")
                   /\ UNCHANGED <<call, seen, reads>>
    BY <1>7 DEF CommitProposal
  <2>2. c \in [practice: Practice, doc: Doc]
    BY DEF CallsType
  <2>3. NewLink(c.practice, c.doc, "ai_proposed") \in Link
    BY <2>2, NewLinkType
  <2>4. RecordType'
    BY <1>7, <2>1, <2>3, AppendProperties DEF CommitProposal, RecordType
  <2>5. CallsType'
    <3>1. CASE todo[t] = {c}
      BY <2>1, <3>1, ReturnType
    <3>2. CASE todo[t] # {c}
      BY <2>1, <3>2 DEF CallsType, Goto, Step
    <3>q. QED BY <3>1, <3>2
  <2>q. QED BY <1>7, <2>4, <2>5, CountLateType DEF CommitProposal
<1>8. CASE CommitReview(t)
  <2> DEFINE i == call[t].link
             row == FlushLink(links[i], seen[t].links[i],
                              Reviewed(seen[t].links[i], call[t]))
  <2>1. call[t] \in ReviewCall /\ i \in DOMAIN links /\ i \in DOMAIN seen[t].links
    BY <1>0, <1>8 DEF CommitReview, Commits, ReviewTarget
  <2>2. links[i] \in Link /\ seen[t].links[i] \in Link
    BY <2>1, ElementOfSeq DEF RecordType, CallsType, Views
  <2>3. row \in Link
    BY <2>1, <2>2, FlushLinkType
  <2>4. links' = [links EXCEPT ![i] = row]
    BY <1>8 DEF CommitReview
  <2>5. links' \in Seq(Link)
    BY <2>1, <2>3, <2>4, ExceptSeq DEF RecordType
  <2>6. RecordType'
    BY <1>8, <2>5 DEF CommitReview, RecordType
  <2>q. QED BY <1>8, <2>6, ReturnType, CountLateType DEF CommitReview
<1>9. CASE CommitBulkReject(t)
  <2>1. links' \in Seq(Link)
    <3> DEFINE new(i) == IF i \in call[t].links /\ seen[t].links[i].review = "pending"
                           THEN [links[i] EXCEPT !.review = "rejected"]
                           ELSE links[i]
    <3>1. \A i \in DOMAIN links : new(i) \in Link
      <4> TAKE i \in DOMAIN links
      <4>1. links[i] \in Link
        BY ElementOfSeq, LenProperties DEF RecordType
      <4>q. QED BY <4>1 DEF Link, Decision
    <3>2. links' = [i \in DOMAIN links |-> new(i)]
      BY <1>9 DEF CommitBulkReject
    <3>3. DOMAIN links = 1..Len(links) /\ Len(links) \in Nat
      BY LenProperties DEF RecordType
    <3> HIDE DEF new
    <3>4. \A i \in 1..Len(links) : new(i) \in Link
      BY <3>1, <3>3
    <3>5. links' = [i \in 1..Len(links) |-> new(i)]
      BY <3>2, <3>3
    <3>q. QED BY <3>3, <3>4, <3>5, IsASeq
  <2>2. RecordType'
    BY <1>9, <2>1 DEF CommitBulkReject, RecordType
  <2>q. QED BY <1>9, <2>2, ReturnType, CountLateType DEF CommitBulkReject
<1>10. CASE CommitFinding(t)
  <2> DEFINE p == call[t].practice
             loaded == seen[t].findings[p]
  <2>1. p \in Practice /\ call[t].to \in FindingStatus
        /\ loaded \in FindingStatus \cup {None}
    BY <1>0, <1>10 DEF CommitFinding, Commits, FindingCall, CallsType, Views
  <2>2. CASE loaded = None /\ findings[p] # None
    <3>1. RecordType'
      BY <1>10, <2>2 DEF CommitFinding, RecordType
    <3>q. QED
      BY <1>10, <2>2, <3>1, ReturnType DEF CommitFinding, CountsType, cuts
  <2>3. CASE ~(loaded = None /\ findings[p] # None)
    <3>1. findings' \in [Practice -> FindingStatus \cup {None}]
      BY <1>10, <2>1, <2>3 DEF CommitFinding, RecordType, Flush
    <3>2. [practice |-> p, from |-> loaded, to |-> call[t].to] \in FindingChange
      BY <2>1 DEF FindingChange
    <3>3. findingHistory' \in Seq(FindingChange)
      <4>1. findingHistory' = Append(findingHistory,
              [practice |-> p, from |-> loaded, to |-> call[t].to])
        BY <1>10, <2>3 DEF CommitFinding
      <4>q. QED BY <3>2, <4>1, AppendProperties DEF RecordType
    <3>4. RecordType'
      BY <1>10, <3>1, <3>3 DEF CommitFinding, RecordType
    <3>q. QED BY <1>10, <2>3, <3>4, ReturnType, CountLateType DEF CommitFinding
  <2>q. QED BY <2>2, <2>3
<1>11. CASE CommitRequest(t)
  <2>1. RecordType'
    BY <1>11, AppendProperties DEF CommitRequest, RecordType
  <2>q. QED BY <1>11, <2>1, ReturnType, CountLateType DEF CommitRequest
<1>12. CASE CommitResolve(t)
  <2>1. requests' \in Seq({"open", "resolved"})
    <3>1. DOMAIN requests = 1..Len(requests) /\ Len(requests) \in Nat
          /\ \A i \in 1..Len(requests) : requests[i] \in {"open", "resolved"}
      BY LenProperties, ElementOfSeq DEF RecordType
    <3>2. requests' = [i \in 1..Len(requests) |->
                         IF i = call[t].request THEN "resolved" ELSE requests[i]]
      BY <1>12, <3>1 DEF CommitResolve
    <3>q. QED BY <3>1, <3>2, IsASeq
  <2>2. RecordType'
    BY <1>12, <2>1 DEF CommitResolve, RecordType
  <2>q. QED BY <1>12, <2>2, ReturnType, CountLateType DEF CommitResolve
<1>13. CASE LoadAttach(t)
  <2>1. CallsType'
    BY <1>13, ReturnType, MoveType DEF LoadAttach, Step
  <2>q. QED
    BY <1>13, <2>1 DEF LoadAttach, store, record, bookkeeping, cuts, RecordType, CountsType
<1>14. CASE CommitAttach(t)
  <2>0. attachments' \in Nat /\ attached' \in [Doc -> Nat]
    <3>1. CASE attached[call[t].doc] # 0
      BY <1>14, <3>1 DEF CommitAttach, RecordType
    <3>2. CASE attached[call[t].doc] = 0
      <4>1. attachments' = attachments + 1 /\ attachments' \in Nat
        BY <1>14, <3>2 DEF CommitAttach, RecordType
      <4>2. attached' = [attached EXCEPT ![call[t].doc] = attachments']
        BY <1>14, <3>2, <4>1 DEF CommitAttach
      <4>q. QED BY <4>1, <4>2 DEF RecordType
    <3>q. QED BY <3>1, <3>2
  <2>3. UNCHANGED <<record, seal>>
    BY <1>14 DEF CommitAttach
  <2>1. RecordType'
    BY <2>0, <2>3 DEF record, RecordType
  <2>2. CountsType'
    BY <1>14, CountLateType DEF CommitAttach
  <2>q. QED BY <1>14, <2>1, <2>2, ReturnType DEF CommitAttach
<1>15. CASE CommitDetach(t)
  <2>1. RecordType'
    BY <1>15 DEF CommitDetach, record, RecordType
  <2>2. CountsType'
    BY <1>15, CountLateType DEF CommitDetach
  <2>q. QED BY <1>15, <2>1, <2>2, ReturnType DEF CommitDetach
<1>16. CASE LoadSeal(t)
  <2>1. CallsType'
    BY <1>16, ReturnType, MoveType DEF LoadSeal, Step
  <2>q. QED
    BY <1>16, <2>1 DEF LoadSeal, store, record, bookkeeping, cuts, RecordType, CountsType
<1>17. CASE CommitSeal(t)
  <2>1. SealPayload(seen[t]) \in Payload
    BY SealPayloadType DEF CallsType
  <2>2. RecordType'
    BY <1>17, <2>1 DEF CommitSeal, record, RecordType
  <2>q. QED BY <1>17, <2>2, ReturnType DEF CommitSeal, bookkeeping, cuts, CountsType
<1>q. QED
  BY <1>1, <1>2, <1>3, <1>4, <1>5, <1>6, <1>7, <1>8, <1>9, <1>10, <1>11, <1>12,
     <1>13, <1>14, <1>15, <1>16, <1>17 DEF Proceed

(* A step of one thread leaves the others where they are.                  *)
LEMMA OthersStay ==
  ASSUME CallsType, NEW t \in Thread, Begin(t) \/ Proceed(t),
         NEW u \in Thread, u # t
  PROVE  /\ pc'[u] = pc[u] /\ call'[u] = call[u]
         /\ seen'[u] = seen[u] /\ reads'[u] = reads[u]
<1> USE DEF CallsType, Goto, Return
<1>1. CASE Begin(t)
  BY <1>1 DEF Begin, BeginTransition, BeginLink, BeginPropose, BeginReview,
     BeginBulkReject, BeginFinding, BeginRequest, BeginResolve, BeginAttach,
     BeginDetach, Start
<1>2. CASE ReadTable(t) \/ Decide(t) \/ FindCandidates(t) \/ Load(t)
  BY <1>2 DEF ReadTable, Decide, FindCandidates, Load
<1>3. CASE \/ CommitTransition(t) \/ CommitLink(t) \/ CommitProposal(t)
           \/ CommitReview(t) \/ CommitBulkReject(t)
  BY <1>3 DEF CommitTransition, CommitLink, CommitProposal, CommitReview,
     CommitBulkReject
<1>4. CASE \/ CommitFinding(t) \/ CommitRequest(t) \/ CommitResolve(t)
           \/ LoadAttach(t) \/ CommitAttach(t) \/ CommitDetach(t)
  BY <1>4 DEF CommitFinding, CommitRequest, CommitResolve, LoadAttach,
     CommitAttach, CommitDetach
<1>5. CASE LoadSeal(t) \/ CommitSeal(t)
  BY <1>5 DEF LoadSeal, CommitSeal
<1>q. QED BY <1>1, <1>2, <1>3, <1>4, <1>5 DEF Proceed

(* Link rows are never deleted.                                            *)
LEMMA LinksStay ==
  ASSUME TypeOK, NEW t \in Thread, Begin(t) \/ Proceed(t)
  PROVE  DOMAIN links \subseteq DOMAIN links'
<1>1. CASE Begin(t)
  BY <1>1 DEF Begin, BeginTransition, BeginLink, BeginPropose, BeginReview,
     BeginBulkReject, BeginFinding, BeginRequest, BeginResolve, BeginAttach,
     BeginDetach, Start, store, record
<1>2. CASE \/ ReadTable(t) \/ Decide(t) \/ FindCandidates(t) \/ Load(t)
           \/ LoadAttach(t) \/ LoadSeal(t)
  BY <1>2 DEF ReadTable, Decide, FindCandidates, Load, LoadAttach, LoadSeal,
     store, record
<1>3. CASE \/ CommitTransition(t) \/ CommitFinding(t) \/ CommitRequest(t)
           \/ CommitResolve(t) \/ CommitAttach(t) \/ CommitDetach(t) \/ CommitSeal(t)
  BY <1>3 DEF CommitTransition, CommitFinding, CommitRequest, CommitResolve,
     CommitAttach, CommitDetach, CommitSeal, record
<1>4. CASE CommitLink(t) \/ CommitProposal(t)
  <2>1. PICK row : links' = Append(links, row)
    BY <1>4 DEF CommitLink, CommitProposal
  <2>2. DOMAIN links = 1..Len(links) /\ Len(links) \in Nat
        /\ DOMAIN links' = 1..(Len(links) + 1)
    BY <2>1, LenProperties DEF TypeOK, RecordType
  <2>q. QED BY <2>2
<1>5. CASE CommitReview(t) \/ CommitBulkReject(t)
  BY <1>5 DEF CommitReview, CommitBulkReject
<1>q. QED BY <1>1, <1>2, <1>3, <1>4, <1>5 DEF Proceed

LEMMA ReviewTargetStep ==
  ASSUME TypeOK, ReviewTarget, NEW t \in Thread, Begin(t) \/ Proceed(t)
  PROVE  ReviewTarget'
<1> SUFFICES ASSUME NEW u \in Thread, call'[u].kind = "review"
             PROVE  /\ call'[u].link \in DOMAIN links'
                    /\ pc'[u] = "commit" => call'[u].link \in DOMAIN seen'[u].links
  BY DEF ReviewTarget
<1>1. CASE u # t
  BY <1>1, OthersStay, LinksStay DEF ReviewTarget, TypeOK
<1>2. CASE u = t
  <2> USE <1>2 DEF TypeOK, CallsType
  <2>1. CASE Begin(t)
    <3>1. call'[t].link \in DOMAIN links /\ pc'[t] # "commit"
      BY <2>1 DEF Begin, BeginTransition, BeginLink, BeginPropose, BeginReview,
         BeginBulkReject, BeginFinding, BeginRequest, BeginResolve, BeginAttach,
         BeginDetach, Start, Goto, LinkCall, FindingCall
    <3>q. QED BY <3>1, LinksStay
  <2>2. CASE Return(t)
    BY <2>2 DEF Return, NoCall
  <2>3. CASE Load(t) /\ ~Return(t)
    <3>1. /\ call'[t] = call[t]
          /\ seen'[t] = Refreshed(seen[t], RowTable(call[t].kind))
      BY <2>3 DEF Load
    <3>2. seen'[t].links = links
      BY <3>1 DEF RowTable, Refreshed, View, Views
    <3>q. QED BY <3>1, <3>2, LinksStay DEF ReviewTarget
  <2>4. CASE ReadTable(t)
    <3>1. Head(reads[t]) \in Table
      BY <2>4, HeadTailProperties DEF ReadTable
    <3>2. /\ call'[t] = call[t] /\ pc'[t] = pc[t] /\ links' = links
          /\ seen'[t] = Refreshed(seen[t], Head(reads[t]))
      BY <2>4 DEF ReadTable, store, record
    <3>3. seen'[t].links \in {links, seen[t].links}
      BY <3>1, <3>2 DEF Table, Refreshed, View, Views
    <3>q. QED BY <3>2, <3>3 DEF ReviewTarget
  <2>5. CASE /\ \/ Decide(t) \/ FindCandidates(t) \/ CommitTransition(t)
                \/ CommitLink(t) \/ CommitProposal(t) \/ LoadAttach(t) \/ LoadSeal(t)
             /\ ~Return(t)
    <3>1. call'[t] = call[t] /\ pc'[t] # "commit"
      BY <2>5 DEF Decide, FindCandidates, CommitTransition, CommitLink,
         CommitProposal, LoadAttach, LoadSeal, Goto
    <3>q. QED BY <3>1, LinksStay DEF ReviewTarget
  <2>q. QED
    BY <2>1, <2>2, <2>3, <2>4, <2>5 DEF Proceed, CommitReview, CommitBulkReject,
       CommitFinding, CommitRequest, CommitResolve, CommitAttach, CommitDetach, CommitSeal
<1>q. QED BY <1>1, <1>2

(* A call that fails is gone, and what its last session did not commit.    *)
LEMMA FailStep ==
  ASSUME TypeOK, NEW t \in Thread, Fail(t)
  PROVE  /\ Return(t) /\ UNCHANGED <<store, late>>
         /\ pc'[t] = "idle" /\ call'[t] = NoCall /\ seen'[t] = NoView
         /\ \A u \in Thread \ {t} : /\ pc'[u] = pc[u] /\ call'[u] = call[u]
                                   /\ seen'[u] = seen[u] /\ reads'[u] = reads[u]
                                   /\ todo'[u] = todo[u]
BY DEF Fail, Return, Goto, TypeOK, CallsType

LEMMA FailType ==
  ASSUME TypeOK, ReviewTarget, NEW t \in Thread, Fail(t)
  PROVE  TypeOK' /\ ReviewTarget'
<1>1. RecordType'
  BY FailStep DEF TypeOK, RecordType, store, record
<1>2. CallsType'
  BY ReturnType DEF Fail, TypeOK
<1>3. CountsType'
  <2>1. Attaching(t) => call[t].doc \in Doc
    <3>1. Attaching(t) => call[t] \in LinkCall
      BY CallShape DEF Attaching, TypeOK, CallsType
    <3>q. QED BY <3>1 DEF LinkCall
  <2>2. unattached' \subseteq Doc
    BY <2>1 DEF Fail, TypeOK, CountsType
  <2>3. failures' \in 0..MaxFailures
    BY BoundsAssumption DEF Fail, TypeOK, CountsType
  <2>4. unsealed' \in BOOLEAN
    BY DEF Fail
  <2>q. QED BY <2>2, <2>3, <2>4 DEF Fail, TypeOK, CountsType
<1>4. ReviewTarget'
  BY FailStep DEF ReviewTarget, NoCall, store, record
<1>q. QED BY <1>1, <1>2, <1>3, <1>4 DEF TypeOK

LEMMA RestartType ==
  ASSUME TypeOK, Restart
  PROVE  TypeOK' /\ ReviewTarget'
<1>1. RecordType'
  BY DEF Restart, TypeOK, RecordType, record
<1>2. CallsType'
  BY NoViewType, EmptySeq DEF Restart, CallsType, Call, Step
<1>3. CountsType'
  BY BoundsAssumption DEF Restart, TypeOK, CountsType
<1>4. ReviewTarget'
  BY DEF Restart, ReviewTarget, NoCall
<1>q. QED BY <1>1, <1>2, <1>3, <1>4 DEF TypeOK

LEMMA TypeStep ==
  ASSUME TypeOK, ReviewTarget, [Next]_vars
  PROVE  TypeOK' /\ ReviewTarget'
<1>1. ASSUME NEW t \in Thread, Begin(t) \/ Proceed(t) PROVE TypeOK' /\ ReviewTarget'
  BY <1>1, BeginType, ProceedType, ReviewTargetStep
<1>2. CASE Restart
  BY <1>2, RestartType
<1>3. CASE UNCHANGED vars
  BY <1>3 DEF vars, store, record, locals, bookkeeping, cuts, TypeOK, RecordType,
     CallsType, CountsType, ReviewTarget
<1>f. ASSUME NEW t \in Thread, Fail(t) PROVE TypeOK' /\ ReviewTarget'
  BY <1>f, FailType
<1>q. QED BY <1>f, <1>1, <1>2, <1>3 DEF Next, AwaitRequest

(* Whatever the threads do, every table holds rows of its shape and every  *)
(* thread a view of the tables: the calls of AssessmentService never store *)
(* a value outside its column's domain, and no review addresses a row that *)
(* does not exist.                                                         *)
THEOREM TypeCorrect == Spec => [](TypeOK /\ ReviewTarget)
<1>1. Init => TypeOK /\ ReviewTarget
  <2>1. Init => ReviewTarget
    BY DEF Init, ReviewTarget, NoCall
  <2>q. QED BY <2>1, InitType
<1>2. TypeOK /\ ReviewTarget /\ [Next]_vars => TypeOK' /\ ReviewTarget'
  BY TypeStep
<1>q. QED BY <1>1, <1>2, PTL DEF Spec

-----------------------------------------------------------------------------
(* The seal.                                                               *)

(* The status changes in update_status only, and the thread that sets      *)
(* finalized goes on to seal.                                              *)
LEMMA StatusStep ==
  ASSUME NEW t \in Thread, Begin(t) \/ Proceed(t)
  PROVE  status' = status \/ CommitTransition(t)
<1>1. CASE Begin(t)
  BY <1>1 DEF Begin, BeginTransition, BeginLink, BeginPropose, BeginReview,
     BeginBulkReject, BeginFinding, BeginRequest, BeginResolve, BeginAttach,
     BeginDetach, Start, store, record
<1>q. QED
  BY <1>1 DEF Proceed, ReadTable, Decide, FindCandidates, Load, CommitLink,
     CommitProposal, CommitReview, CommitBulkReject, CommitFinding,
     CommitRequest, CommitResolve, LoadAttach, CommitAttach, CommitDetach,
     LoadSeal, CommitSeal, store, record

LEMMA SealStep ==
  ASSUME NEW t \in Thread, Begin(t) \/ Proceed(t)
  PROVE  seal' = seal \/ CommitSeal(t)
<1>1. CASE Begin(t)
  BY <1>1 DEF Begin, BeginTransition, BeginLink, BeginPropose, BeginReview,
     BeginBulkReject, BeginFinding, BeginRequest, BeginResolve, BeginAttach,
     BeginDetach, Start, store
<1>q. QED
  BY <1>1 DEF Proceed, ReadTable, Decide, FindCandidates, Load, CommitTransition,
     CommitLink, CommitProposal, CommitReview, CommitBulkReject, CommitFinding,
     CommitRequest, CommitResolve, LoadAttach, CommitAttach, CommitDetach,
     LoadSeal, store

(* Only a call's early end cuts anything off.                              *)
LEMMA CutsStay ==
  ASSUME NEW t \in Thread, Begin(t) \/ Proceed(t)
  PROVE  UNCHANGED cuts /\ UNCHANGED <<unsealed, unattached>>
<1>1. CASE Begin(t)
  BY <1>1 DEF Begin, BeginTransition, BeginLink, BeginPropose, BeginReview,
     BeginBulkReject, BeginFinding, BeginRequest, BeginResolve, BeginAttach,
     BeginDetach, Start, cuts
<1>q. QED
  BY <1>1 DEF Proceed, ReadTable, Decide, FindCandidates, Load,
     CommitTransition, CommitLink, CommitProposal, CommitReview,
     CommitBulkReject, CommitFinding, CommitRequest, CommitResolve,
     LoadAttach, CommitAttach, CommitDetach, LoadSeal, CommitSeal, bookkeeping, cuts

(* Between update_status and store_finalization_seal a thread is on its    *)
(* way to seal, unless its call was cut off there.                         *)
SealInProgress ==
  status = "finalized" /\ seal = None => unsealed \/ \E t \in Thread : Sealing(t)

(* A thread on its way to seal gives up only when it finds a seal.         *)
LEMMA SealerGoesOn ==
  ASSUME TypeOK, NEW t \in Thread, Begin(t) \/ Proceed(t), Sealing(t), seal' = None
  PROVE  Sealing(t)'
<1> USE DEF Sealing
<1>1. CASE Begin(t)
  BY <1>1 DEF Begin, BeginTransition, BeginLink, BeginPropose, BeginReview,
     BeginBulkReject, BeginFinding, BeginRequest, BeginResolve, BeginAttach,
     BeginDetach, Start
<1>2. CASE ReadTable(t)
  BY <1>2 DEF ReadTable
<1>3. CASE LoadSeal(t)
  BY <1>3 DEF LoadSeal, Goto, store, TypeOK, CallsType
<1>4. CASE CommitSeal(t)
  <2>1. SealPayload(seen[t]) \in Payload
    BY SealPayloadType DEF TypeOK, CallsType
  <2>q. QED BY <1>4, <2>1, NoneIsNoPayload DEF CommitSeal
<1>q. QED
  BY <1>1, <1>2, <1>3, <1>4 DEF Proceed, Decide, FindCandidates, Load, Commits,
     CommitTransition, CommitLink, CommitProposal, CommitReview, CommitBulkReject,
     CommitFinding, CommitRequest, CommitResolve, LoadAttach, CommitAttach, CommitDetach

LEMMA SealInProgressStep ==
  ASSUME TypeOK, SealInProgress, [Next]_vars
  PROVE  SealInProgress'
<1> SUFFICES ASSUME status' = "finalized", seal' = None, ~unsealed'
             PROVE  \E u \in Thread : Sealing(u)'
  BY DEF SealInProgress
<1>1. ASSUME NEW t \in Thread, Begin(t) \/ Proceed(t)
      PROVE  \E u \in Thread : Sealing(u)'
  <2>0. unsealed' = unsealed
    BY <1>1, CutsStay
  <2>1. seal = None
    <3>1. CASE CommitSeal(t)
      <4>1. SealPayload(seen[t]) \in Payload
        BY SealPayloadType DEF TypeOK, CallsType
      <4>q. QED BY <3>1, <4>1, NoneIsNoPayload DEF CommitSeal
    <3>q. QED BY <1>1, <3>1, SealStep
  <2>2. CASE status = "finalized"
    <3>1. PICK u \in Thread : Sealing(u)
      BY <2>0, <2>1, <2>2 DEF SealInProgress
    <3>2. CASE u = t
      BY <1>1, <3>1, <3>2, SealerGoesOn
    <3>3. CASE u # t
      BY <1>1, <3>1, <3>3, OthersStay DEF Sealing, TypeOK
    <3>q. QED BY <3>2, <3>3
  <2>3. CASE status # "finalized"
    <3>1. CommitTransition(t) /\ call[t].to = "finalized"
      BY <1>1, <2>3, StatusStep DEF CommitTransition, Flush
    <3>2. pc'[t] = "sealing"
      BY <3>1 DEF CommitTransition, Goto, TypeOK, CallsType
    <3>q. QED BY <3>2 DEF Sealing
  <2>q. QED BY <2>2, <2>3
<1>2. CASE Restart
  BY <1>2 DEF Restart, SealInProgress, record
<1>3. CASE UNCHANGED vars
  BY <1>3 DEF vars, store, record, locals, bookkeeping, cuts, SealInProgress, Sealing
<1>f. ASSUME NEW t \in Thread, Fail(t) PROVE \E u \in Thread : Sealing(u)'
  <2>1. ~unsealed /\ ~Sealing(t)
    BY <1>f DEF Fail
  <2>2. status = "finalized" /\ seal = None
    BY <1>f, FailStep DEF store, record
  <2>3. PICK u \in Thread : Sealing(u)
    BY <2>1, <2>2 DEF SealInProgress
  <2>q. QED BY <1>f, <2>1, <2>3, FailStep DEF Sealing
<1>q. QED BY <1>f, <1>1, <1>2, <1>3 DEF Next, AwaitRequest

(* With any number of threads, whatever they run and whichever of their    *)
(* sessions raise: a finalized record that no call is working on has a     *)
(* seal, unless a call was cut off, by an error or a kill, between         *)
(* update_status and store_finalization_seal.                              *)
THEOREM UnsealedIsExplainedTheorem == Spec => []UnsealedIsExplained
<1>1. Init => SealInProgress
  BY DEF Init, SealInProgress
<1>2. TypeOK /\ SealInProgress /\ [Next]_vars => SealInProgress'
  BY SealInProgressStep
<1>3. SealInProgress => UnsealedIsExplained
  BY DEF SealInProgress, Sealing, UnsealedIsExplained, Quiet
<1>q. QED BY <1>1, <1>2, <1>3, TypeCorrect, PTL DEF Spec

-----------------------------------------------------------------------------
(* One lead: a single thread runs transitions, the others everything else. *)

OneLead ==
  \A t, u \in Thread : "transition" \in Kinds[t] \cap Kinds[u] => t = u

TransitionStep == {"readiness", "load", "commit", "sealing", "commit_seal"}

(* The lead's transition is still allowed when it commits.                 *)
LeadInv ==
  \A t \in Thread :
    /\ call[t].kind = "transition" =>
         /\ "transition" \in Kinds[t]
         /\ pc[t] \in TransitionStep
         /\ pc[t] \in {"readiness", "load", "commit"} => call[t].to \in Allowed[status]
         /\ pc[t] = "commit" => seen[t].status = status
    /\ Sealing(t) => call[t].kind = "transition"

(* An allowed transition moves, and no transition leaves finalized.        *)
LEMMA AllowedMoves ==
  ASSUME NEW s \in Status, NEW to \in Allowed[s]
  PROVE  to # s /\ to \in Status /\ s # "finalized"
  BY DEF Allowed, Status

LEMMA CommitTransitionLead ==
  ASSUME TypeOK, LeadInv, NEW t \in Thread, CommitTransition(t)
  PROVE  /\ status' = call[t].to /\ call[t].to \in Allowed[status]
         /\ history' = Append(history, [from |-> status, to |-> call[t].to])
         /\ status # "finalized"
<1>1. /\ call[t].to \in Allowed[status] /\ seen[t].status = status
  BY DEF CommitTransition, Commits, LeadInv
<1>2. call[t].to # status /\ status # "finalized"
  BY <1>1, AllowedMoves DEF TypeOK, RecordType
<1>q. QED BY <1>1, <1>2 DEF CommitTransition, Flush

LEMMA LeadStep ==
  ASSUME OneLead, TypeOK, LeadInv, NEW t \in Thread, Begin(t) \/ Proceed(t)
  PROVE  LeadInv'
<1> SUFFICES ASSUME NEW u \in Thread
             PROVE  /\ call'[u].kind = "transition" =>
                         /\ "transition" \in Kinds[u]
                         /\ pc'[u] \in TransitionStep
                         /\ pc'[u] \in {"readiness", "load", "commit"} =>
                              call'[u].to \in Allowed[status']
                         /\ pc'[u] = "commit" => seen'[u].status = status'
                    /\ Sealing(u)' => call'[u].kind = "transition"
  BY DEF LeadInv
<1>1. CASE u # t
  <2>1. pc'[u] = pc[u] /\ call'[u] = call[u] /\ seen'[u] = seen[u]
    BY <1>1, OthersStay DEF TypeOK
  <2>2. status' # status => CommitTransition(t)
    BY StatusStep
  <2>3. status' # status => call[u].kind # "transition"
    BY <1>1, <2>2 DEF OneLead, LeadInv, CommitTransition, Commits
  <2>q. QED BY <2>1, <2>3 DEF LeadInv, Sealing
<1>2. CASE u = t
  <2> USE <1>2 DEF TypeOK, CallsType
  <2>1. CASE Return(t)
    BY <2>1 DEF Return, NoCall, Sealing, Goto
  <2>2. CASE Begin(t)
    <3>1. CASE BeginTransition(t)
      <4>1. PICK to \in Allowed[status] :
              LET c == [kind |-> "transition", to |-> to]
              IN  IF to = "finalized"
                    THEN Start(t, c, "readiness", <<"links", "requests", "findings">>)
                    ELSE Start(t, c, "load", <<>>)
        BY <3>1 DEF BeginTransition
      <4>2. /\ "transition" \in Kinds[t] /\ status' = status
            /\ call'[t].kind = "transition" /\ call'[t].to = to
            /\ pc'[t] \in {"readiness", "load"}
        BY <4>1 DEF Start, Goto, store, record
      <4>q. QED BY <4>2 DEF TransitionStep, Sealing
    <3>2. CASE ~BeginTransition(t)
      <4>1. call'[t].kind # "transition" /\ pc'[t] \notin {"sealing", "commit_seal"}
        BY <2>2, <3>2 DEF Begin, BeginLink, BeginPropose, BeginReview,
           BeginBulkReject, BeginFinding, BeginRequest, BeginResolve, BeginAttach,
           BeginDetach, Start, Goto, LinkCall, FindingCall
      <4>q. QED BY <4>1 DEF Sealing
    <3>q. QED BY <3>1, <3>2
  <2>3. CASE Load(t) /\ ~Return(t)
    <3>1. /\ call'[t] = call[t] /\ status' = status /\ pc[t] = "load"
          /\ pc'[t] = "commit"
          /\ seen'[t] = Refreshed(seen[t], RowTable(call[t].kind))
      BY <2>3 DEF Load, Goto, store, record
    <3>2. call[t].kind = "transition" => seen'[t].status = status
      BY <3>1 DEF RowTable, Refreshed, View, Views
    <3>q. QED BY <3>1, <3>2 DEF LeadInv, TransitionStep, Sealing
  <2>4. CASE ReadTable(t)
    <3>1. Head(reads[t]) \in Table
      BY <2>4, HeadTailProperties DEF ReadTable
    <3>2. /\ call'[t] = call[t] /\ pc'[t] = pc[t] /\ status' = status
          /\ seen'[t] = Refreshed(seen[t], Head(reads[t]))
      BY <2>4 DEF ReadTable, store, record
    <3>3. seen'[t].status \in {status, seen[t].status}
      BY <3>1, <3>2 DEF Table, Refreshed, View, Views
    <3>q. QED BY <3>2, <3>3 DEF LeadInv, Sealing
  <2>5. CASE CommitTransition(t) /\ ~Return(t)
    BY <2>5 DEF CommitTransition, Commits, Goto, Sealing, TransitionStep, LeadInv
  <2>6. CASE /\ \/ Decide(t) \/ FindCandidates(t) \/ CommitLink(t)
                \/ CommitProposal(t) \/ LoadAttach(t)
             /\ ~Return(t)
    <3>1. CASE Decide(t)
      <4>1. call'[t] = call[t] /\ pc'[t] = "load" /\ status' = status
            /\ pc[t] \in {"lookup", "readiness"}
        BY <2>6, <3>1 DEF Decide, Goto, store, record
      <4>q. QED BY <4>1 DEF LeadInv, Sealing, TransitionStep
    <3>2. CASE FindCandidates(t) \/ LoadAttach(t)
      <4>1. /\ call'[t] = call[t] /\ pc'[t] \in {"load", "commit_attach"}
            /\ pc[t] \in {"survey", "load_attach"}
        BY <2>6, <3>2 DEF FindCandidates, LoadAttach, Goto
      <4>q. QED BY <4>1 DEF LeadInv, Sealing, TransitionStep
    <3>3. CASE CommitLink(t) \/ CommitProposal(t)
      <4>1. /\ call'[t] = call[t] /\ pc'[t] \in {"load", "load_attach"}
            /\ call[t].kind # "transition"
        BY <2>6, <3>3 DEF CommitLink, CommitProposal, Commits, Goto
      <4>q. QED BY <4>1 DEF Sealing
    <3>q. QED BY <2>6, <3>1, <3>2, <3>3
  <2>7. CASE LoadSeal(t) /\ ~Return(t)
    <3>1. call'[t] = call[t] /\ pc[t] = "sealing" /\ pc'[t] = "commit_seal"
      BY <2>7 DEF LoadSeal, Goto
    <3>q. QED BY <3>1 DEF LeadInv, Sealing, TransitionStep
  <2>q. QED
    BY <2>1, <2>2, <2>3, <2>4, <2>5, <2>6, <2>7 DEF Proceed, CommitReview,
       CommitBulkReject, CommitFinding, CommitRequest, CommitResolve, CommitAttach,
       CommitDetach, CommitSeal
<1>q. QED BY <1>1, <1>2

LEMMA LeadNext ==
  ASSUME OneLead, TypeOK, LeadInv, [Next]_vars
  PROVE  LeadInv'
<1>1. ASSUME NEW t \in Thread, Begin(t) \/ Proceed(t) PROVE LeadInv'
  BY <1>1, LeadStep
<1>2. CASE Restart
  BY <1>2 DEF Restart, LeadInv, NoCall, Sealing
<1>3. CASE UNCHANGED vars
  BY <1>3 DEF vars, store, record, locals, LeadInv, Sealing
<1>f. ASSUME NEW t \in Thread, Fail(t) PROVE LeadInv'
  BY <1>f, FailStep DEF LeadInv, NoCall, Sealing, store, record
<1>q. QED BY <1>f, <1>1, <1>2, <1>3 DEF Next, AwaitRequest

LEMMA LeadCorrect ==
  ASSUME OneLead
  PROVE  Spec => []LeadInv
<1>1. Init => LeadInv
  BY DEF Init, LeadInv, NoCall, Sealing
<1>2. TypeOK /\ LeadInv /\ [Next]_vars => LeadInv'
  BY LeadNext
<1>q. QED BY <1>1, <1>2, TypeCorrect, PTL DEF Spec

(* What a step does to the status and its history.                         *)
LEMMA StatusNext ==
  ASSUME TypeOK, LeadInv, [Next]_vars
  PROVE  \/ UNCHANGED <<status, history>>
         \/ \E to \in Allowed[status] :
              /\ status' = to
              /\ history' = Append(history, [from |-> status, to |-> to])
<1>1. ASSUME NEW t \in Thread, Begin(t) \/ Proceed(t)
      PROVE  UNCHANGED <<status, history>> \/ CommitTransition(t)
  <2>1. CASE Begin(t)
    BY <2>1 DEF Begin, BeginTransition, BeginLink, BeginPropose, BeginReview,
       BeginBulkReject, BeginFinding, BeginRequest, BeginResolve, BeginAttach,
       BeginDetach, Start, store, record
  <2>q. QED
    BY <1>1, <2>1 DEF Proceed, ReadTable, Decide, FindCandidates, Load, CommitLink,
       CommitProposal, CommitReview, CommitBulkReject, CommitFinding,
       CommitRequest, CommitResolve, LoadAttach, CommitAttach, CommitDetach,
       LoadSeal, CommitSeal, store, record
<1>2. CASE Restart
  BY <1>2 DEF Restart, record
<1>3. CASE UNCHANGED vars
  BY <1>3 DEF vars, store, record
<1>f. ASSUME NEW t \in Thread, Fail(t) PROVE UNCHANGED <<status, history>>
  BY <1>f, FailStep DEF store, record
<1>q. QED BY <1>f, <1>1, <1>2, <1>3, CommitTransitionLead DEF Next, AwaitRequest

(* As long as one person at a time moves the assessment, FINALIZED is      *)
(* terminal: no interleaving with the other calls reopens it.  With two    *)
(* concurrent transitions it is not.                                       *)
THEOREM FinalizedIsTerminalTheorem ==
  ASSUME OneLead
  PROVE  Spec => FinalizedIsTerminal
<1>1. TypeOK /\ LeadInv /\ [Next]_vars => [status # "finalized"]_status
  BY StatusNext, AllowedMoves DEF TypeOK, RecordType
<1>q. QED BY <1>1, TypeCorrect, LeadCorrect, PTL DEF Spec, FinalizedIsTerminal

(* As long as one person at a time moves the assessment, its history is    *)
(* one walk through the allowed transitions that ends at its status.       *)
THEOREM HistoryIsWalkTheorem ==
  ASSUME OneLead
  PROVE  Spec => []HistoryIsWalk
<1> DEFINE Walk == HistoryIsWalk /\ history # <<>>
<1>1. Init => Walk
  BY DEF Init, HistoryIsWalk
<1>2. ASSUME TypeOK, LeadInv, Walk, [Next]_vars
      PROVE  Walk'
  <2>1. CASE UNCHANGED <<status, history>>
    BY <1>2, <2>1 DEF HistoryIsWalk
  <2>2. ASSUME NEW to \in Allowed[status], status' = to,
               history' = Append(history, [from |-> status, to |-> to])
        PROVE  Walk'
    <3> DEFINE row == [from |-> status, to |-> to]
               n == Len(history)
    <3>1. row \in StatusChange
      BY <1>2, AllowedMoves DEF TypeOK, RecordType, StatusChange
    <3>2. history \in Seq(StatusChange) /\ n \in Nat \ {0}
      BY <1>2, EmptySeq DEF TypeOK, RecordType
    <3>3. /\ Len(history') = n + 1 /\ history'[n + 1] = row /\ history' # <<>>
          /\ \A i \in 1..n : history'[i] = history[i]
      BY <2>2, <3>1, <3>2, AppendProperties
    <3>4. history'[Len(history')].to = status'
      BY <2>2, <3>3
    <3>5. ASSUME NEW i \in 2..Len(history')
          PROVE  history'[i].from = history'[i-1].to
                 /\ history'[i].to \in Allowed[history'[i].from]
      <4>1. CASE i = n + 1
        BY <1>2, <3>2, <3>3, <4>1 DEF HistoryIsWalk
      <4>2. CASE i # n + 1
        <5>1. i \in 2..n /\ i \in 1..n /\ i - 1 \in 1..n
          BY <3>2, <3>3, <3>5, <4>2
        <5>q. QED BY <1>2, <3>3, <5>1 DEF HistoryIsWalk
      <4>q. QED BY <4>1, <4>2
    <3>q. QED BY <3>3, <3>4, <3>5 DEF HistoryIsWalk
  <2>q. QED BY <1>2, <2>1, <2>2, StatusNext
<1>3. Walk => HistoryIsWalk
  OBVIOUS
<1>q. QED BY <1>1, <1>2, <1>3, TypeCorrect, LeadCorrect, PTL DEF Spec

-----------------------------------------------------------------------------
(* Late writes, with one lead.                                             *)

AtCommit(t) == pc[t] \in {"commit", "commit_attach"}

(* A thread that wrote late is past its commit, and the record finalized.  *)
LateInv ==
  \A t \in Thread :
    /\ late[t] <= 1
    /\ late[t] > 0 => status = "finalized" /\ ~AtCommit(t)

(* A late write is counted by the step that makes it.                      *)
LEMMA LateStep ==
  ASSUME TypeOK, NEW t \in Thread, Begin(t) \/ Proceed(t)
  PROVE  \/ late' = late
         \/ /\ status = "finalized" /\ AtCommit(t) /\ ~AtCommit(t)'
            /\ late' = [late EXCEPT ![t] = @ + 1]
<1> USE DEF TypeOK, CountsType, CallsType, AtCommit
<1>1. CASE Begin(t)
  BY <1>1 DEF Begin, BeginTransition, BeginLink, BeginPropose, BeginReview,
     BeginBulkReject, BeginFinding, BeginRequest, BeginResolve, BeginAttach,
     BeginDetach, Start
<1>2. CASE \/ ReadTable(t) \/ Decide(t) \/ FindCandidates(t) \/ Load(t)
           \/ CommitTransition(t) \/ LoadAttach(t) \/ LoadSeal(t) \/ CommitSeal(t)
  BY <1>2 DEF ReadTable, Decide, FindCandidates, Load, CommitTransition,
     LoadAttach, LoadSeal, CommitSeal, bookkeeping, cuts
<1>3. CASE \/ CommitReview(t) \/ CommitBulkReject(t) \/ CommitFinding(t)
           \/ CommitRequest(t) \/ CommitResolve(t) \/ CommitAttach(t) \/ CommitDetach(t)
  <2>1. /\ AtCommit(t) /\ Return(t)
        /\ late' = late \/ CountLate(t)
    BY <1>3 DEF CommitReview, CommitBulkReject, CommitFinding, CommitRequest,
       CommitResolve, CommitAttach, CommitDetach, Commits
  <2>2. ~AtCommit(t)'
    BY <2>1 DEF Return, Goto
  <2>q. QED BY <2>1, <2>2 DEF CountLate
<1>4. CASE CommitLink(t) \/ CommitProposal(t)
  <2>1. AtCommit(t) /\ CountLate(t)
    BY <1>4 DEF CommitLink, CommitProposal, Commits
  <2>2. ~AtCommit(t)'
    BY <1>4 DEF CommitLink, CommitProposal, Return, Goto
  <2>q. QED BY <2>1, <2>2 DEF CountLate
<1>q. QED BY <1>1, <1>2, <1>3, <1>4 DEF Proceed

(* No call gets past the repository's status check of a finalized record.  *)
LEMMA CheckRefuses ==
  ASSUME TypeOK, LeadInv, NEW t \in Thread, Begin(t) \/ Proceed(t),
         status = "finalized", AtCommit(t)'
  PROVE  AtCommit(t)
<1> USE DEF TypeOK, CallsType, AtCommit
<1>1. CASE Begin(t)
  BY <1>1 DEF Begin, BeginTransition, BeginLink, BeginPropose, BeginReview,
     BeginBulkReject, BeginFinding, BeginRequest, BeginResolve, BeginAttach,
     BeginDetach, Start, Goto
<1>2. CASE Return(t)
  BY <1>2 DEF Return, Goto
<1>3. CASE Load(t) /\ ~Return(t)
  <2>1. call[t].kind = "transition" /\ pc[t] = "load"
    BY <1>3 DEF Load, AssertWritable
  <2>q. QED BY <2>1 DEF LeadInv, Allowed
<1>4. CASE LoadAttach(t) /\ ~Return(t)
  <2>1. call[t].kind = "transition" /\ pc[t] = "load_attach"
    BY <1>4 DEF LoadAttach, AssertWritable
  <2>q. QED BY <2>1 DEF LeadInv, TransitionStep
<1>5. CASE ReadTable(t)
  BY <1>5 DEF ReadTable
<1>6. CASE /\ \/ Decide(t) \/ FindCandidates(t) \/ CommitTransition(t) \/ CommitLink(t)
              \/ CommitProposal(t) \/ LoadSeal(t)
           /\ ~Return(t)
  BY <1>6 DEF Decide, FindCandidates, CommitTransition, CommitLink, CommitProposal,
     LoadSeal, Goto
<1>q. QED
  BY <1>1, <1>2, <1>3, <1>4, <1>5, <1>6 DEF Proceed, CommitReview, CommitBulkReject,
     CommitFinding, CommitRequest, CommitResolve, CommitAttach, CommitDetach, CommitSeal

LEMMA LateNext ==
  ASSUME TypeOK, LeadInv, LateInv, [Next]_vars
  PROVE  LateInv'
<1>0. status = "finalized" => status' = "finalized"
  BY StatusNext, AllowedMoves DEF TypeOK, RecordType
<1>1. ASSUME NEW t \in Thread, Begin(t) \/ Proceed(t) PROVE LateInv'
  <2> SUFFICES ASSUME NEW u \in Thread
               PROVE  /\ late'[u] <= 1
                      /\ late'[u] > 0 => status' = "finalized" /\ ~AtCommit(u)'
    BY DEF LateInv
  <2>1. CASE u # t
    <3>1. late'[u] = late[u]
      BY <1>1, <2>1, LateStep DEF TypeOK, CountsType
    <3>2. AtCommit(u)' = AtCommit(u)
      BY <1>1, <2>1, OthersStay DEF AtCommit, TypeOK
    <3>q. QED BY <1>0, <3>1, <3>2 DEF LateInv
  <2>2. CASE u = t
    <3>1. CASE late' = late
      BY <1>0, <1>1, <2>2, <3>1, CheckRefuses DEF LateInv
    <3>2. CASE late' # late
      <4>1. status = "finalized" /\ AtCommit(t) /\ ~AtCommit(t)'
            /\ late' = [late EXCEPT ![t] = @ + 1]
        BY <1>1, <3>2, LateStep
      <4>2. late[t] = 0 /\ late'[t] = 1
        BY <4>1 DEF LateInv, TypeOK, CountsType
      <4>q. QED BY <1>0, <2>2, <4>1, <4>2
    <3>q. QED BY <3>1, <3>2
  <2>q. QED BY <2>1, <2>2
<1>2. CASE Restart
  BY <1>2, <1>0 DEF Restart, LateInv, AtCommit
<1>3. CASE UNCHANGED vars
  BY <1>3 DEF vars, store, record, locals, bookkeeping, cuts, LateInv, AtCommit
<1>f. ASSUME NEW t \in Thread, Fail(t) PROVE LateInv'
  <2>1. late' = late /\ UNCHANGED status
    BY <1>f, FailStep DEF store, record
  <2>2. \A u \in Thread : AtCommit(u)' => AtCommit(u)
    BY <1>f, FailStep DEF AtCommit
  <2>q. QED BY <2>1, <2>2 DEF LateInv
<1>q. QED BY <1>f, <1>1, <1>2, <1>3 DEF Next, AwaitRequest

(* As long as one person at a time moves the assessment: whatever the      *)
(* number of threads and calls, a thread gets at most one write onto a     *)
(* finalized record, the one whose session had passed the status check.    *)
THEOREM OneLateWriteTheorem ==
  ASSUME OneLead
  PROVE  Spec => []OneLateWriteAtMost
<1>1. Init => LateInv
  BY DEF Init, LateInv
<1>2. TypeOK /\ LeadInv /\ LateInv /\ [Next]_vars => LateInv'
  BY LateNext
<1>3. LateInv => OneLateWriteAtMost
  BY DEF LateInv, OneLateWriteAtMost
<1>q. QED BY <1>1, <1>2, <1>3, TypeCorrect, LeadCorrect, PTL DEF Spec

-----------------------------------------------------------------------------
(* What a seal seals, with one lead.                                       *)

(* Nobody else can have sealed since a thread saw that there was no seal.  *)
NoSealYet == \A t \in Thread : pc[t] = "commit_seal" => seal = None

LEMMA NoSealYetStep ==
  ASSUME OneLead, TypeOK, LeadInv, NoSealYet, [Next]_vars
  PROVE  NoSealYet' /\ [seal # None => seal' = seal]_seal
<1>1. ASSUME NEW t \in Thread, Begin(t) \/ Proceed(t)
      PROVE  NoSealYet' /\ (seal # None => seal' = seal)
  <2>1. seal # None => seal' = seal
    BY <1>1, SealStep DEF NoSealYet, CommitSeal
  <2>2. ASSUME NEW u \in Thread, pc'[u] = "commit_seal" PROVE seal' = None
    <3>1. CASE u = t
      <4> USE DEF TypeOK, CallsType
      <4>1. CASE Begin(t)
        BY <2>2, <3>1, <4>1 DEF Begin, BeginTransition, BeginLink, BeginPropose,
           BeginReview, BeginBulkReject, BeginFinding, BeginRequest, BeginResolve,
           BeginAttach, BeginDetach, Start, Goto
      <4>2. CASE Return(t)
        BY <2>2, <3>1, <4>2 DEF Return, Goto
      <4>3. CASE LoadSeal(t)
        BY <2>2, <3>1, <4>2, <4>3 DEF LoadSeal, store
      <4>4. CASE ReadTable(t)
        BY <2>2, <3>1, <4>4 DEF ReadTable, store, NoSealYet
      <4>5. CASE /\ \/ Decide(t) \/ FindCandidates(t) \/ Load(t) \/ CommitTransition(t)
                    \/ CommitLink(t) \/ CommitProposal(t) \/ LoadAttach(t)
                 /\ ~Return(t)
        BY <2>2, <3>1, <4>5 DEF Decide, FindCandidates, Load, CommitTransition,
           CommitLink, CommitProposal, LoadAttach, Goto
      <4>q. QED
        BY <1>1, <4>1, <4>2, <4>3, <4>4, <4>5 DEF Proceed, CommitReview,
           CommitBulkReject, CommitFinding, CommitRequest, CommitResolve,
           CommitAttach, CommitDetach, CommitSeal
    <3>2. CASE u # t
      <4>1. pc[u] = "commit_seal"
        BY <1>1, <2>2, <3>2, OthersStay DEF TypeOK
      <4>2. ~CommitSeal(t)
        BY <3>2, <4>1 DEF CommitSeal, Sealing, LeadInv, OneLead
      <4>q. QED BY <1>1, <4>1, <4>2, SealStep DEF NoSealYet
    <3>q. QED BY <3>1, <3>2
  <2>q. QED BY <2>1, <2>2 DEF NoSealYet
<1>2. CASE Restart
  BY <1>2 DEF Restart, NoSealYet
<1>3. CASE UNCHANGED vars
  BY <1>3 DEF vars, store, locals, NoSealYet
<1>f. ASSUME NEW t \in Thread, Fail(t) PROVE NoSealYet' /\ seal' = seal
  BY <1>f, FailStep DEF NoSealYet, store
<1>q. QED BY <1>f, <1>1, <1>2, <1>3 DEF Next, AwaitRequest

(* As long as one person at a time moves the assessment, a seal is written *)
(* once and never replaced.  With two concurrent finalizations it may be.  *)
THEOREM SealIsPermanentTheorem ==
  ASSUME OneLead
  PROVE  Spec => SealIsPermanent
<1>1. Init => NoSealYet
  BY DEF Init, NoSealYet
<1>2. TypeOK /\ LeadInv /\ NoSealYet /\ [Next]_vars
      => NoSealYet' /\ [seal # None => seal' = seal]_seal
  BY NoSealYetStep
<1>q. QED BY <1>1, <1>2, TypeCorrect, LeadCorrect, PTL DEF Spec, SealIsPermanent

(* Thread t has yet to read table x.                                       *)
Unread(t, x) == \E i \in 1..Len(reads[t]) : reads[t][i] = x

(* What thread t has read of the record is what the record holds.          *)
SeenAsIs(t) ==
  /\ Unread(t, "status") \/ seen[t].status = status
  /\ Unread(t, "history") \/ seen[t].history = history
  /\ Unread(t, "links") \/ seen[t].links = links
  /\ Unread(t, "findings") \/ seen[t].findings = findings
  /\ Unread(t, "findingHistory") \/ seen[t].findingHistory = findingHistory
  /\ Unread(t, "requests") \/ seen[t].requests = requests

Untouched == \A t \in Thread : late[t] = 0

(* Without a late write the six reads of a sealing thread are one snapshot *)
(* of the finalized record, and the seal is a seal of it.                  *)
SealedContent ==
  Untouched =>
    /\ seal # None => status = "finalized" /\ seal = SealPayload(View)
    /\ \A t \in Thread : Sealing(t) =>
         /\ status = "finalized" /\ SeenAsIs(t)
         /\ pc[t] = "commit_seal" => reads[t] = <<>>

(* A step that is not a late write leaves a finalized record alone.        *)
LEMMA FinalizedFrozen ==
  ASSUME TypeOK, LeadInv, NEW t \in Thread, Begin(t) \/ Proceed(t),
         status = "finalized", late' = late
  PROVE  UNCHANGED record
<1>1. CASE Begin(t)
  BY <1>1 DEF Begin, BeginTransition, BeginLink, BeginPropose, BeginReview,
     BeginBulkReject, BeginFinding, BeginRequest, BeginResolve, BeginAttach,
     BeginDetach, Start, store
<1>2. ~CountLate(t)
  BY DEF CountLate, TypeOK, CountsType
<1>3. ~CommitTransition(t)
  BY CommitTransitionLead
<1>q. QED
  BY <1>1, <1>2, <1>3 DEF Proceed, ReadTable, Decide, FindCandidates, Load, CommitLink,
     CommitProposal, CommitReview, CommitBulkReject, CommitFinding,
     CommitRequest, CommitResolve, LoadAttach, CommitAttach, CommitDetach,
     LoadSeal, CommitSeal, store, record

(* Sealing begins with update_status.                                      *)
LEMMA SealingBegins ==
  ASSUME CallsType, NEW t \in Thread, Begin(t) \/ Proceed(t), Sealing(t)'
  PROVE  \/ CommitTransition(t) /\ call[t].to = "finalized"
         \/ Sealing(t) /\ (LoadSeal(t) \/ ReadTable(t))
<1> USE DEF CallsType, Sealing
<1>1. CASE Begin(t)
  BY <1>1 DEF Begin, BeginTransition, BeginLink, BeginPropose, BeginReview,
     BeginBulkReject, BeginFinding, BeginRequest, BeginResolve, BeginAttach,
     BeginDetach, Start, Goto
<1>2. CASE Return(t)
  BY <1>2 DEF Return, Goto
<1>3. CASE ReadTable(t) \/ LoadSeal(t)
  BY <1>3 DEF ReadTable, LoadSeal
<1>4. CASE /\ \/ Decide(t) \/ FindCandidates(t) \/ Load(t) \/ CommitTransition(t)
              \/ CommitLink(t) \/ CommitProposal(t) \/ LoadAttach(t)
           /\ ~Return(t)
  BY <1>4 DEF Decide, FindCandidates, Load, CommitTransition, CommitLink,
     CommitProposal, LoadAttach, Goto
<1>q. QED
  BY <1>1, <1>2, <1>3, <1>4 DEF Proceed, CommitReview, CommitBulkReject,
     CommitFinding, CommitRequest, CommitResolve, CommitAttach, CommitDetach, CommitSeal

(* A read of the next table, of a record that stands still.                *)
LEMMA ReadTableSees ==
  ASSUME TypeOK, NEW t \in Thread, ReadTable(t), SeenAsIs(t)
  PROVE  SeenAsIs(t)'
<1> DEFINE h == Head(reads[t])
<1> USE DEF TypeOK, CallsType
<1>1. reads[t] \in Seq(Table) /\ reads[t] # <<>>
  BY DEF ReadTable
<1>2. h \in Table /\ seen[t] \in Views
  BY <1>1, HeadTailProperties
<1>3. reads'[t] = Tail(reads[t]) /\ seen'[t] = Refreshed(seen[t], h)
  BY DEF ReadTable
<1>4. UNCHANGED record
  BY DEF ReadTable, store
<1>5. ASSUME NEW x, Unread(t, x) PROVE x = h \/ Unread(t, x)'
  <2>1. PICK i \in 1..Len(reads[t]) : reads[t][i] = x
    BY <1>5 DEF Unread
  <2>2. CASE i = 1
    BY <1>1, <2>1, <2>2, HeadTailProperties
  <2>3. CASE i # 1
    <3>1. /\ i - 1 \in 1..Len(Tail(reads[t])) /\ Tail(reads[t])[i - 1] = reads[t][i]
      BY <1>1, <2>1, <2>3, HeadTailProperties
    <3>q. QED BY <1>3, <2>1, <3>1 DEF Unread
  <2>q. QED BY <2>2, <2>3
<1>6. /\ seen'[t].status = IF h = "status" THEN status ELSE seen[t].status
      /\ seen'[t].history = IF h = "history" THEN history ELSE seen[t].history
      /\ seen'[t].links = IF h = "links" THEN links ELSE seen[t].links
  BY <1>2, <1>3 DEF Refreshed, View, Views, Table
<1>7. /\ seen'[t].findings = IF h = "findings" THEN findings ELSE seen[t].findings
      /\ seen'[t].findingHistory =
           IF h = "findingHistory" THEN findingHistory ELSE seen[t].findingHistory
      /\ seen'[t].requests = IF h = "requests" THEN requests ELSE seen[t].requests
  BY <1>2, <1>3 DEF Refreshed, View, Views, Table
<1> HIDE DEF h
<1>q. QED BY <1>4, <1>5, <1>6, <1>7 DEF SeenAsIs, record

LEMMA SealedContentStep ==
  ASSUME TypeOK, LeadInv, SealedContent, [Next]_vars
  PROVE  SealedContent'
<1> SUFFICES ASSUME Untouched' PROVE
      /\ seal' # None => status' = "finalized" /\ seal' = SealPayload(View)'
      /\ \A u \in Thread : Sealing(u)' =>
           /\ status' = "finalized" /\ SeenAsIs(u)'
           /\ pc'[u] = "commit_seal" => reads'[u] = <<>>
  BY DEF SealedContent
<1> DEFINE Goal ==
      /\ seal' # None => status' = "finalized" /\ seal' = SealPayload(View)'
      /\ \A u \in Thread : Sealing(u)' =>
           /\ status' = "finalized" /\ SeenAsIs(u)'
           /\ pc'[u] = "commit_seal" => reads'[u] = <<>>
<1>1. ASSUME NEW t \in Thread, Begin(t) \/ Proceed(t) PROVE Goal
  <2>1. late' = late
    BY <1>1, LateStep DEF TypeOK, CountsType, Untouched
  <2>2. Untouched
    BY <2>1 DEF Untouched
  <2>3. CASE CommitTransition(t)
    <3>1. status # "finalized"
      BY <2>3, CommitTransitionLead
    <3>2. seal = None /\ \A u \in Thread : ~Sealing(u)
      BY <2>2, <3>1 DEF SealedContent
    <3>3. seal' = None
      BY <1>1, <3>2, SealStep DEF CommitSeal, Sealing
    <3>4. ASSUME NEW u \in Thread, Sealing(u)'
          PROVE  /\ status' = "finalized" /\ SeenAsIs(u)' /\ pc'[u] # "commit_seal"
      <4>1. u = t
        BY <1>1, <3>2, <3>4, OthersStay DEF TypeOK, Sealing
      <4>2. call[t].to = "finalized"
        BY <1>1, <3>2, <3>4, <4>1, SealingBegins DEF TypeOK
      <4>3. /\ status' = "finalized" /\ pc'[t] = "sealing"
            /\ reads'[t] = <<"status", "history", "links", "findings",
                             "findingHistory", "requests">>
        BY <2>3, <4>2, CommitTransitionLead DEF CommitTransition, Goto, TypeOK, CallsType
      <4>4. /\ 1 \in 1..Len(reads'[t]) /\ reads'[t][1] = "status"
            /\ 2 \in 1..Len(reads'[t]) /\ reads'[t][2] = "history"
            /\ 3 \in 1..Len(reads'[t]) /\ reads'[t][3] = "links"
            /\ 4 \in 1..Len(reads'[t]) /\ reads'[t][4] = "findings"
            /\ 5 \in 1..Len(reads'[t]) /\ reads'[t][5] = "findingHistory"
            /\ 6 \in 1..Len(reads'[t]) /\ reads'[t][6] = "requests"
        BY <4>3
      <4>5. SeenAsIs(t)'
        BY <4>4 DEF SeenAsIs, Unread
      <4>q. QED BY <4>1, <4>3, <4>5
    <3>q. QED BY <3>3, <3>4
  <2>4. CASE ~CommitTransition(t) /\ status # "finalized"
    <3>1. status' = status
      BY <1>1, <2>4, StatusStep
    <3>2. seal = None /\ \A u \in Thread : ~Sealing(u)
      BY <2>2, <2>4 DEF SealedContent
    <3>3. seal' = None
      BY <1>1, <3>2, SealStep DEF CommitSeal, Sealing
    <3>4. \A u \in Thread : ~Sealing(u)'
      <4>1. ASSUME NEW u \in Thread, u # t PROVE ~Sealing(u)'
        BY <1>1, <3>2, <4>1, OthersStay DEF TypeOK, Sealing
      <4>2. ~Sealing(t)'
        BY <1>1, <2>4, <3>2, SealingBegins DEF TypeOK
      <4>q. QED BY <4>1, <4>2
    <3>q. QED BY <3>3, <3>4
  <2>5. CASE ~CommitTransition(t) /\ status = "finalized"
    <3>1. UNCHANGED record
      BY <1>1, <2>1, <2>5, FinalizedFrozen
    <3>2. SealPayload(View)' = SealPayload(View)
      BY <3>1 DEF record, SealPayload, View
    <3>3. seal' # None => seal' = SealPayload(View)'
      <4>1. CASE CommitSeal(t)
        <5>1. SeenAsIs(t) /\ reads[t] = <<>>
          BY <2>2, <4>1 DEF SealedContent, CommitSeal, Sealing
        <5>2. SealPayload(seen[t]) = SealPayload(View)
          BY <5>1 DEF SeenAsIs, Unread, SealPayload, View
        <5>q. QED BY <3>2, <4>1, <5>2 DEF CommitSeal
      <4>2. CASE ~CommitSeal(t)
        BY <1>1, <2>2, <3>2, <4>2, SealStep DEF SealedContent
      <4>q. QED BY <4>1, <4>2
    <3>4. ASSUME NEW u \in Thread, Sealing(u)', u # t
          PROVE  SeenAsIs(u)' /\ (pc'[u] = "commit_seal" => reads'[u] = <<>>)
      <4>1. /\ pc'[u] = pc[u] /\ seen'[u] = seen[u] /\ reads'[u] = reads[u]
        BY <1>1, <3>4, OthersStay DEF TypeOK
      <4>2. SeenAsIs(u) /\ (pc[u] = "commit_seal" => reads[u] = <<>>)
        BY <2>2, <3>4, <4>1 DEF SealedContent, Sealing
      <4>q. QED BY <3>1, <4>1, <4>2 DEF SeenAsIs, Unread, record
    <3>5. ASSUME Sealing(t)'
          PROVE  SeenAsIs(t)' /\ (pc'[t] = "commit_seal" => reads'[t] = <<>>)
      <4>1. Sealing(t) /\ (LoadSeal(t) \/ ReadTable(t))
        BY <1>1, <2>5, <3>5, SealingBegins DEF TypeOK
      <4>2. SeenAsIs(t) /\ (pc[t] = "commit_seal" => reads[t] = <<>>)
        BY <2>2, <4>1 DEF SealedContent
      <4>3. CASE ReadTable(t)
        BY <4>2, <4>3, ReadTableSees DEF ReadTable
      <4>4. CASE LoadSeal(t)
        <5>1. ~Return(t)
          BY <3>5 DEF Return, Goto, Sealing, TypeOK, CallsType
        <5>2. reads[t] = <<>> /\ reads'[t] = reads[t] /\ seen'[t] = seen[t]
          BY <4>4, <5>1 DEF LoadSeal
        <5>q. QED BY <3>1, <4>2, <5>2 DEF SeenAsIs, Unread, record
      <4>q. QED BY <4>1, <4>3, <4>4
    <3>6. status' = "finalized"
      BY <2>5, <3>1 DEF record
    <3>q. QED BY <3>3, <3>4, <3>5, <3>6
  <2>q. QED BY <2>3, <2>4, <2>5
<1>2. CASE Restart
  <2>1. UNCHANGED <<record, seal, late>> /\ \A u \in Thread : ~Sealing(u)'
    BY <1>2 DEF Restart, Sealing
  <2>2. SealPayload(View)' = SealPayload(View)
    BY <2>1 DEF record, SealPayload, View
  <2>q. QED BY <2>1, <2>2 DEF SealedContent, Untouched, record
<1>3. CASE UNCHANGED vars
  <2>1. UNCHANGED <<status, seal, late, pc, reads, seen, history, links, findings,
                    findingHistory, requests>>
    BY <1>3 DEF vars, store, record, locals, bookkeeping, cuts
  <2>2. SealPayload(View)' = SealPayload(View)
    BY <2>1 DEF SealPayload, View
  <2>q. QED BY <2>1, <2>2 DEF SealedContent, Untouched, Sealing, SeenAsIs, Unread
<1>f. ASSUME NEW t \in Thread, Fail(t) PROVE Goal
  <2>1. UNCHANGED <<record, seal, late>>
    BY <1>f, FailStep DEF store
  <2>2. SealPayload(View)' = SealPayload(View)
    BY <2>1 DEF record, SealPayload, View
  <2>3. ASSUME NEW u \in Thread, Sealing(u)'
        PROVE  /\ pc'[u] = pc[u] /\ seen'[u] = seen[u] /\ reads'[u] = reads[u]
               /\ Sealing(u)
    BY <1>f, <2>3, FailStep DEF Sealing
  <2>4. ASSUME NEW u \in Thread, Sealing(u)'
        PROVE  /\ status' = "finalized" /\ SeenAsIs(u)'
               /\ pc'[u] = "commit_seal" => reads'[u] = <<>>
    <3>1. /\ status = "finalized" /\ SeenAsIs(u)
          /\ pc[u] = "commit_seal" => reads[u] = <<>>
      BY <2>1, <2>3, <2>4 DEF SealedContent, Untouched
    <3>q. QED BY <2>1, <2>3, <2>4, <3>1 DEF SeenAsIs, Unread, record
  <2>q. QED BY <2>1, <2>2, <2>4 DEF SealedContent, Untouched, record
<1>q. QED BY <1>f, <1>1, <1>2, <1>3 DEF Next, AwaitRequest

(* As long as one person at a time moves the assessment, a seal that does  *)
(* not verify is explained by a write that landed after finalization: the  *)
(* six separate reads of _seal are otherwise one snapshot.                 *)
THEOREM AlteredOnlyByLateWriteTheorem ==
  ASSUME OneLead
  PROVE  Spec => []AlteredOnlyByLateWrite
<1>1. Init => SealedContent
  BY DEF Init, SealedContent, Sealing
<1>2. TypeOK /\ LeadInv /\ SealedContent /\ [Next]_vars => SealedContent'
  BY SealedContentStep
<1>3. TypeOK /\ SealedContent => AlteredOnlyByLateWrite
  BY DEF SealedContent, Untouched, AlteredOnlyByLateWrite, Verification, TypeOK, CountsType
<1>q. QED BY <1>1, <1>2, <1>3, TypeCorrect, LeadCorrect, PTL DEF Spec

-----------------------------------------------------------------------------
(* What the mapping engine proposed.                                       *)

(* A row's original proposal is kept, or set once to the practice the row  *)
(* had before its first correction.                                        *)
Kept(old, new) ==
  IF old.original # None THEN new.original = old.original
  ELSE /\ new.original \in {None, old.practice}
       /\ new.practice # old.practice => new.original = old.practice

KeptFrom(rows, rows1) == \A i \in DOMAIN rows : Kept(rows[i], rows1[i])

(* The row a review is about to write has kept what the review loaded.     *)
ReviewSeen ==
  \A t \in Thread :
    call[t].kind = "review" /\ pc[t] = "commit" =>
      Kept(seen[t].links[call[t].link], links[call[t].link])

LEMMA KeptTransitive ==
  ASSUME NEW a \in Link, NEW b \in Link, NEW c \in Link, Kept(a, b), Kept(b, c)
  PROVE  Kept(a, c)
  BY NoneAssumption DEF Kept, Link

LEMMA FlushLinkKeeps ==
  ASSUME NEW row \in Link, NEW loaded \in Link, NEW c \in ReviewCall, Kept(loaded, row)
  PROVE  Kept(row, FlushLink(row, loaded, Reviewed(loaded, c)))
<1>1. CASE c.decision = "edited"
  BY <1>1, NoneAssumption DEF Kept, FlushLink, Flush, Reviewed, Link
<1>2. CASE c.decision # "edited"
  BY <1>2 DEF Kept, FlushLink, Flush, Reviewed, Link
<1>q. QED BY <1>1, <1>2

LEMMA LinksKept ==
  ASSUME TypeOK, ReviewTarget, ReviewSeen, NEW t \in Thread, Begin(t) \/ Proceed(t)
  PROVE  KeptFrom(links, links')
<1>0. \A i \in DOMAIN links : links[i] \in Link
  BY ElementOfSeq, LenProperties DEF TypeOK, RecordType
<1>1. CASE links' = links
  BY <1>0, <1>1 DEF KeptFrom, Kept
<1>2. CASE CommitLink(t) \/ CommitProposal(t)
  <2>1. PICK row : links' = Append(links, row)
    BY <1>2 DEF CommitLink, CommitProposal
  <2>2. \A i \in DOMAIN links : links'[i] = links[i]
    BY <2>1, LenProperties DEF TypeOK, RecordType
  <2>q. QED BY <2>2 DEF KeptFrom, Kept
<1>3. CASE CommitReview(t)
  <2> DEFINE i == call[t].link
             row == FlushLink(links[i], seen[t].links[i],
                              Reviewed(seen[t].links[i], call[t]))
  <2>1. call[t] \in ReviewCall /\ i \in DOMAIN links /\ i \in DOMAIN seen[t].links
    BY <1>3, CallShape DEF CommitReview, Commits, ReviewTarget, TypeOK, CallsType
  <2>2. links[i] \in Link /\ seen[t].links[i] \in Link
    BY <1>0, <2>1, ElementOfSeq, LenProperties DEF TypeOK, CallsType, Views
  <2>3. Kept(seen[t].links[i], links[i])
    BY <1>3 DEF CommitReview, Commits, ReviewSeen
  <2>4. Kept(links[i], row)
    BY <2>1, <2>2, <2>3, FlushLinkKeeps
  <2>5. links' = [links EXCEPT ![i] = row]
    BY <1>3 DEF CommitReview
  <2> HIDE DEF row
  <2>6. \A j \in DOMAIN links : links'[j] = IF j = i THEN row ELSE links[j]
    BY <2>5
  <2>q. QED BY <2>4, <2>6 DEF KeptFrom, Kept
<1>4. CASE CommitBulkReject(t)
  <2>1. ASSUME NEW i \in DOMAIN links
        PROVE  /\ links'[i].original = links[i].original
               /\ links'[i].practice = links[i].practice
    BY <1>0, <1>4 DEF CommitBulkReject, Link
  <2>q. QED BY <2>1 DEF KeptFrom, Kept
<1>5. CASE Begin(t)
  BY <1>1, <1>5 DEF Begin, BeginTransition, BeginLink, BeginPropose, BeginReview,
     BeginBulkReject, BeginFinding, BeginRequest, BeginResolve, BeginAttach,
     BeginDetach, Start, store, record
<1>q. QED
  BY <1>1, <1>2, <1>3, <1>4, <1>5 DEF Proceed, ReadTable, Decide, FindCandidates,
     Load, LoadAttach, LoadSeal, CommitTransition, CommitFinding, CommitRequest,
     CommitResolve, CommitAttach, CommitDetach, CommitSeal, store, record

LEMMA ReviewSeenStep ==
  ASSUME TypeOK, ReviewTarget, ReviewSeen, NEW t \in Thread, Begin(t) \/ Proceed(t)
  PROVE  ReviewSeen'
<1> SUFFICES ASSUME NEW u \in Thread, call'[u].kind = "review", pc'[u] = "commit"
             PROVE  Kept(seen'[u].links[call'[u].link], links'[call'[u].link])
  BY DEF ReviewSeen
<1>1. ReviewTarget' /\ TypeOK'
  BY ReviewTargetStep, BeginType, ProceedType
<1>2. KeptFrom(links, links')
  BY LinksKept
<1>3. CASE u # t
  <2> DEFINE i == call[u].link
  <2>1. pc'[u] = pc[u] /\ call'[u] = call[u] /\ seen'[u] = seen[u]
    BY <1>3, OthersStay DEF TypeOK
  <2>2. /\ i \in DOMAIN links /\ i \in DOMAIN seen[u].links /\ i \in DOMAIN links'
        /\ Kept(seen[u].links[i], links[i])
    BY <1>1, <2>1 DEF ReviewTarget, ReviewSeen
  <2>3. links[i] \in Link /\ seen[u].links[i] \in Link /\ links'[i] \in Link
    BY <1>1, <2>2, ElementOfSeq, LenProperties DEF TypeOK, RecordType, CallsType, Views
  <2>4. Kept(links[i], links'[i])
    BY <1>2, <2>2 DEF KeptFrom
  <2>q. QED BY <2>1, <2>2, <2>3, <2>4, KeptTransitive
<1>4. CASE u = t
  <2> USE DEF TypeOK, CallsType
  <2>1. ~Begin(t)
    BY <1>4 DEF Begin, BeginTransition, BeginLink, BeginPropose, BeginReview,
       BeginBulkReject, BeginFinding, BeginRequest, BeginResolve, BeginAttach,
       BeginDetach, Start, Goto
  <2>2. ~Return(t)
    BY <1>4 DEF Return, Goto
  <2>3. CASE Load(t)
    <3>1. /\ call'[t] = call[t] /\ links' = links
          /\ seen'[t] = Refreshed(seen[t], RowTable(call[t].kind))
      BY <2>2, <2>3 DEF Load, store, record
    <3>2. seen'[t].links = links
      BY <1>4, <3>1 DEF RowTable, Refreshed, View, Views
    <3>q. QED BY <1>4, <3>1, <3>2 DEF Kept
  <2>4. CASE ReadTable(t)
    <3>1. Head(reads[t]) \in Table
      BY <2>4, HeadTailProperties DEF ReadTable
    <3>2. /\ call'[t] = call[t] /\ pc'[t] = pc[t] /\ links' = links
          /\ seen'[t] = Refreshed(seen[t], Head(reads[t]))
      BY <2>4 DEF ReadTable, store, record
    <3>3. seen'[t].links \in {links, seen[t].links}
      BY <3>1, <3>2 DEF Table, Refreshed, View, Views
    <3>q. QED BY <1>4, <3>2, <3>3 DEF ReviewSeen, Kept
  <2>q. QED
    BY <1>4, <2>1, <2>2, <2>3, <2>4 DEF Proceed, Decide, FindCandidates,
       CommitTransition, CommitLink, CommitProposal, CommitReview, CommitBulkReject,
       CommitFinding, CommitRequest, CommitResolve, LoadAttach, CommitAttach,
       CommitDetach, LoadSeal, CommitSeal, Goto
<1>q. QED BY <1>3, <1>4

LEMMA ReviewSeenNext ==
  ASSUME TypeOK, ReviewTarget, ReviewSeen, [Next]_vars
  PROVE  ReviewSeen' /\ (links' # links => KeptFrom(links, links'))
<1>1. ASSUME NEW t \in Thread, Begin(t) \/ Proceed(t)
      PROVE  ReviewSeen' /\ KeptFrom(links, links')
  BY <1>1, ReviewSeenStep, LinksKept
<1>2. CASE Restart
  BY <1>2 DEF Restart, ReviewSeen, record
<1>3. CASE UNCHANGED vars
  BY <1>3 DEF vars, store, record, locals, ReviewSeen
<1>f. ASSUME NEW t \in Thread, Fail(t) PROVE ReviewSeen' /\ links' = links
  BY <1>f, FailStep DEF ReviewSeen, NoCall, store, record
<1>q. QED BY <1>f, <1>1, <1>2, <1>3 DEF Next, AwaitRequest

(* Whatever the threads do, and however their reviews of one link          *)
(* interleave, the practice the mapping engine proposed is kept as the     *)
(* link's original from its first correction on.                           *)
THEOREM ProposalIsKeptTheorem == Spec => ProposalIsKept
<1>1. Init => ReviewSeen
  BY DEF Init, ReviewSeen
<1>2. TypeOK /\ ReviewTarget /\ ReviewSeen /\ [Next]_vars
      => ReviewSeen' /\ [KeptFrom(links, links')]_links
  BY ReviewSeenNext
<1>3. [KeptFrom(links, links')]_links =>
      [\A i \in DOMAIN links :
         LET old == links[i]
             new == links'[i]
         IN  IF old.original # None THEN new.original = old.original
             ELSE /\ new.original \in {None, old.practice}
                  /\ new.practice # old.practice => new.original = old.practice]_links
  BY DEF KeptFrom, Kept
<1>q. QED BY <1>1, <1>2, <1>3, TypeCorrect, PTL DEF Spec, ProposalIsKept

-----------------------------------------------------------------------------
(* One caller: calls follow each other.                                    *)

OneCaller == \A t, u \in Thread : t = u

(* What a call that is still deciding has read is what is stored.          *)
SeenToDecide(t) ==
  /\ call[t].kind = "transition" =>
       /\ Unread(t, "links") \/ seen[t].links = links
       /\ Unread(t, "requests") \/ seen[t].requests = requests
       /\ Unread(t, "findings") \/ seen[t].findings = findings
  /\ call[t].kind = "detach" => Unread(t, "links") \/ seen[t].links = links
  /\ call[t].kind = "propose" => Unread(t, "attached") \/ seen[t].attached = attached

(* What was decided still holds when it is written.                        *)
DecidedHolds(t) ==
  /\ call[t].kind = "transition" /\ call[t].to = "finalized" => Ready(View)
  /\ call[t].kind = "detach" => call[t].doc \notin Cited
  /\ call[t].kind = "propose" => \A c \in todo[t] : attached[c.doc] # 0

SoloCall(t) ==
  /\ pc[t] = "lookup"    => call[t].kind \in {"review", "resolve", "detach"}
  /\ pc[t] = "readiness" => call[t].kind = "transition"
  /\ pc[t] = "survey"    => call[t].kind = "propose"
  /\ pc[t] \in {"lookup", "readiness", "survey"} => SeenToDecide(t)
  /\ pc[t] \in {"load", "commit"} => DecidedHolds(t)
  /\ AtCommit(t) \/ Attaching(t) => status # "finalized"

Awaited == {call[t].doc : t \in {u \in Thread : Attaching(u)}}

SoloInv ==
  /\ FinalizedIsComplete
  /\ \A d \in Cited : attached[d] # 0 \/ d \in Awaited \/ d \in unattached
  /\ \A t \in Thread : SoloCall(t)

(* Readiness depends on three tables only.                                 *)
LEMMA ReadyReads ==
  ASSUME NEW v, NEW w,
         v.links = w.links, v.requests = w.requests, v.findings = w.findings
  PROVE  Ready(v) = Ready(w)
BY DEF Ready

LEMMA ReadyStays ==
  ASSUME UNCHANGED <<links, requests, findings>>
  PROVE  Ready(View)' = Ready(View)
BY DEF Ready, View

(* Nothing of the record and no attachment is written.                     *)
LEMMA SoloUnwritten ==
  ASSUME OneCaller, SoloInv, UNCHANGED unattached, NEW t \in Thread, UNCHANGED <<record, attached>>,
         \/ ~Attaching(t)
         \/ Attaching(t)' /\ call'[t].doc = call[t].doc
         \/ attached[call[t].doc] # 0,
         SoloCall(t)'
  PROVE  SoloInv'
<1>1. FinalizedIsComplete'
  BY ReadyStays DEF SoloInv, FinalizedIsComplete, record
<1>2. Cited' = Cited
  BY DEF Cited, record
<1>3. ASSUME NEW d \in Cited, attached[d] = 0, d \notin unattached
      PROVE  d \in Awaited'
  <2>1. PICK u \in Thread : Attaching(u) /\ d = call[u].doc
    BY <1>3 DEF SoloInv, Awaited
  <2>2. u = t
    BY DEF OneCaller
  <2>3. Attaching(t)' /\ call'[t].doc = d
    BY <1>3, <2>1, <2>2
  <2>q. QED BY <2>3 DEF Awaited
<1>4. \A u \in Thread : SoloCall(u)'
  BY DEF OneCaller
<1>q. QED BY <1>1, <1>2, <1>3, <1>4 DEF SoloInv

LEMMA SoloBegin ==
  ASSUME OneCaller, TypeOK, SoloInv, UNCHANGED unattached, NEW t \in Thread, Begin(t)
  PROVE  SoloInv'
<1>1. UNCHANGED <<record, attached>> /\ pc[t] = "idle"
  BY DEF Begin, BeginTransition, BeginLink, BeginPropose,
     BeginReview, BeginBulkReject, BeginFinding, BeginRequest, BeginResolve,
     BeginAttach, BeginDetach, Start, store
<1> USE DEF TypeOK, CallsType, Start, Goto, AtCommit
<1>2. CASE BeginTransition(t)
  <2>1. PICK to \in Allowed[status] :
          /\ call'[t] = [kind |-> "transition", to |-> to]
          /\ \/ to # "finalized" /\ pc'[t] = "load"
             \/ pc'[t] = "readiness" /\ reads'[t] = <<"links", "requests", "findings">>
    BY <1>2 DEF BeginTransition
  <2>2. CASE pc'[t] = "readiness"
    <3>1. reads'[t] = <<"links", "requests", "findings">>
      BY <2>1, <2>2
    <3>2. /\ 1 \in 1..Len(reads'[t]) /\ reads'[t][1] = "links"
          /\ 2 \in 1..Len(reads'[t]) /\ reads'[t][2] = "requests"
          /\ 3 \in 1..Len(reads'[t]) /\ reads'[t][3] = "findings"
      BY <3>1
    <3>3. SeenToDecide(t)'
      <4>1. Unread(t, "links")' /\ Unread(t, "requests")' /\ Unread(t, "findings")'
        BY <3>2 DEF Unread
      <4>q. QED BY <2>1, <4>1 DEF SeenToDecide
    <3>4. SoloCall(t)'
      BY <2>1, <2>2, <3>3 DEF SoloCall, Attaching
    <3>q. QED BY <1>1, <3>4, SoloUnwritten DEF Attaching
  <2>3. CASE pc'[t] = "load"
    BY <1>1, <2>1, <2>3, SoloUnwritten DEF SoloCall, Attaching, DecidedHolds
  <2>q. QED BY <2>1, <2>2, <2>3
<1>3. CASE BeginPropose(t)
  <2>1. /\ call'[t].kind = "propose" /\ pc'[t] = "survey"
        /\ 2 \in 1..Len(reads'[t]) /\ reads'[t][2] = "attached"
    BY <1>3 DEF BeginPropose
  <2>2. SeenToDecide(t)'
    BY <2>1 DEF SeenToDecide, Unread
  <2>q. QED BY <1>1, <2>1, <2>2, SoloUnwritten DEF SoloCall, Attaching
<1>4. CASE BeginDetach(t)
  <2>1. /\ call'[t].kind = "detach" /\ pc'[t] = "lookup"
        /\ 1 \in 1..Len(reads'[t]) /\ reads'[t][1] = "links"
    BY <1>4 DEF BeginDetach
  <2>2. SeenToDecide(t)'
    BY <2>1 DEF SeenToDecide, Unread
  <2>q. QED BY <1>1, <2>1, <2>2, SoloUnwritten DEF SoloCall, Attaching
<1>5. CASE BeginReview(t) \/ BeginResolve(t)
  <2>1. call'[t].kind \in {"review", "resolve"} /\ pc'[t] = "lookup"
    BY <1>5 DEF BeginReview, BeginResolve
  <2>q. QED BY <1>1, <2>1, SoloUnwritten DEF SoloCall, Attaching, SeenToDecide
<1>6. CASE \/ BeginLink(t) \/ BeginBulkReject(t) \/ BeginFinding(t)
           \/ BeginRequest(t) \/ BeginAttach(t)
  <2>1. /\ call'[t].kind \in {"link", "bulk_reject", "finding", "request", "attach"}
        /\ \/ pc'[t] = "load"
           \/ pc'[t] = "load_attach" /\ call'[t].kind = "attach"
    BY <1>6 DEF BeginLink, BeginBulkReject, BeginFinding, BeginRequest, BeginAttach,
       LinkCall, FindingCall
  <2>q. QED BY <1>1, <2>1, SoloUnwritten DEF SoloCall, Attaching, DecidedHolds
<1>q. QED BY <1>2, <1>3, <1>4, <1>5, <1>6 DEF Begin

(* A thread that returns leaves no obligation of its call behind.          *)
LEMMA SoloIdle ==
  ASSUME TypeOK, NEW t \in Thread, Return(t)
  PROVE  SoloCall(t)' /\ ~Attaching(t)'
BY DEF Return, Goto, SoloCall, Attaching, AtCommit, TypeOK, CallsType, NoCall

LEMMA SoloRead ==
  ASSUME OneCaller, TypeOK, SoloInv, UNCHANGED unattached, NEW t \in Thread, ReadTable(t)
  PROVE  SoloInv'
<1> DEFINE h == Head(reads[t])
<1> USE DEF TypeOK, CallsType, AtCommit
<1>1. reads[t] \in Seq(Table) /\ reads[t] # <<>>
  BY DEF ReadTable
<1>2. h \in Table /\ seen[t] \in Views
  BY <1>1, HeadTailProperties
<1>3. /\ reads'[t] = Tail(reads[t]) /\ seen'[t] = Refreshed(seen[t], h)
      /\ UNCHANGED <<pc, call, todo>> /\ UNCHANGED <<record, attached>>
  BY DEF ReadTable, store
<1>4. ASSUME NEW x, Unread(t, x) PROVE x = h \/ Unread(t, x)'
  <2>1. PICK i \in 1..Len(reads[t]) : reads[t][i] = x
    BY <1>4 DEF Unread
  <2>2. CASE i = 1
    BY <1>1, <2>1, <2>2, HeadTailProperties
  <2>3. CASE i # 1
    <3>1. /\ i - 1 \in 1..Len(Tail(reads[t])) /\ Tail(reads[t])[i - 1] = reads[t][i]
      BY <1>1, <2>1, <2>3, HeadTailProperties
    <3>q. QED BY <1>3, <2>1, <3>1 DEF Unread
  <2>q. QED BY <2>2, <2>3
<1>5. /\ seen'[t].links = IF h = "links" THEN links ELSE seen[t].links
      /\ seen'[t].requests = IF h = "requests" THEN requests ELSE seen[t].requests
  BY <1>2, <1>3 DEF Refreshed, View, Views, Table
<1>6. /\ seen'[t].findings = IF h = "findings" THEN findings ELSE seen[t].findings
      /\ seen'[t].attached = IF h = "attached" THEN attached ELSE seen[t].attached
  BY <1>2, <1>3 DEF Refreshed, View, Views, Table
<1> HIDE DEF h
<1>7. SeenToDecide(t) => SeenToDecide(t)'
  BY <1>3, <1>4, <1>5, <1>6 DEF SeenToDecide, record
<1>8. DecidedHolds(t) => DecidedHolds(t)'
  <2>1. Ready(View)' = Ready(View) /\ Cited' = Cited
    BY <1>3, ReadyStays DEF Cited, record
  <2>q. QED BY <1>3, <2>1 DEF DecidedHolds
<1>9. SoloCall(t)'
  BY <1>3, <1>7, <1>8 DEF SoloInv, SoloCall, Attaching, record
<1>q. QED BY <1>3, <1>9, SoloUnwritten DEF Attaching

LEMMA SoloDecide ==
  ASSUME OneCaller, TypeOK, LeadInv, SoloInv, UNCHANGED unattached, NEW t \in Thread,
         Decide(t) \/ FindCandidates(t)
  PROVE  SoloInv'
<1> USE DEF TypeOK, CallsType, AtCommit
<1>1. /\ UNCHANGED <<record, attached>> /\ ~Attaching(t) /\ reads[t] = <<>>
      /\ pc[t] \in {"lookup", "readiness", "survey"}
  BY DEF Decide, FindCandidates, store, Attaching
<1>2. SeenToDecide(t) /\ \A x : ~Unread(t, x)
  BY <1>1 DEF SoloInv, SoloCall, Unread
<1>3. CASE Return(t)
  BY <1>1, <1>3, SoloIdle, SoloUnwritten
<1>4. CASE Decide(t) /\ ~Return(t)
  <2>1. /\ Approved(call[t], seen[t]) /\ pc[t] \in {"lookup", "readiness"}
        /\ pc'[t] = "load" /\ UNCHANGED <<call, todo>>
    BY <1>4 DEF Decide, Goto
  <2>2. call[t].kind # "propose"
    BY <2>1 DEF SoloInv, SoloCall
  <2>3. call[t].kind = "transition" => Ready(View)'
    <3>1. call[t].kind = "transition" => Ready(seen[t])
      BY <2>1 DEF Approved
    <3>2. call[t].kind = "transition" =>
            /\ seen[t].links = View.links /\ seen[t].requests = View.requests
            /\ seen[t].findings = View.findings
      BY <1>2 DEF SeenToDecide, View
    <3>3. Ready(View)' = Ready(View)
      BY <1>1, ReadyStays DEF record
    <3>q. QED BY <3>1, <3>2, <3>3, ReadyReads
  <2>4. call[t].kind = "detach" => call[t].doc \notin Cited'
    BY <1>1, <1>2, <2>1 DEF Approved, SeenToDecide, Cited, record
  <2>5. SoloCall(t)'
    BY <2>1, <2>2, <2>3, <2>4 DEF SoloCall, DecidedHolds, Attaching
  <2>q. QED BY <1>1, <2>5, SoloUnwritten
<1>5. CASE FindCandidates(t) /\ ~Return(t)
  <2>1. PICK s \in Candidates(seen[t]) :
          /\ todo'[t] = s /\ pc'[t] = "load" /\ call' = call
    BY <1>5 DEF FindCandidates, Goto
  <2>2. call[t].kind = "propose"
    BY <1>5 DEF SoloInv, SoloCall, FindCandidates
  <2>3. \A c \in s : attached[c.doc] # 0
    BY <1>2, <2>1, <2>2 DEF Candidates, SeenToDecide
  <2>4. SoloCall(t)'
    BY <1>1, <2>1, <2>2, <2>3 DEF SoloCall, DecidedHolds, Attaching
  <2>q. QED BY <1>1, <2>4, SoloUnwritten
<1>q. QED BY <1>3, <1>4, <1>5
LEMMA SoloLoad ==
  ASSUME OneCaller, TypeOK, LeadInv, SoloInv, UNCHANGED unattached, NEW t \in Thread,
         \/ Load(t) \/ LoadAttach(t) \/ LoadSeal(t) \/ CommitSeal(t)
  PROVE  SoloInv'
<1> USE DEF TypeOK, CallsType, AtCommit
<1>1. UNCHANGED <<record, attached>>
  BY DEF Load, LoadAttach, LoadSeal, CommitSeal, store
<1>2. CASE Load(t)
  <2>1. CASE Return(t)
    BY <1>1, <1>2, <2>1, SoloIdle, SoloUnwritten DEF Load, Attaching
  <2>2. CASE ~Return(t)
    <3>1. /\ AssertWritable(t) /\ pc[t] = "load" /\ pc'[t] = "commit"
          /\ UNCHANGED <<call, todo>>
      BY <1>2, <2>2 DEF Load, Goto
    <3>2. status # "finalized"
      BY <3>1, AllowedMoves DEF AssertWritable, LeadInv, RecordType
    <3>3. DecidedHolds(t)'
      <4>1. Ready(View)' = Ready(View) /\ Cited' = Cited
        BY <1>1, ReadyStays DEF Cited, record
      <4>2. DecidedHolds(t)
        BY <3>1 DEF SoloInv, SoloCall
      <4>q. QED BY <1>1, <3>1, <4>1, <4>2 DEF DecidedHolds
    <3>4. SoloCall(t)'
      BY <1>1, <3>1, <3>2, <3>3 DEF SoloCall, record
    <3>q. QED BY <1>1, <3>1, <3>4, SoloUnwritten DEF Attaching
  <2>q. QED BY <2>1, <2>2
<1>3. CASE LoadAttach(t)
  <2>1. pc[t] = "load_attach" /\ (Attaching(t) => status # "finalized")
    BY <1>3 DEF LoadAttach, SoloInv, SoloCall
  <2>2. CASE Return(t)
    <3>1. ~Attaching(t) \/ attached[call[t].doc] # 0
      BY <1>3, <2>1, <2>2 DEF LoadAttach, AssertWritable, Return, Goto
    <3>q. QED BY <1>1, <2>2, <3>1, SoloIdle, SoloUnwritten
  <2>3. CASE ~Return(t)
    <3>1. pc'[t] = "commit_attach" /\ call' = call /\ AssertWritable(t)
      BY <1>3, <2>3 DEF LoadAttach, Goto
    <3>2. status # "finalized"
      BY <2>1, <3>1 DEF AssertWritable, LeadInv, TransitionStep
    <3>3. SoloCall(t)' /\ (Attaching(t) => Attaching(t)')
      BY <1>1, <2>1, <3>1, <3>2 DEF SoloCall, Attaching, record
    <3>q. QED BY <1>1, <3>1, <3>3, SoloUnwritten
  <2>q. QED BY <2>2, <2>3
<1>4. CASE LoadSeal(t) \/ CommitSeal(t)
  <2>1. ~Attaching(t)
    BY <1>4 DEF LoadSeal, CommitSeal, Attaching
  <2>2. CASE Return(t)
    BY <1>1, <2>1, <2>2, SoloIdle, SoloUnwritten
  <2>3. CASE ~Return(t)
    <3>1. pc'[t] = "commit_seal"
      BY <1>4, <2>3 DEF LoadSeal, CommitSeal, Goto
    <3>2. SoloCall(t)'
      BY <3>1 DEF SoloCall, Attaching
    <3>q. QED BY <1>1, <2>1, <3>2, SoloUnwritten
  <2>q. QED BY <2>2, <2>3
<1>q. QED BY <1>2, <1>3, <1>4

(* What is left to show of a step that writes.                             *)
LEMMA SoloWritten ==
  ASSUME OneCaller, UNCHANGED unattached, NEW t \in Thread, FinalizedIsComplete', SoloCall(t)',
         \A d \in Cited' : attached'[d] # 0 \/ d \in unattached
                             \/ (Attaching(t)' /\ call'[t].doc = d)
  PROVE  SoloInv'
BY DEF OneCaller, SoloInv, Awaited

LEMMA SoloCommitTransition ==
  ASSUME OneCaller, TypeOK, LeadInv, SoloInv, UNCHANGED unattached, NEW t \in Thread, CommitTransition(t)
  PROVE  SoloInv'
<1> USE DEF TypeOK, CallsType, AtCommit
<1>1. /\ pc[t] = "commit" /\ call[t].kind = "transition" /\ ~Attaching(t)
      /\ UNCHANGED <<links, requests, findings, attached>>
      /\ status' = call[t].to
  BY CommitTransitionLead DEF CommitTransition, Commits, Attaching
<1>2. FinalizedIsComplete'
  BY <1>1, ReadyStays DEF FinalizedIsComplete, SoloInv, SoloCall, DecidedHolds
<1>3. SoloCall(t)'
  <2>1. CASE Return(t)
    BY <2>1, SoloIdle
  <2>2. CASE ~Return(t)
    BY <2>2 DEF CommitTransition, Goto, SoloCall, Attaching
  <2>q. QED BY <2>1, <2>2
<1>4. ASSUME NEW d \in Cited' PROVE attached'[d] # 0 \/ d \in unattached
  <2>1. d \notin Awaited
    BY <1>1 DEF Awaited, OneCaller
  <2>q. QED BY <1>1, <2>1 DEF SoloInv, Cited
<1>q. QED BY <1>2, <1>3, <1>4, SoloWritten

(* A stored link is in the tables from then on, and the others stay.       *)
LEMMA CitedGrows ==
  ASSUME TypeOK, NEW row \in Link, links' = Append(links, row)
  PROVE  Cited' = Cited \cup {row.doc}
<1>1. links \in Seq(Link) /\ links' \in Seq(Link)
  BY AppendProperties DEF TypeOK, RecordType
<1>2. /\ DOMAIN links = 1..Len(links) /\ Len(links) \in Nat
      /\ DOMAIN links' = 1..(Len(links) + 1)
      /\ links'[Len(links) + 1] = row
      /\ \A i \in 1..Len(links) : links'[i] = links[i]
  BY <1>1, LenProperties, AppendProperties
<1>q. QED BY <1>2 DEF Cited

LEMMA SoloCommitLink ==
  ASSUME OneCaller, TypeOK, SoloInv, UNCHANGED unattached, NEW t \in Thread, CommitLink(t)
  PROVE  SoloInv'
<1> USE DEF TypeOK, CallsType, AtCommit
<1>1. /\ pc[t] = "commit" /\ call[t].kind = "link" /\ ~Attaching(t)
      /\ pc'[t] = "load_attach" /\ UNCHANGED <<status, attached, call>>
  BY DEF CommitLink, Commits, Attaching, Goto
<1>2. status # "finalized"
  BY <1>1 DEF SoloInv, SoloCall
<1>3. Cited' = Cited \cup {call[t].doc}
  <2>1. call[t] \in LinkCall
    BY <1>1, CallShape
  <2>2. NewLink(call[t].practice, call[t].doc, call[t].source) \in Link
    BY <2>1, NewLinkType DEF LinkCall
  <2>3. NewLink(call[t].practice, call[t].doc, call[t].source).doc = call[t].doc
    BY DEF NewLink
  <2>q. QED BY <2>2, <2>3, CitedGrows DEF CommitLink
<1>4. FinalizedIsComplete'
  BY <1>1, <1>2 DEF FinalizedIsComplete
<1>5. SoloCall(t)' /\ Attaching(t)'
  BY <1>1, <1>2 DEF SoloCall, Attaching
<1>6. ASSUME NEW d \in Cited'
      PROVE  attached'[d] # 0 \/ d \in unattached \/ (Attaching(t)' /\ call'[t].doc = d)
  <2>1. d \notin Awaited
    BY <1>1 DEF Awaited, OneCaller
  <2>q. QED BY <1>1, <1>3, <1>5, <2>1 DEF SoloInv
<1>q. QED BY <1>4, <1>5, <1>6, SoloWritten

LEMMA SoloCommitProposal ==
  ASSUME OneCaller, TypeOK, SoloInv, UNCHANGED unattached, NEW t \in Thread, CommitProposal(t)
  PROVE  SoloInv'
<1> USE DEF TypeOK, CallsType, AtCommit
<1>1. /\ pc[t] = "commit" /\ call[t].kind = "propose" /\ ~Attaching(t)
      /\ UNCHANGED <<status, attached>>
  BY DEF CommitProposal, Commits, Attaching
<1>2. status # "finalized" /\ \A c \in todo[t] : attached[c.doc] # 0
  BY <1>1 DEF SoloInv, SoloCall, DecidedHolds
<1>3. PICK c \in todo[t] :
        /\ links' = Append(links, NewLink(c.practice, c.doc, "ai_proposed"))
        /\ IF todo[t] = {c} THEN Return(t)
           ELSE /\ todo' = [todo EXCEPT ![t] = @ \ {c}]
                /\ Goto(t, "load") /\ UNCHANGED <<call, seen, reads>>
  BY DEF CommitProposal
<1>4. Cited' = Cited \cup {c.doc}
  <2>1. c.practice \in Practice /\ c.doc \in Doc
    BY <1>3
  <2>2. NewLink(c.practice, c.doc, "ai_proposed") \in Link
    BY <2>1, NewLinkType
  <2>3. NewLink(c.practice, c.doc, "ai_proposed").doc = c.doc
    BY DEF NewLink
  <2>q. QED BY <1>3, <2>2, <2>3, CitedGrows
<1>5. FinalizedIsComplete'
  BY <1>1, <1>2 DEF FinalizedIsComplete
<1>6. SoloCall(t)'
  <2>1. CASE Return(t)
    BY <2>1, SoloIdle
  <2>2. CASE ~Return(t)
    <3>1. pc'[t] = "load" /\ call'[t].kind = "propose" /\ todo'[t] \subseteq todo[t]
      BY <1>1, <1>3, <2>2 DEF Goto
    <3>q. QED BY <1>1, <1>2, <3>1 DEF SoloCall, DecidedHolds, Attaching
  <2>q. QED BY <2>1, <2>2
<1>7. ASSUME NEW d \in Cited' PROVE attached'[d] # 0 \/ d \in unattached
  <2>1. d \notin Awaited
    BY <1>1 DEF Awaited, OneCaller
  <2>q. QED BY <1>1, <1>2, <1>3, <1>4, <2>1 DEF SoloInv
<1>q. QED BY <1>5, <1>6, <1>7, SoloWritten

(* A review changes no link's document.                                    *)
LEMMA SoloCommitReview ==
  ASSUME OneCaller, TypeOK, SoloInv, UNCHANGED unattached, NEW t \in Thread,
         CommitReview(t) \/ CommitBulkReject(t)
  PROVE  SoloInv'
<1> USE DEF TypeOK, CallsType, AtCommit
<1>1. /\ pc[t] = "commit" /\ ~Attaching(t) /\ Return(t)
      /\ UNCHANGED <<status, attached>>
  BY DEF CommitReview, CommitBulkReject, Commits, Attaching
<1>2. status # "finalized"
  BY <1>1 DEF SoloInv, SoloCall
<1>3. DOMAIN links' = DOMAIN links
  BY DEF CommitReview, CommitBulkReject
<1>4. ASSUME NEW i \in DOMAIN links PROVE links'[i].doc = links[i].doc
  <2>1. links[i] \in Link
    BY ElementOfSeq, LenProperties DEF RecordType
  <2>2. CASE CommitReview(t)
    BY <2>1, <2>2 DEF CommitReview, FlushLink, Link
  <2>3. CASE CommitBulkReject(t)
    BY <2>1, <2>3 DEF CommitBulkReject, Link
  <2>q. QED BY <2>2, <2>3
<1>5. Cited' = Cited
  BY <1>3, <1>4 DEF Cited
<1>6. FinalizedIsComplete'
  BY <1>1, <1>2 DEF FinalizedIsComplete
<1>7. ASSUME NEW d \in Cited' PROVE attached'[d] # 0 \/ d \in unattached
  <2>1. d \notin Awaited
    BY <1>1 DEF Awaited, OneCaller
  <2>q. QED BY <1>1, <1>5, <2>1 DEF SoloInv
<1>q. QED BY <1>1, <1>6, <1>7, SoloIdle, SoloWritten

LEMMA SoloCommitOther ==
  ASSUME OneCaller, TypeOK, SoloInv, UNCHANGED unattached, NEW t \in Thread,
         \/ CommitFinding(t) \/ CommitRequest(t) \/ CommitResolve(t) \/ CommitDetach(t)
  PROVE  SoloInv'
<1> USE DEF TypeOK, CallsType, AtCommit
<1>1. /\ pc[t] = "commit" /\ ~Attaching(t) /\ Return(t)
      /\ UNCHANGED <<status, links>>
  BY DEF CommitFinding, CommitRequest, CommitResolve, CommitDetach, Commits, Attaching, record
<1>2. status # "finalized" /\ DecidedHolds(t)
  BY <1>1 DEF SoloInv, SoloCall
<1>3. FinalizedIsComplete'
  BY <1>1, <1>2 DEF FinalizedIsComplete
<1>4. Cited' = Cited /\ Cited \subseteq Doc
  <2>1. \A i \in DOMAIN links : links[i] \in Link
    BY ElementOfSeq, LenProperties DEF RecordType
  <2>q. QED BY <1>1, <2>1 DEF Cited, Link
<1>5. \A d \in Cited : attached'[d] = attached[d]
  <2>1. CASE CommitDetach(t)
    <3>1. call[t].doc \notin Cited
      BY <1>2, <2>1 DEF DecidedHolds, CommitDetach, Commits
    <3>q. QED BY <1>4, <2>1, <3>1 DEF CommitDetach, RecordType
  <2>2. CASE ~CommitDetach(t)
    BY <2>2 DEF CommitFinding, CommitRequest, CommitResolve
  <2>q. QED BY <2>1, <2>2
<1>6. ASSUME NEW d \in Cited' PROVE attached'[d] # 0 \/ d \in unattached
  <2>1. d \notin Awaited
    BY <1>1 DEF Awaited, OneCaller
  <2>q. QED BY <1>4, <1>5, <2>1 DEF SoloInv
<1>q. QED BY <1>1, <1>3, <1>6, SoloIdle, SoloWritten

LEMMA SoloCommitAttach ==
  ASSUME OneCaller, TypeOK, SoloInv, UNCHANGED unattached, NEW t \in Thread, CommitAttach(t)
  PROVE  SoloInv'
<1> USE DEF TypeOK, CallsType, AtCommit
<1>1. Return(t) /\ UNCHANGED record
  BY DEF CommitAttach
<1>2. FinalizedIsComplete'
  BY <1>1, ReadyStays DEF FinalizedIsComplete, SoloInv, record
<1>3. Cited' = Cited /\ Cited \subseteq Doc
  <2>1. \A i \in DOMAIN links : links[i] \in Link
    BY ElementOfSeq, LenProperties DEF RecordType
  <2>q. QED BY <1>1, <2>1 DEF Cited, Link, record
<1>4. ASSUME NEW d \in Cited' PROVE attached'[d] # 0 \/ d \in unattached
  <2>1. attached[d] # 0 => attached'[d] # 0
    BY <1>3 DEF CommitAttach, RecordType
  <2>2. attached[d] = 0 => d = call[t].doc \/ d \in unattached
    BY <1>3 DEF SoloInv, Awaited, OneCaller
  <2>3. call[t].doc \in Doc => attached'[call[t].doc] # 0
    BY DEF CommitAttach, RecordType
  <2>q. QED BY <1>3, <2>1, <2>2, <2>3
<1>q. QED BY <1>1, <1>2, <1>4, SoloIdle, SoloWritten

LEMMA SoloStep ==
  ASSUME OneCaller, TypeOK, LeadInv, SoloInv, [Next]_vars
  PROVE  SoloInv'
<1>1. ASSUME NEW t \in Thread, Begin(t) \/ Proceed(t) PROVE SoloInv'
  BY <1>1, SoloBegin, SoloRead, SoloDecide, SoloLoad, SoloCommitTransition,
     SoloCommitLink, SoloCommitProposal, SoloCommitReview, SoloCommitOther,
     SoloCommitAttach, CutsStay DEF Proceed
<1>2. CASE Restart
  <2>1. FinalizedIsComplete'
    BY <1>2, ReadyStays DEF FinalizedIsComplete, SoloInv, Restart, record
  <2>2. Cited' = Cited /\ Cited \subseteq Doc
    <3>1. \A i \in DOMAIN links : links[i] \in Link
      BY ElementOfSeq, LenProperties DEF TypeOK, RecordType
    <3>q. QED BY <1>2, <3>1 DEF Cited, Link, Restart, record
  <2>3. \A d \in Cited' : attached'[d] # 0
    BY <1>2, <2>2 DEF Restart, TypeOK, RecordType
  <2>4. \A t \in Thread : SoloCall(t)'
    BY <1>2 DEF Restart, SoloCall, Attaching, AtCommit
  <2>q. QED BY <2>1, <2>3, <2>4 DEF SoloInv
<1>3. CASE UNCHANGED vars
  <2>1. UNCHANGED <<record, attached, pc, call, seen, reads, todo, unattached>>
    BY <1>3 DEF vars, store, locals, bookkeeping, cuts
  <2>2. Ready(View)' = Ready(View) /\ Cited' = Cited
    BY <2>1, ReadyStays DEF record, Cited
  <2>3. Awaited' = Awaited
    BY <2>1 DEF Awaited, Attaching
  <2>4. \A t \in Thread : SeenToDecide(t)' = SeenToDecide(t)
    BY <2>1 DEF SeenToDecide, Unread, record
  <2>5. \A t \in Thread : DecidedHolds(t)' = DecidedHolds(t)
    BY <2>1, <2>2 DEF DecidedHolds
  <2>6. \A t \in Thread : SoloCall(t) => SoloCall(t)'
    BY <2>1, <2>4, <2>5 DEF SoloCall, Attaching, AtCommit, record
  <2>q. QED BY <2>1, <2>2, <2>3, <2>6 DEF SoloInv, FinalizedIsComplete, record
<1>f. ASSUME NEW t \in Thread, Fail(t) PROVE SoloInv'
  <2>1. /\ Return(t) /\ UNCHANGED <<record, attached>> /\ SoloCall(t)' /\ ~Attaching(t)'
        /\ unattached' = unattached \cup {call[u].doc : u \in {v \in {t} : Attaching(v)}}
    BY <1>f, FailStep, SoloIdle DEF store, Fail
  <2>2. FinalizedIsComplete' /\ Cited' = Cited
    BY <2>1, ReadyStays DEF SoloInv, FinalizedIsComplete, Cited, record
  <2>3. ASSUME NEW d \in Cited', attached'[d] = 0 PROVE d \in unattached'
    <3>1. d \in Awaited \/ d \in unattached
      BY <2>1, <2>2, <2>3 DEF SoloInv
    <3>2. d \in Awaited => Attaching(t) /\ d = call[t].doc
      BY DEF Awaited, OneCaller
    <3>q. QED BY <2>1, <3>1, <3>2
  <2>q. QED BY <2>1, <2>2, <2>3 DEF SoloInv, OneCaller
<1>q. QED BY <1>f, <1>1, <1>2, <1>3 DEF Next, AwaitRequest

LEMMA SoloCorrect ==
  ASSUME OneCaller
  PROVE  Spec => []SoloInv
<1>1. OneLead
  BY DEF OneCaller, OneLead
<1>2. Init => SoloInv
  BY DEF Init, SoloInv, SoloCall, Attaching, AtCommit, FinalizedIsComplete, Cited
<1>3. TypeOK /\ LeadInv /\ SoloInv /\ [Next]_vars => SoloInv'
  BY SoloStep
<1>q. QED BY <1>1, <1>2, <1>3, TypeCorrect, LeadCorrect, PTL DEF Spec

(* When calls do not overlap, transition_status lets no assessment be      *)
(* finalized with a pending link, an open request or a judgment without    *)
(* evidence, and none of these can come up afterwards.                     *)
THEOREM FinalizedIsCompleteTheorem ==
  ASSUME OneCaller
  PROVE  Spec => []FinalizedIsComplete
<1>1. SoloInv => FinalizedIsComplete
  BY DEF SoloInv
<1>q. QED BY <1>1, SoloCorrect, PTL

(* When calls do not overlap, link_evidence, detach_document and the       *)
(* repair at a start together keep every cited document attached, also     *)
(* when the process was killed between link_evidence's two sessions; an    *)
(* error between them leaves that one document out until the next start.   *)
THEOREM CitedIsAttachedTheorem ==
  ASSUME OneCaller
  PROVE  Spec => []CitedIsAttached
<1>1. SoloInv => CitedIsAttached
  BY DEF SoloInv, CitedIsAttached, Quiet, Awaited, Attaching
<1>q. QED BY <1>1, SoloCorrect, PTL

(* No write of a lone caller comes after a finalization.                   *)
LEMMA SoloUntouched ==
  ASSUME TypeOK, SoloInv, Untouched, [Next]_vars
  PROVE  Untouched'
<1>1. ASSUME NEW t \in Thread, Begin(t) \/ Proceed(t) PROVE late' = late
  BY <1>1, LateStep DEF SoloInv, SoloCall
<1>2. CASE Restart \/ UNCHANGED vars
  BY <1>2 DEF Restart, vars, bookkeeping, cuts, Untouched
<1>f. ASSUME NEW t \in Thread, Fail(t) PROVE late' = late
  BY <1>f, FailStep
<1>q. QED BY <1>f, <1>1, <1>2 DEF Next, AwaitRequest, Untouched

(* What the promise calls the record's content, and the content sealed.    *)
Content ==
  [links |-> links, findings |-> findings,
   findingHistory |-> findingHistory, requests |-> requests]

SealedAs ==
  IF seal = None THEN None
  ELSE [links |-> seal.links, findings |-> seal.findings,
        findingHistory |-> seal.findingHistory, requests |-> seal.requests]

LEMMA PromiseUnsealed ==
  ASSUME TypeOK, LeadInv, SoloInv, NEW t \in Thread, Begin(t) \/ Proceed(t),
         ~CommitSeal(t)
  PROVE  Promise!Next \/ UNCHANGED <<status, Content, SealedAs>>
<1>1. seal' = seal /\ SealedAs' = SealedAs
  BY SealStep DEF SealedAs
<1>2. CASE CommitTransition(t)
  <2>1. /\ status' = call[t].to /\ call[t].to \in Allowed[status] /\ status \in Status
        /\ UNCHANGED <<links, findings, findingHistory, requests>>
    BY <1>2, CommitTransitionLead DEF CommitTransition, TypeOK, RecordType
  <2>2. Content' = Content
    BY <2>1 DEF Content
  <2>3. CASE status = "draft"
    <3>1. status' = "in_review"
      BY <2>1, <2>3 DEF Allowed
    <3>2. Promise!Submit
      BY <1>1, <2>2, <2>3, <3>1 DEF Promise!Submit, Content, SealedAs
    <3>q. QED BY <3>2 DEF Promise!Next
  <2>4. CASE status = "in_review" /\ status' = "draft"
    <3>1. Promise!Withdraw
      BY <1>1, <2>2, <2>4 DEF Promise!Withdraw, Content, SealedAs
    <3>q. QED BY <3>1 DEF Promise!Next
  <2>5. CASE status = "in_review" /\ status' = "finalized"
    <3>1. Ready(View)
      BY <1>2, <2>1, <2>5 DEF SoloInv, SoloCall, DecidedHolds, CommitTransition, Commits
    <3>2. Ready(Content)
      <4>1. /\ View.links = Content.links /\ View.requests = Content.requests
            /\ View.findings = Content.findings
        BY DEF View, Content
      <4>q. QED BY <3>1, <4>1, ReadyReads
    <3>3. Promise!Finalize
      BY <1>1, <2>2, <2>5, <3>2 DEF Promise!Finalize, Content, SealedAs
    <3>q. QED BY <3>3 DEF Promise!Next
  <2>q. QED BY <2>1, <2>3, <2>4, <2>5 DEF Allowed, Status
<1>3. CASE ~CommitTransition(t) /\ status # "finalized"
  <2>1. status' = status
    BY <1>3, StatusStep
  <2>2. Promise!Work
    BY <1>1, <1>3, <2>1 DEF Promise!Work, SealedAs
  <2>q. QED BY <2>2 DEF Promise!Next
<1>4. CASE ~CommitTransition(t) /\ status = "finalized"
  <2>1. late' = late
    BY <1>4, LateStep DEF SoloInv, SoloCall
  <2>2. UNCHANGED record
    BY <1>4, <2>1, FinalizedFrozen
  <2>q. QED BY <1>1, <2>2 DEF record, Content
<1>q. QED BY <1>2, <1>3, <1>4

(* Each step of a lone caller is a step of the promise, or none.           *)
LEMMA PromiseStep ==
  ASSUME TypeOK, LeadInv, SoloInv, Untouched, SealedContent, NoSealYet, [Next]_vars
  PROVE  [Promise!Next]_<<status, Content, SealedAs>>
<1>1. ASSUME NEW t \in Thread, CommitSeal(t)
      PROVE  Promise!Next
  <2>1. /\ status = "finalized" /\ SeenAsIs(t) /\ reads[t] = <<>> /\ seal = None
        /\ seal' = SealPayload(seen[t]) /\ UNCHANGED record
    BY <1>1 DEF CommitSeal, SealedContent, Sealing, NoSealYet
  <2>2. /\ seen[t].links = links /\ seen[t].findings = findings
        /\ seen[t].findingHistory = findingHistory /\ seen[t].requests = requests
    BY <2>1 DEF SeenAsIs, Unread
  <2>3. seal' # None
    <3>1. SealPayload(seen[t]) \in Payload
      BY SealPayloadType DEF TypeOK, CallsType
    <3>q. QED BY <2>1, <3>1, NoneIsNoPayload
  <2>4. SealedAs = None /\ SealedAs' = Content
    BY <2>1, <2>2, <2>3 DEF SealedAs, SealPayload, Content
  <2>5. status' = status /\ Content' = Content
    BY <2>1 DEF record, Content
  <2>6. Promise!Seal
    BY <2>1, <2>4, <2>5 DEF Promise!Seal, Content, SealedAs
  <2>q. QED BY <2>6 DEF Promise!Next
<1>2. CASE Restart \/ UNCHANGED vars
  <2>1. UNCHANGED <<record, seal>>
    BY <1>2 DEF Restart, vars, store
  <2>q. QED BY <2>1 DEF record, Content, SealedAs
<1>f. ASSUME NEW t \in Thread, Fail(t) PROVE UNCHANGED <<status, Content, SealedAs>>
  <2>1. UNCHANGED <<record, seal>>
    BY <1>f, FailStep DEF store
  <2>q. QED BY <2>1 DEF record, Content, SealedAs
<1>q. QED BY <1>f, <1>1, <1>2, PromiseUnsealed DEF Next, AwaitRequest

(* When calls do not overlap, the record keeps the promise of              *)
(* FinalizedRecord: it is finalized from review and when it is complete,   *)
(* nothing of it changes afterwards, and the one seal it gets is computed  *)
(* of exactly that content.                                                *)
THEOREM KeepsPromiseTheorem ==
  ASSUME OneCaller
  PROVE  Spec => KeepsPromise
<1>1. OneLead
  BY DEF OneCaller, OneLead
<1>2. Init => /\ Untouched /\ SealedContent /\ NoSealYet
              /\ Promise!Init
  BY DEF Init, Untouched, SealedContent, Sealing, NoSealYet, Promise!Init
<1>3. TypeOK /\ LeadInv /\ SoloInv /\ Untouched /\ SealedContent /\ NoSealYet /\ [Next]_vars
      => Untouched' /\ SealedContent' /\ NoSealYet'
  BY <1>1, SoloUntouched, SealedContentStep, NoSealYetStep
<1>4. TypeOK /\ LeadInv /\ SoloInv /\ Untouched /\ SealedContent /\ NoSealYet /\ [Next]_vars
      => [Promise!Next]_<<status, Content, SealedAs>>
  BY PromiseStep
<1>q. QED
  BY <1>1, <1>2, <1>3, <1>4, TypeCorrect, LeadCorrect, SoloCorrect, PTL
     DEF Spec, KeepsPromise, Promise!Spec, Content, SealedAs

================================================================================
