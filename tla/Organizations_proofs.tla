------------------------- MODULE Organizations_proofs -------------------------
(***************************************************************************)
(* What holds of Organizations for any number of calls, organizations,     *)
(* assessments and documents.                                              *)
(*                                                                         *)
(* The calls look up in one session and write in another, so the invariant *)
(* says what a call may still rely on when it writes (Fits): what it found *)
(* is of rows that only ever grow.  The document an ingestion is about to  *)
(* register is known to nobody (Reserved), hence in no row that refers to  *)
(* documents.                                                              *)
(***************************************************************************)
EXTENDS Organizations, SequenceTheorems, TLAPS

-----------------------------------------------------------------------------
(* The invariant.                                                          *)

Rows ==
  /\ organizations \in Seq(Name)
  /\ assessments \in Seq(Nat)
  /\ Registered \subseteq stored \ Legacy
  /\ stored \subseteq Doc
  /\ \A d \in Registered : registry[d].supersedes \in Known \cup {NoDoc}
  /\ attached \cup cited \subseteq Assessment \X Known

Boundary == \A pair \in attached \cup cited : SameOrganization(pair[1], pair[2])

(* What a call at a label may rely on.                                     *)
Fits(label, c) ==
  /\ label \in {"create", "rename"} => c.name \in Name
  /\ label \in {"rename", "assessment"} => c.organization \in Organization
  /\ label \in {"chunks", "row"} => c.supersedes \in Known \cup {NoDoc}
  /\ label \in {"link", "attach"} =>
       c.pair \in Assessment \X Known /\ SameOrganization(c.pair[1], c.pair[2])

Reserved ==
  \A t \in Thread : pc[t] = "row" =>
    /\ call[t].doc \in stored \ Known
    /\ \A u \in Thread \ {t} : pc[u] = "row" => call[u].doc # call[t].doc

Calls ==
  /\ pc = [t \in Thread |-> pc[t]] /\ call = [t \in Thread |-> call[t]]
  /\ \A t \in Thread : Fits(pc[t], call[t])

IInv == Rows /\ Boundary /\ Calls /\ Reserved /\ NamesAreUnique /\ VersionsEnd

-----------------------------------------------------------------------------
(* Rows only grow.                                                         *)

Growth ==
  /\ Organization \subseteq Organization'
  /\ \A a \in Assessment : a \in Assessment' /\ assessments'[a] = assessments[a]
  /\ \A d \in Known :
       d \in Known' /\ (d \in Registered' => d \in Registered /\ registry'[d] = registry[d])

LEMMA UnchangedGrows ==
  ASSUME UNCHANGED <<organizations, assessments, registry>>
  PROVE  Growth
BY DEF Growth, Organization, Assessment, Known, Registered

LEMMA FitsStays ==
  ASSUME Growth, NEW label, NEW c, Fits(label, c)
  PROVE  Fits(label, c)'
BY DEF Growth, Fits, SameOrganization

(* A call that ends, or goes on with what it has, or another call's step.  *)
LEMMA CallsStay ==
  ASSUME Growth, Calls, NEW t \in Thread, NEW label, NEW c,
         pc' = [pc EXCEPT ![t] = label], call' = [call EXCEPT ![t] = c], Fits(label, c)'
  PROVE  Calls'
<1>1. ASSUME NEW u \in Thread
      PROVE  Fits(pc[u], call[u])'
  <2>1. CASE u = t
    <3>1. pc'[u] = label /\ call'[u] = c
      BY <2>1 DEF Calls
    <3> QED BY <3>1 DEF Fits
  <2>2. CASE u # t
    <3>1. pc'[u] = pc[u] /\ call'[u] = call[u]
      BY <2>2 DEF Calls
    <3>2. Fits(pc[u], call[u])
      BY DEF Calls
    <3> QED BY <3>1, <3>2 DEF Growth, Fits, SameOrganization
  <2> QED BY <2>1, <2>2
<1> QED
  BY <1>1 DEF Calls

LEMMA SameRegistry ==
  ASSUME VersionsEnd, registry' = registry
  PROVE  VersionsEnd'
BY DEF VersionsEnd, Registered, Details, Successors

LEMMA RowsUnchanged ==
  ASSUME Rows, Boundary, NamesAreUnique, VersionsEnd, UNCHANGED rows
  PROVE  (Rows /\ Boundary /\ NamesAreUnique /\ VersionsEnd)'
BY SameRegistry DEF Rows, Boundary, NamesAreUnique, rows, Organization, Assessment, Registered,
                    Known, SameOrganization

(* A call that begins with something that fits.                            *)
LEMMA EnterStep ==
  ASSUME IInv, NEW t \in Thread, NEW label, NEW c, Enter(t, label, c), Fits(label, c),
         label # "row"
  PROVE  IInv'
<1>1. Growth
  BY UnchangedGrows DEF Enter, rows
<1>2. Fits(label, c)'
  BY <1>1, FitsStays
<1>3. Calls'
  BY <1>1, <1>2, CallsStay DEF Enter, IInv
<1>4. Reserved'
  BY DEF IInv, Reserved, Calls, Enter, rows, Known, Registered
<1> QED
  BY <1>3, <1>4, RowsUnchanged DEF IInv, Enter

(* A call that ends.                                                       *)
LEMMA LeaveKeeps ==
  ASSUME Calls, Reserved, Growth, UNCHANGED <<registry, stored>>, NEW t \in Thread, Leave(t)
  PROVE  Calls' /\ Reserved'
<1>1. Fits("idle", NoCall)'
  BY DEF Fits
<1>2. Calls'
  BY <1>1, CallsStay DEF Leave
<1>3. Reserved'
  BY DEF Reserved, Calls, Leave, Known, Registered
<1> QED
  BY <1>2, <1>3

-----------------------------------------------------------------------------
(* The steps that write.                                                   *)

LEMMA InsertOrganizationStep ==
  ASSUME IInv, NEW t \in Thread, InsertOrganization(t)
  PROVE  IInv'
<1>1. call[t].name \in Name
  BY DEF IInv, Calls, Fits, InsertOrganization
<1>2. /\ organizations' \in Seq(Name)
      /\ Len(organizations') = Len(organizations) + 1
      /\ \A o \in Organization : organizations'[o] = organizations[o]
      /\ organizations'[Len(organizations) + 1] = call[t].name
  BY <1>1, AppendProperties DEF IInv, Rows, InsertOrganization, Organization
<1>3. Len(organizations) \in Nat
  BY LenProperties DEF IInv, Rows
<1>4. Growth
  BY <1>2, <1>3 DEF Growth, InsertOrganization, Organization, Assessment, Known, Registered
<1>5. NamesAreUnique'
  BY <1>2, <1>3 DEF IInv, NamesAreUnique, InsertOrganization, Named, Organization
<1>6. Rows' /\ Boundary' /\ VersionsEnd'
  BY <1>2, SameRegistry DEF IInv, Rows, Boundary, InsertOrganization, Assessment, Registered,
                            Known, SameOrganization
<1> QED
  BY <1>4, <1>5, <1>6, LeaveKeeps DEF IInv, InsertOrganization

LEMMA UpdateNameStep ==
  ASSUME IInv, NEW t \in Thread, UpdateName(t)
  PROVE  IInv'
<1>1. call[t].name \in Name /\ call[t].organization \in 1..Len(organizations)
  BY DEF IInv, Calls, Fits, UpdateName, Organization
<1>2. /\ organizations' \in Seq(Name)
      /\ Len(organizations') = Len(organizations)
      /\ \A o \in Organization :
           organizations'[o] = IF o = call[t].organization THEN call[t].name
                               ELSE organizations[o]
  BY <1>1, ExceptSeq DEF IInv, Rows, UpdateName, Organization
<1>3. Growth
  BY <1>2 DEF Growth, UpdateName, Organization, Assessment, Known, Registered
<1>4. NamesAreUnique'
  BY <1>1, <1>2 DEF IInv, NamesAreUnique, UpdateName, Named, Organization
<1>5. Rows' /\ Boundary' /\ VersionsEnd'
  BY <1>2, SameRegistry DEF IInv, Rows, Boundary, UpdateName, Assessment, Registered, Known,
                            SameOrganization
<1> QED
  BY <1>3, <1>4, <1>5, LeaveKeeps DEF IInv, UpdateName

LEMMA InsertAssessmentStep ==
  ASSUME IInv, NEW t \in Thread, InsertAssessment(t)
  PROVE  IInv'
<1>1. call[t].organization \in Nat
  BY LenProperties DEF IInv, Rows, Calls, Fits, InsertAssessment, Organization
<1>2. /\ assessments' \in Seq(Nat)
      /\ Len(assessments') = Len(assessments) + 1
      /\ \A a \in Assessment : assessments'[a] = assessments[a]
  BY <1>1, AppendProperties DEF IInv, Rows, InsertAssessment, Assessment
<1>3. Len(assessments) \in Nat
  BY LenProperties DEF IInv, Rows
<1>4. Growth
  BY <1>2, <1>3 DEF Growth, InsertAssessment, Organization, Assessment, Known, Registered
<1>5. Rows'
  <2>1. Assessment \subseteq Assessment'
    BY <1>4 DEF Growth
  <2> QED
    BY <1>2, <2>1 DEF IInv, Rows, InsertAssessment, Registered, Known
<1>6. Boundary'
  BY <1>2 DEF IInv, Rows, Boundary, InsertAssessment, Registered, SameOrganization
<1>7. NamesAreUnique' /\ VersionsEnd'
  BY SameRegistry DEF IInv, NamesAreUnique, InsertAssessment, Organization
<1> QED
  BY <1>4, <1>5, <1>6, <1>7, LeaveKeeps DEF IInv, InsertAssessment

LEMMA AddChunksStep ==
  ASSUME IInv, NEW t \in Thread, AddChunks(t)
  PROVE  IInv'
<1>1. PICK d \in Doc \ Taken :
        /\ stored' = stored \cup {d}
        /\ call' = [call EXCEPT ![t] = [kind |-> "row", doc |-> d,
                      organization |-> @.organization, supersedes |-> @.supersedes]]
  BY DEF AddChunks
<1>0. PICK c : c = [kind |-> "row", doc |-> d, organization |-> call[t].organization,
                    supersedes |-> call[t].supersedes]
  OBVIOUS
<1>2. Growth
  BY UnchangedGrows DEF AddChunks
<1>3. Fits("row", c)' /\ pc' = [pc EXCEPT ![t] = "row"] /\ call' = [call EXCEPT ![t] = c]
  BY <1>0, <1>1 DEF IInv, Calls, Fits, AddChunks, Known, Registered
<1>4. Calls'
  BY <1>2, <1>3, CallsStay DEF IInv
<1>5. Reserved'
  BY <1>1 DEF IInv, Calls, Reserved, AddChunks, Taken, Known, Registered
<1>6. Rows' /\ Boundary' /\ NamesAreUnique' /\ VersionsEnd'
  BY <1>1, SameRegistry DEF IInv, Rows, Boundary, NamesAreUnique, AddChunks, Organization,
                            Assessment, Registered, Known, SameOrganization
<1> QED
  BY <1>4, <1>5, <1>6 DEF IInv

(* The new document supersedes one that was known before it, and nothing   *)
(* can have superseded it yet: it ends every chain it is in.               *)
LEMMA CreateDocumentStep ==
  ASSUME IInv, NEW t \in Thread, CreateDocument(t)
  PROVE  IInv'
<1>0. PICK new : new = call[t].doc
  OBVIOUS
<1>1. /\ new \in stored \ Known
      /\ call[t].supersedes \in Known \cup {NoDoc}
  BY <1>0 DEF IInv, Reserved, Calls, Fits, CreateDocument
<1>2. /\ Registered' = Registered \cup {new}
      /\ \A d \in Registered : registry'[d] = registry[d]
      /\ registry'[new] = Row(call[t])
      /\ Known' = Known \cup {new}
  BY <1>0, <1>1 DEF CreateDocument, Registered, Known
<1>3. Growth
  BY <1>1, <1>2 DEF Growth, CreateDocument, Organization, Assessment, Known
<1>4. Rows'
  <2>1. /\ organizations' \in Seq(Name) /\ assessments' \in Seq(Nat)
        /\ Registered' \subseteq stored' \ Legacy /\ stored' \subseteq Doc
    BY <1>1, <1>2 DEF IInv, Rows, CreateDocument, Known
  <2>2. \A d \in Registered' : registry'[d].supersedes \in Known' \cup {NoDoc}
    BY <1>1, <1>2 DEF IInv, Rows, Row
  <2>3. (attached \cup cited)' \subseteq Assessment' \X Known'
    BY <1>2 DEF IInv, Rows, CreateDocument, Assessment
  <2> QED
    BY <2>1, <2>2, <2>3 DEF Rows
<1>5. Boundary'
  BY <1>1, <1>2 DEF IInv, Rows, Boundary, CreateDocument, SameOrganization, Known
<1>6. NamesAreUnique'
  BY DEF IInv, NamesAreUnique, CreateDocument, Organization
<1>7. VersionsEnd'
  <2> SUFFICES ASSUME NEW docs \in SUBSET Registered', docs # {}
               PROVE  \E d \in docs : \A detail \in Details(d)' : detail.supersededBy \notin docs
    BY DEF VersionsEnd
  <2>1. NoDoc \notin docs
    BY <1>1, <1>2, OrganizationsAssumption DEF IInv, Rows
  <2>2. CASE new \in docs
    <3>1. new # NoDoc /\ new \notin Known
      BY <1>1, OrganizationsAssumption DEF IInv, Rows
    <3>2. \A e \in Registered' : registry'[e].supersedes # new
      BY <1>1, <1>2, <3>1 DEF IInv, Rows, Row
    <3>3. Successors(new)' = {}
      BY <3>2 DEF Successors
    <3>4. \A detail \in Details(new)' : detail.supersededBy = NoDoc
      BY <3>3 DEF Details, Successors
    <3> QED
      BY <2>1, <2>2, <3>4
  <2>3. CASE new \notin docs
    <3>1. docs \in SUBSET Registered
      BY <1>2, <2>3
    <3>2. PICK d \in docs : \A detail \in Details(d) : detail.supersededBy \notin docs
      BY <3>1 DEF IInv, VersionsEnd
    <3>3. \A e \in Successors(d) : e \notin docs
      <4> SUFFICES ASSUME NEW e \in Successors(d) PROVE e \notin docs
        OBVIOUS
      <4>1. [supersedes |-> registry[d].supersedes, supersededBy |-> e] \in Details(d)
        BY DEF Details
      <4> QED
        BY <3>2, <4>1
    <3>4. Successors(d)' \subseteq Successors(d) \cup {new}
      BY <1>2 DEF Successors
    <3>5. \A detail \in Details(d)' : detail.supersededBy \in Successors(d)' \cup {NoDoc}
      BY DEF Details, Successors
    <3> QED
      BY <2>1, <2>3, <3>3, <3>4, <3>5
  <2> QED
    BY <2>2, <2>3
<1>8. Calls'
  <2>1. Fits("idle", NoCall)'
    BY DEF Fits
  <2> QED
    BY <1>3, <2>1, CallsStay DEF IInv, CreateDocument, Leave
<1>9. Reserved'
  BY <1>0, <1>1, <1>2 DEF IInv, Reserved, Calls, CreateDocument, Leave
<1> QED
  BY <1>4, <1>5, <1>6, <1>7, <1>8, <1>9 DEF IInv

(* What was admitted may still be stored.                                  *)
LEMMA PairFits ==
  ASSUME IInv, NEW t \in Thread, pc[t] \in {"link", "attach"}
  PROVE  call[t].pair \in Assessment \X Known /\ SameOrganization(call[t].pair[1], call[t].pair[2])
BY DEF IInv, Calls, Fits

LEMMA StoreLinkStep ==
  ASSUME IInv, NEW t \in Thread, StoreLink(t)
  PROVE  IInv'
<1>0. PICK c : c = call[t]
  OBVIOUS
<1>1. Growth
  BY UnchangedGrows DEF StoreLink
<1>2. pc' = [pc EXCEPT ![t] = "attach"] /\ call' = [call EXCEPT ![t] = c]
  BY <1>0 DEF StoreLink, Continue, IInv, Calls
<1>3. Fits("attach", c)
  BY <1>0, PairFits DEF StoreLink, Fits
<1>4. Calls'
  BY <1>1, <1>2, <1>3, FitsStays, CallsStay DEF IInv
<1>5. Reserved'
  BY DEF IInv, Calls, Reserved, StoreLink, Continue, Known, Registered
<1>6. Rows' /\ Boundary'
  BY PairFits DEF IInv, Rows, Boundary, StoreLink, Assessment, Registered, Known, SameOrganization
<1>7. NamesAreUnique' /\ VersionsEnd'
  BY SameRegistry DEF IInv, NamesAreUnique, StoreLink, Organization
<1> QED
  BY <1>4, <1>5, <1>6, <1>7 DEF IInv

LEMMA StoreAttachmentStep ==
  ASSUME IInv, NEW t \in Thread, StoreAttachment(t)
  PROVE  IInv'
<1>1. Growth
  BY UnchangedGrows DEF StoreAttachment
<1>2. Rows' /\ Boundary'
  BY PairFits DEF IInv, Rows, Boundary, StoreAttachment, Assessment, Registered, Known,
                  SameOrganization
<1>3. NamesAreUnique' /\ VersionsEnd'
  BY SameRegistry DEF IInv, NamesAreUnique, StoreAttachment, Organization
<1> QED
  BY <1>1, <1>2, <1>3, LeaveKeeps DEF IInv, StoreAttachment

-----------------------------------------------------------------------------
(* The steps that only look something up.                                  *)

LEMMA LookUpStep ==
  ASSUME IInv, NEW t \in Thread,
         \/ LookUpNewName(t) \/ LookUpOtherName(t) \/ ResolveForAssessment(t)
         \/ BeginIngestion(t) \/ CheckAttach(t) \/ CheckLink(t)
  PROVE  IInv'
<1>1. CASE LookUpNewName(t)
  <2>1. PICK n \in Name : Enter(t, "create", [kind |-> "name", name |-> n])
    BY <1>1 DEF LookUpNewName
  <2>2. Fits("create", [kind |-> "name", name |-> n])
    BY DEF Fits
  <2> QED BY <2>1, <2>2, EnterStep
<1>2. CASE LookUpOtherName(t)
  <2>1. PICK o \in Organization, n \in Name :
          Enter(t, "rename", [kind |-> "name", name |-> n, organization |-> o])
    BY <1>2 DEF LookUpOtherName
  <2>2. Fits("rename", [kind |-> "name", name |-> n, organization |-> o])
    BY DEF Fits
  <2> QED BY <2>1, <2>2, EnterStep
<1>3. CASE ResolveForAssessment(t)
  <2>1. PICK o \in Organization :
          Enter(t, "assessment", [kind |-> "assessment", organization |-> o])
    BY <1>3 DEF ResolveForAssessment
  <2>2. Fits("assessment", [kind |-> "assessment", organization |-> o])
    BY DEF Fits
  <2> QED BY <2>1, <2>2, EnterStep
<1>4. CASE BeginIngestion(t)
  <2>1. PICK o \in Organization, s \in Known \cup {NoDoc} :
          Enter(t, "chunks", [kind |-> "document", organization |-> o, supersedes |-> s])
    BY <1>4 DEF BeginIngestion
  <2>2. Fits("chunks", [kind |-> "document", organization |-> o, supersedes |-> s])
    BY DEF Fits
  <2> QED BY <2>1, <2>2, EnterStep
<1>5. CASE CheckAttach(t)
  <2>1. PICK a \in Assessment, d \in Known :
          SameOrganization(a, d) /\ Enter(t, "attach", [kind |-> "pair", pair |-> <<a, d>>])
    BY <1>5 DEF CheckAttach, Admits
  <2>2. Fits("attach", [kind |-> "pair", pair |-> <<a, d>>])
    BY <2>1 DEF Fits
  <2> QED BY <2>1, <2>2, EnterStep
<1>6. CASE CheckLink(t)
  <2>1. PICK a \in Assessment, d \in Known :
          SameOrganization(a, d) /\ Enter(t, "link", [kind |-> "pair", pair |-> <<a, d>>])
    BY <1>6 DEF CheckLink, Admits
  <2>2. Fits("link", [kind |-> "pair", pair |-> <<a, d>>])
    BY <2>1 DEF Fits
  <2> QED BY <2>1, <2>2, EnterStep
<1> QED
  BY <1>1, <1>2, <1>3, <1>4, <1>5, <1>6

LEMMA NameRefusedStep ==
  ASSUME IInv, NEW t \in Thread, NameRefused(t)
  PROVE  IInv'
<1>1. Growth
  BY UnchangedGrows DEF NameRefused, rows
<1> QED
  BY <1>1, LeaveKeeps, RowsUnchanged DEF IInv, NameRefused, rows

-----------------------------------------------------------------------------
(* The theorems.                                                           *)

LEMMA Initially ==
  ASSUME Init
  PROVE  IInv
<1>1. /\ Len(organizations) = 1 /\ organizations \in Seq(Name) /\ organizations[1] = DefaultName
      /\ assessments \in Seq(Nat)
  BY OrganizationsAssumption, EmptySeq DEF Init
<1>2. Registered = {}
  BY DEF Init, Registered
<1>3. Rows
  BY <1>1, <1>2, OrganizationsAssumption DEF Init, Rows
<1>4. Boundary
  BY DEF Init, Boundary
<1>5. NamesAreUnique
  BY <1>1 DEF NamesAreUnique, Organization
<1>6. VersionsEnd
  BY <1>2 DEF VersionsEnd
<1>7. Calls /\ Reserved
  BY DEF Init, Calls, Reserved, Fits
<1> QED
  BY <1>3, <1>4, <1>5, <1>6, <1>7 DEF IInv

LEMMA Inductive ==
  ASSUME IInv, [Next]_vars
  PROVE  IInv'
<1>1. CASE UNCHANGED vars
  <2>1. UNCHANGED rows /\ pc' = pc /\ call' = call
    BY <1>1 DEF vars
  <2>2. Calls' /\ Reserved'
    BY <2>1 DEF IInv, Calls, Reserved, Fits, rows, Organization, Assessment, Known, Registered,
                SameOrganization
  <2> QED
    BY <2>1, <2>2, RowsUnchanged DEF IInv
<1>2. CASE Next
  <2>1. PICK t \in Thread :
          OrganizationCall(t) \/ AssessmentCall(t) \/ IngestionCall(t) \/ AttachmentCall(t)
    BY <1>2 DEF Next
  <2>2. CASE OrganizationCall(t)
    BY <2>2, LookUpStep, InsertOrganizationStep, UpdateNameStep, NameRefusedStep
       DEF OrganizationCall
  <2>3. CASE AssessmentCall(t)
    BY <2>3, LookUpStep, InsertAssessmentStep DEF AssessmentCall
  <2>4. CASE IngestionCall(t)
    BY <2>4, LookUpStep, AddChunksStep, CreateDocumentStep DEF IngestionCall
  <2>5. CASE AttachmentCall(t)
    BY <2>5, LookUpStep, StoreLinkStep, StoreAttachmentStep DEF AttachmentCall
  <2> QED
    BY <2>1, <2>2, <2>3, <2>4, <2>5
<1> QED
  BY <1>1, <1>2

LEMMA Always == Spec => []IInv
<1>1. IInv /\ [Next]_vars => IInv'
  BY Inductive
<1> QED
  BY Initially, <1>1, PTL DEF Spec

(* No two organizations ever have one name, whatever calls overlap         *)
(* (create_organization, rename_organization).                             *)
THEOREM NamesAreUniqueTheorem == Spec => []NamesAreUnique
<1>1. IInv => NamesAreUnique
  BY DEF IInv
<1> QED
  BY <1>1, Always, PTL

(* Nothing of one organization gets into an assessment of another, and the *)
(* lists of both show the same documents alike (_assert_same_organization, *)
(* which ADR-0063 has the service and the repository call): the answer to  *)
(* a check stays true until the row is stored.                             *)
THEOREM BoundaryHoldsTheorem == Spec => []BoundaryHolds
<1>1. IInv => BoundaryHolds
  <2> SUFFICES ASSUME IInv PROVE BoundaryHolds
    OBVIOUS
  <2>1. \A pair \in attached \cup cited : SameOrganization(pair[1], pair[2])
    BY DEF IInv, Boundary
  <2>2. ASSUME NEW a \in Assessment, NEW d \in DOMAIN DocumentsTab(a)
        PROVE  /\ d \in DOMAIN Chooser(assessments[a])
               /\ DocumentsTab(a)[d] = Chooser(assessments[a])[d]
    <3>1. d \in DocumentsFor(a)
      BY <2>2 DEF DocumentsTab, Summaries
    <3>2. d \in Registered /\ registry[d].organization = assessments[a]
      BY <2>1, <3>1 DEF DocumentsFor, SameOrganization
    <3>3. d \in ListDocuments(assessments[a])
      BY <3>2 DEF ListDocuments
    <3>4. d \in Superseded(DocumentsFor(a)) <=> d \in Superseded(ListDocuments(assessments[a]))
      BY <3>1, <3>3 DEF Superseded
    <3> QED
      BY <3>1, <3>3, <3>4 DEF Chooser, DocumentsTab, Summaries
  <2> QED
    BY <2>1, <2>2 DEF BoundaryHolds
<1> QED
  BY <1>1, Always, PTL

(* However uploads overlap and whichever document each supersedes, whoever *)
(* follows the documents that supersede one another comes to an end        *)
(* (ingest, document_superseded_by).                                       *)
THEOREM VersionsEndTheorem == Spec => []VersionsEnd
<1>1. IInv => VersionsEnd
  BY DEF IInv
<1> QED
  BY <1>1, Always, PTL

=============================================================================
