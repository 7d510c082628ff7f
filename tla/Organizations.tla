---------------------------- MODULE Organizations ----------------------------
(***************************************************************************)
(* The organizations of an instance, and the boundary between them: an     *)
(* assessment and a document belong to one organization each, and only     *)
(* documents of its own may be attached to an assessment or cited in it.   *)
(*                                                                         *)
(* Every call looks something up in one session and writes in another.     *)
(* An organization is the number of its row, an assessment too.  Failures  *)
(* of an ingestion, and the status of an assessment, are the subject of    *)
(* Ingestion and AssessmentRecord.                                         *)
(***************************************************************************)
EXTENDS Integers, Sequences, FiniteSets

CONSTANTS
  Thread,          \* the calls that may overlap
  Name,            \* organization names, cleaned
  DefaultName,     \* of the organization an instance begins with
  Doc,             \* document ids
  Legacy,          \* documents that were ingested before there was a registry
  NoDoc,           \* no document is superseded
  Unnamed,         \* the organization is not given
  MaxOrganizations, MaxAssessments  \* bounds

ASSUME OrganizationsAssumption ==
  /\ DefaultName \in Name
  /\ Legacy \subseteq Doc /\ NoDoc \notin Doc
  /\ Unnamed \notin Nat
  /\ MaxOrganizations \in Nat /\ MaxAssessments \in Nat

VARIABLES
  organizations,  \* their names, in rowid order
  assessments,    \* the organization of each
  registry,       \* document rows: the organization, and what is superseded
  stored,         \* the documents that have chunks in the vector store
  attached,       \* assessmentdocument rows
  cited,          \* the documents cited in an assessment
  pc, call        \* where each call is, and with what

rows == <<organizations, assessments, registry, stored, attached, cited>>
vars == <<rows, pc, call>>

NoCall == [kind |-> "none"]

Organization == 1..Len(organizations)
Assessment   == 1..Len(assessments)
Registered   == DOMAIN registry

(* The ids of documents that someone can know.                             *)
Known == Registered \cup Legacy

-----------------------------------------------------------------------------
(* The checks.                                                             *)

Named(n) == {o \in Organization : organizations[o] = n}

(* resolve_organization_id: the one given, or the only one there is.       *)
Resolve(given) ==
  {o \in Organization : o = given \/ (given = Unnamed /\ Len(organizations) = 1)}

(* _assert_same_organization; a document without a row passes.             *)
SameOrganization(a, d) == d \in Registered => registry[d].organization = assessments[a]

-----------------------------------------------------------------------------
(* The calls.                                                              *)

Enter(t, label, with) ==
  /\ pc[t] = "idle"
  /\ pc' = [pc EXCEPT ![t] = label]
  /\ call' = [call EXCEPT ![t] = with]
  /\ UNCHANGED rows

Continue(t, label) == pc' = [pc EXCEPT ![t] = label] /\ UNCHANGED call

Leave(t) ==
  /\ pc' = [pc EXCEPT ![t] = "idle"]
  /\ call' = [call EXCEPT ![t] = NoCall]

(* create_organization and rename_organization: the name is looked up ...  *)
LookUpNewName(t) ==
  /\ Len(organizations) < MaxOrganizations
  /\ \E n \in Name : Named(n) = {} /\ Enter(t, "create", [kind |-> "name", name |-> n])

LookUpOtherName(t) ==
  \E o \in Organization, n \in Name :
    /\ Named(n) \subseteq {o}
    /\ Enter(t, "rename", [kind |-> "name", name |-> n, organization |-> o])

(* ... and written, unless the UNIQUE constraint forbids it.               *)
InsertOrganization(t) ==
  /\ pc[t] = "create" /\ Len(organizations) < MaxOrganizations
  /\ Named(call[t].name) = {}
  /\ organizations' = Append(organizations, call[t].name)
  /\ Leave(t)
  /\ UNCHANGED <<assessments, registry, stored, attached, cited>>

(* Fault: the name is not UNIQUE, the lookup is trusted.                   *)
UpdateUnconstrained(t) ==
  /\ pc[t] = "rename"
  /\ organizations' = [organizations EXCEPT ![call[t].organization] = call[t].name]
  /\ Leave(t)
  /\ UNCHANGED <<assessments, registry, stored, attached, cited>>

UpdateName(t) ==
  /\ pc[t] = "rename"
  /\ Named(call[t].name) \subseteq {call[t].organization}
  /\ organizations' = [organizations EXCEPT ![call[t].organization] = call[t].name]
  /\ Leave(t)
  /\ UNCHANGED <<assessments, registry, stored, attached, cited>>

(* IntegrityError.                                                         *)
NameRefused(t) ==
  /\ \/ pc[t] = "create" /\ Named(call[t].name) # {}
     \/ pc[t] = "rename" /\ ~(Named(call[t].name) \subseteq {call[t].organization})
  /\ Leave(t)
  /\ UNCHANGED rows

(* create_assessment.                                                      *)
ResolveForAssessment(t) ==
  \E given \in Organization \cup {Unnamed}, o \in Organization :
    /\ o \in Resolve(given)
    /\ Enter(t, "assessment", [kind |-> "assessment", organization |-> o])

InsertAssessment(t) ==
  /\ pc[t] = "assessment" /\ Len(assessments) < MaxAssessments
  /\ assessments' = Append(assessments, call[t].organization)
  /\ Leave(t)
  /\ UNCHANGED <<organizations, registry, stored, attached, cited>>

(* ingest: the chunks are stored under a new id, then the row.  What is    *)
(* superseded must have chunks, and may be anybody's.                      *)
BeginIngestion(t) ==
  \E given \in Organization \cup {Unnamed}, o \in Organization, s \in Known \cup {NoDoc} :
    /\ o \in Resolve(given)
    /\ s # NoDoc => s \in stored
    /\ Enter(t, "chunks", [kind |-> "document", organization |-> o, supersedes |-> s])

(* Fault: the id is made from the content, which may be there already.     *)
TakenByOthers == Legacy

Taken == stored \cup Registered \cup Legacy

AddChunks(t) ==
  /\ pc[t] = "chunks"
  /\ \E d \in Doc \ Taken :
       /\ stored' = stored \cup {d}
       /\ call' = [call EXCEPT ![t] = [kind |-> "row", doc |-> d,
                     organization |-> @.organization, supersedes |-> @.supersedes]]
  /\ pc' = [pc EXCEPT ![t] = "row"]
  /\ UNCHANGED <<organizations, assessments, registry, attached, cited>>

Row(c) == [organization |-> c.organization, supersedes |-> c.supersedes]

CreateDocument(t) ==
  /\ pc[t] = "row"
  /\ registry' = [d \in Registered \cup {call[t].doc} |->
                    IF d = call[t].doc THEN Row(call[t]) ELSE registry[d]]
  /\ Leave(t)
  /\ UNCHANGED <<organizations, assessments, stored, attached, cited>>

(* attach_document and link_evidence check before anything is written ...  *)
Admits(a, d) == d \in stored /\ SameOrganization(a, d)

CheckAttach(t) ==
  \E a \in Assessment, d \in Known :
    Admits(a, d) /\ Enter(t, "attach", [kind |-> "pair", pair |-> <<a, d>>])

(* Fault: it is left to the attachment to refuse.                          *)
CheckLinkLate(t) ==
  \E a \in Assessment, d \in Known :
    d \in stored /\ Enter(t, "link", [kind |-> "pair", pair |-> <<a, d>>])

CheckLink(t) ==
  \E a \in Assessment, d \in Known :
    Admits(a, d) /\ Enter(t, "link", [kind |-> "pair", pair |-> <<a, d>>])

(* ... the link is stored without another look, the attachment with one.   *)
StoreLink(t) ==
  /\ pc[t] = "link"
  /\ cited' = cited \cup {call[t].pair}
  /\ Continue(t, "attach")
  /\ UNCHANGED <<organizations, assessments, registry, stored, attached>>

StoreAttachment(t) ==
  /\ pc[t] = "attach"
  /\ SameOrganization(call[t].pair[1], call[t].pair[2])
  /\ attached' = attached \cup {call[t].pair}
  /\ Leave(t)
  /\ UNCHANGED <<organizations, assessments, registry, stored, cited>>

-----------------------------------------------------------------------------
(* What is shown.  A document without a row is in no list.                 *)

ListDocuments(o) == {d \in Registered : registry[d].organization = o}

DocumentsFor(a) == {d \in Registered : <<a, d>> \in attached}

Successors(d) == {e \in Registered : registry[e].supersedes = d}

Superseded(docs) == {d \in docs : Successors(d) # {}}

(* _summarise: the summaries differ in whether the document is superseded. *)
Summaries(docs) == [d \in docs |-> [isSuperseded |-> d \in Superseded(docs)]]

(* The documents to choose from in one organization ...                    *)
Chooser(o) == Summaries(ListDocuments(o))

(* ... and those of an assessment.                                         *)
DocumentsTab(a) == Summaries(DocumentsFor(a))

(* Of several successors any may be named.                                 *)
Details(d) ==
  {[supersedes |-> registry[d].supersedes, supersededBy |-> e] :
     e \in IF Successors(d) = {} THEN {NoDoc} ELSE Successors(d)}

Init ==
  /\ organizations = <<DefaultName>>
  /\ assessments = <<>>
  /\ registry = [d \in {} |-> NoDoc]
  /\ stored = Legacy
  /\ attached = {} /\ cited = {}
  /\ pc = [t \in Thread |-> "idle"]
  /\ call = [t \in Thread |-> NoCall]

OrganizationCall(t) ==
  \/ LookUpNewName(t) \/ LookUpOtherName(t)
  \/ InsertOrganization(t) \/ UpdateName(t) \/ NameRefused(t)

AssessmentCall(t) == ResolveForAssessment(t) \/ InsertAssessment(t)

IngestionCall(t) == BeginIngestion(t) \/ AddChunks(t) \/ CreateDocument(t)

AttachmentCall(t) == CheckAttach(t) \/ CheckLink(t) \/ StoreLink(t) \/ StoreAttachment(t)

Next ==
  \E t \in Thread :
    OrganizationCall(t) \/ AssessmentCall(t) \/ IngestionCall(t) \/ AttachmentCall(t)

Spec == Init /\ [][Next]_vars

-----------------------------------------------------------------------------
(* Properties.                                                             *)

(* No two organizations have one name, whatever calls overlap.             *)
NamesAreUnique ==
  \A o, u \in Organization : organizations[o] = organizations[u] => o = u

(* ADR-0063: nothing of one organization is attached to an assessment of   *)
(* another, or cited in it; so a document shown in an assessment is shown  *)
(* in the chooser of its organization too, and as the same.                *)
BoundaryHolds ==
  /\ \A pair \in attached \cup cited : SameOrganization(pair[1], pair[2])
  /\ \A a \in Assessment : \A d \in DOMAIN DocumentsTab(a) :
       /\ d \in DOMAIN Chooser(assessments[a])
       /\ DocumentsTab(a)[d] = Chooser(assessments[a])[d]

(* Whoever goes from a document to the one that supersedes it, and so on,  *)
(* comes to one that nothing supersedes, also when several uploads         *)
(* supersede one document at once and whichever of them is named: there is *)
(* no set of documents in which each names another of the set.             *)
VersionsEnd ==
  \A docs \in SUBSET Registered :
    docs # {} => \E d \in docs : \A detail \in Details(d) : detail.supersededBy \notin docs

=============================================================================
