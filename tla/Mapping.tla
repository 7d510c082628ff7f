------------------------------- MODULE Mapping -------------------------------
(***************************************************************************)
(* The mapping engine: which passages it proposes as evidence for which    *)
(* practices, the competition of the practices for a passage, and the      *)
(* requests that store, review and add evidence links while it runs.       *)
(*                                                                         *)
(* A run reads the links, searches the vector store, and then stores its   *)
(* proposals one transaction each; a link made by hand is checked and      *)
(* then stored.  A review is one step: how two of them overlap is in       *)
(* AssessmentRecord, as is the attaching of documents.                     *)
(***************************************************************************)
EXTENDS Integers, Sequences, FiniteSets

CONSTANTS
  Thread,            \* the request threads of the server
  Practice,          \* the practices, numbered in the order of their ids
  Doc,               \* the documents attached to the assessment
  Confidence(_, _),  \* of a practice and a chunk: how near they are
  Threshold,         \* mapping_similarity_threshold
  PerPractice,       \* mapping_candidates_per_practice
  Cap,               \* mapping_max_practices_per_chunk, 0 for no cap
  MaxLinks,          \* evidence links, a bound
  NoChunk            \* SQL NULL: the link cites the document as a whole

ASSUME EngineAssumption ==
  /\ Practice \subseteq Nat /\ IsFiniteSet(Practice)
  /\ Threshold \in Nat /\ PerPractice \in Nat \ {0} /\ Cap \in Nat
  /\ MaxLinks \in Nat

VARIABLES
  chunks,  \* the rows of the vector store
  links,   \* evidencelink rows, in rowid order
  pc,      \* where each thread is in its call
  seen,    \* the links a run has read
  todo,    \* the links a call still has to store
  quiet    \* no one else has written since the call began

calls   == <<pc, seen, todo, quiet>>
mapping == <<chunks, links, calls>>

Live == {"pending", "accepted", "edited"}

-----------------------------------------------------------------------------
(* find_mapping_candidates, on the links known and the rows stored.        *)

LiveLinks(known) == {i \in DOMAIN known : known[i].review \in Live}

Covered(known) == {known[i].practice : i \in LiveLinks(known)}

Claims(known, c) == Cardinality({i \in LiveLinks(known) : known[i].chunk = c})

(* What the search returns for a practice, with all of those that tie for  *)
(* its last place, of which the store returns some.                        *)
Nearest(p, stored) ==
  {c \in stored :
     Cardinality({b \in stored : Confidence(p, b) > Confidence(p, c)}) < PerPractice}

Contenders(c, known, stored) ==
  {p \in Practice \ Covered(known) : c \in Nearest(p, stored) /\ Confidence(p, c) >= Threshold}

(* The order of a chunk's contenders; ties go to the smaller id.           *)
Stronger(p, q, c) ==
  \/ Confidence(p, c) > Confidence(q, c)
  \/ Confidence(p, c) = Confidence(q, c) /\ p < q

(* Fault: the cap counts the proposals of this run only.                   *)
KeptPerRun(c, known, stored) ==
  LET contenders == Contenders(c, known, stored)
  IN  {p \in contenders :
         Cap = 0 \/ Cardinality({q \in contenders : Stronger(q, p, c)}) < Cap}

(* The strongest of them, as many as the chunk has room for beside the     *)
(* live claims on it.                                                      *)
Kept(c, known, stored) ==
  LET contenders == Contenders(c, known, stored)
  IN  {p \in contenders :
         \/ Cap = 0
         \/ Cardinality({q \in contenders : Stronger(q, p, c)}) < Cap - Claims(known, c)}

Proposal(p, c) ==
  [practice |-> p, chunk |-> c, review |-> "pending"]

Proposals(known, stored) ==
  UNION {{Proposal(p, c) : p \in Kept(c, known, stored)} : c \in stored}

-----------------------------------------------------------------------------
(* The requests.                                                           *)

At(t, label) == pc[t] = label

Goto(t, label) == pc' = [pc EXCEPT ![t] = label]

(* A write is something another call may not have expected.                *)
Disturb(t) ==
  quiet' = [u \in Thread |-> IF u = t THEN quiet[u] ELSE pc[u] = "idle"]

(* propose_mappings.                                                       *)
ReadLinks(t) ==
  /\ At(t, "idle")
  /\ seen' = [seen EXCEPT ![t] = links]
  /\ Goto(t, "search")
  /\ UNCHANGED <<chunks, links, todo, quiet>>

Search(t) ==
  /\ At(t, "search")
  /\ todo' = [todo EXCEPT ![t] = Proposals(seen[t], chunks)]
  /\ Goto(t, "propose")
  /\ UNCHANGED <<chunks, links, seen, quiet>>

(* The proposals are stored practice by practice, nearest chunk first.     *)
IsFirst(x, rest) ==
  \A y \in rest : \/ x.practice < y.practice
                  \/ /\ x.practice = y.practice
                     /\ Confidence(x.practice, x.chunk) >= Confidence(y.practice, y.chunk)

StoreProposal(t) ==
  /\ At(t, "propose") /\ Len(links) < MaxLinks
  /\ \E x \in todo[t] :
       /\ IsFirst(x, todo[t])
       /\ links' = Append(links, x)
       /\ todo' = [todo EXCEPT ![t] = @ \ {x}]
  /\ Disturb(t)
  /\ UNCHANGED <<chunks, pc, seen>>

EndRun(t) ==
  /\ At(t, "propose") /\ todo[t] = {}
  /\ Goto(t, "done")
  /\ UNCHANGED <<chunks, links, seen, todo, quiet>>

Return(t) ==
  /\ At(t, "done")
  /\ Goto(t, "idle")
  /\ seen' = [seen EXCEPT ![t] = <<>>]
  /\ quiet' = [quiet EXCEPT ![t] = TRUE]
  /\ UNCHANGED <<chunks, links, todo>>

(* link_evidence: the chunk cited must be stored, and a document that is   *)
(* cited as a whole must have chunks.                                      *)
CheckLink(t) ==
  /\ At(t, "idle")
  /\ \E p \in Practice, c \in chunks \cup {NoChunk} :
       /\ chunks # {}
       /\ todo' = [todo EXCEPT ![t] = {[Proposal(p, c) EXCEPT !.review = "accepted"]}]
  /\ Goto(t, "link")
  /\ UNCHANGED <<chunks, links, seen, quiet>>

StoreLink(t) ==
  /\ At(t, "link") /\ Len(links) < MaxLinks
  /\ \E x \in todo[t] : links' = Append(links, x)
  /\ todo' = [todo EXCEPT ![t] = {}]
  /\ Goto(t, "idle")
  /\ Disturb(t)
  /\ UNCHANGED <<chunks, seen>>

(* review_evidence; an edit corrects the practice, never the passage.      *)
Review(t) ==
  /\ At(t, "idle")
  /\ \E i \in DOMAIN links :
       /\ links[i].review = "pending"
       /\ \/ links' = [links EXCEPT ![i].review = "rejected"]
          \/ links' = [links EXCEPT ![i].review = "accepted"]
          \/ \E p \in Practice \ {links[i].practice} :
               links' = [links EXCEPT ![i].review = "edited", ![i].practice = p]
  /\ Disturb(t)
  /\ UNCHANGED <<chunks, pc, seen, todo>>

Request(t) ==
  \/ ReadLinks(t) \/ Search(t) \/ StoreProposal(t) \/ EndRun(t)
  \/ CheckLink(t) \/ StoreLink(t) \/ Review(t)
  \/ Return(t)

Idle ==
  /\ links = <<>>
  /\ pc = [t \in Thread |-> "idle"]
  /\ seen = [t \in Thread |-> <<>>]
  /\ todo = [t \in Thread |-> {}]
  /\ quiet = [t \in Thread |-> TRUE]

-----------------------------------------------------------------------------
(* Properties.                                                             *)

(* ADR-0072: a run that nobody's write overlapped leaves no chunk with     *)
(* more live claims than the cap, unless it had them before, by hand; and  *)
(* it leaves nothing over: a second run directly after it would propose    *)
(* nothing, the room it left included.                                     *)
CapHolds ==
  \A t \in Thread : At(t, "done") /\ quiet[t] =>
    /\ \A c \in chunks :
         Cap > 0 /\ Claims(links, c) > Claims(seen[t], c) => Claims(links, c) <= Cap
    /\ Proposals(links, chunks) = {}

=============================================================================
